----------------------------- MODULE Supervisor ------------------------------
(***************************************************************************)
(* The two programs that run the ingest server and the runtime watchers as *)
(* child processes on one machine: the desktop shell (apps/desktop/src-    *)
(* tauri: ManagedIngest, ManagedClaude, ManagedRuntimeObserver and their   *)
(* commands) and the terminal client (crates/cli/src/bin/orche_managed.rs).*)
(* They share the port, the data directory and live-config.json.           *)
(*                                                                         *)
(* The desktop's commands run one after the other on its main thread, a    *)
(* repair on a thread of its own; a mutex (guard) keeps a repair apart     *)
(* from starting and stopping the server.  Watchers and server run by      *)
(* themselves and may exit at any time.                                    *)
(*                                                                         *)
(*   procs   children that are not reaped: pid -> [kind, owner, token,     *)
(*           state], where a token is the number of a server's start       *)
(*   port    the server that listens, config the token in live-config.json *)
(*   desk    the desktop: its process records, its main thread (pc), guard *)
(*   orche   the terminal client's start-up and the children it holds      *)
(*   used    server starts so far; lost: the desktop's server left by      *)
(*           itself                                                        *)
(*                                                                         *)
(* Bound: MaxServes.  Diagnostics, executable lookup and hooks are left    *)
(* out; starting a watcher and killing a child do not fail.                *)
(***************************************************************************)
EXTENDS Naturals, FiniteSets

CONSTANTS Watchers,     \* the registered runtimes' watchers
          NoPid, NoToken,
          Free,         \* nobody holds the maintenance mutex
          MaxServes

ASSUME SupervisorAssumption ==
    /\ IsFiniteSet(Watchers) /\ MaxServes \in Nat
    /\ NoPid \notin Nat /\ NoToken \notin Nat /\ Free \notin {"main", "repair"}

VARIABLES procs, port, config, desk, orche, used
vars == <<procs, port, config, desk, orche, used>>

Alive(p) == p \in DOMAIN procs /\ procs[p].state # "dead"
Reap(f, P) == [p \in DOMAIN f \ P |-> f[p]]
PortWithout(P) == IF port \in P THEN NoPid ELSE port

\* Low pids that no child has, one for each of the names.
FreePids(f, n) == 1 .. (Cardinality(DOMAIN f) + n) \ DOMAIN f
Spawned(f, names) ==
    CHOOSE pid \in [names -> FreePids(f, Cardinality(names))] :
        \A a, b \in names : a # b => pid[a] # pid[b]

Child(kind, owner, token) == [kind |-> kind, owner |-> owner, token |-> token, state |-> "up"]
Server(owner, token) == [kind |-> "serve", owner |-> owner, token |-> token, state |-> "booting"]
With(f, pids, new(_)) == [p \in DOMAIN f \cup pids |-> IF p \in pids THEN new(p) ELSE f[p]]

-----------------------------------------------------------------------------
(* otrace serve: it opens the database and rewrites the files, then binds. *)
Bind(p) ==
    /\ Alive(p) /\ procs[p].state = "booting"
    /\ IF port = NoPid
       THEN port' = p /\ procs' = [procs EXCEPT ![p].state = "bound"] /\ UNCHANGED used
       ELSE /\ procs' = [procs EXCEPT ![p].state = "dead"]
            /\ used' = [used EXCEPT !.lost = @ \/ procs[p].owner = "desktop"]
            /\ UNCHANGED port
    /\ UNCHANGED <<config, desk, orche>>

WriteLiveConfig(p) ==
    /\ Alive(p) /\ procs[p].state = "bound"
    /\ config' = procs[p].token
    /\ procs' = [procs EXCEPT ![p].state = "up"]
    /\ UNCHANGED <<port, desk, orche, used>>

\* The accept loop has ended: the server waits for its clients and exits.
ShutDown(p) ==
    /\ Alive(p) /\ procs[p].state = "draining"
    /\ config' = NoToken
    /\ port' = PortWithout({p})
    /\ procs' = [procs EXCEPT ![p].state = "dead"]
    /\ UNCHANGED <<desk, orche, used>>

\* A child leaves by itself.
Exit(p) ==
    /\ Alive(p)
    /\ procs' = [procs EXCEPT ![p].state = "dead"]
    /\ port' = PortWithout({p})
    /\ used' = [used EXCEPT !.lost = @ \/ (procs[p].owner = "desktop" /\ procs[p].kind = "serve")]
    /\ UNCHANGED <<config, desk, orche>>

-----------------------------------------------------------------------------
(* The desktop.                                                            *)
\* refresh: a child that has exited is reaped and forgotten.
Exited(record) == record.child \in DOMAIN procs /\ procs[record.child].state = "dead"
Refreshed(record) ==
    IF Exited(record) THEN [child |-> NoPid, token |-> NoToken, phase |-> "exited"] ELSE record
Reaped(records) == {r.child : r \in {s \in records : Exited(s)}}

Click(command) ==
    /\ desk.pc = "idle"
    /\ desk' = [desk EXCEPT !.pc = command]
    /\ UNCHANGED <<procs, port, config, orche, used>>

\* start_managed_ingest: the server, unless its child is there; beyond
\* MaxServes otrace is missing ...
StartIngest ==
    /\ desk.pc = "start" /\ desk.guard = Free
    /\ LET ingest == Refreshed(desk.ingest)
           base   == Reap(procs, Reaped({desk.ingest}))
           p      == Spawned(base, {"serve"})["serve"]
       IN  IF ingest.child # NoPid
           THEN /\ desk' = [desk EXCEPT !.pc = "attach", !.guard = "main"]
                /\ UNCHANGED <<procs, used>>
           ELSE IF used.serves = MaxServes
           THEN /\ procs' = base
                /\ desk' = [desk EXCEPT !.pc = "idle", !.ingest = [ingest EXCEPT !.phase = "unavailable"]]
                /\ UNCHANGED used
           ELSE /\ used' = [used EXCEPT !.serves = @ + 1]
                /\ procs' = With(base, {p}, LAMBDA q : Server("desktop", used.serves + 1))
                /\ desk' = [desk EXCEPT !.pc = "attach", !.guard = "main",
                                        !.ingest = [child |-> p, token |-> used.serves + 1,
                                                    phase |-> "running"]]
    /\ UNCHANGED <<port, config, orche>>

\* Mutant: start replaces the child it has.
MissingAlways(names) == names

\* start of a watcher: nothing if its child is there, whatever token it has.
Missing(names) == {n \in names : Refreshed(desk.watchers[n]).child = NoPid}

Started(names, token) ==
    LET new  == Missing(names)
        base == Reap(procs, Reaped({desk.watchers[n] : n \in names}))
        pid  == Spawned(base, new)
    IN  /\ procs' = With(base, {pid[n] : n \in new},
                         LAMBDA q : Child("watcher", "desktop", token))
        /\ desk' = [desk EXCEPT !.pc = "idle", !.guard = IF @ = "main" THEN Free ELSE @,
                                !.watchers = [n \in Watchers |->
                                    IF n \in new THEN [child |-> pid[n], token |-> token, phase |-> "running"]
                                    ELSE @[n]]]

\* ... and the watchers, with its token.
AttachWatchers ==
    /\ desk.pc = "attach"
    /\ Started(Watchers, desk.ingest.token)
    /\ UNCHANGED <<port, config, orche, used>>

\* start_runtime and start_claude_auto: with the token of a running server.
StartWatcher(n) ==
    /\ desk.pc = "idle"
    /\ Refreshed(desk.ingest).token # NoToken
    /\ Started({n}, desk.ingest.token)
    /\ UNCHANGED <<port, config, orche, used>>

Stopped == [child |-> NoPid, token |-> NoToken, phase |-> "stopped"]
Kill(P) == procs' = Reap(procs, P) /\ port' = PortWithout(P)

StopWatcher(n) ==
    /\ desk.pc = "idle"
    /\ Kill({desk.watchers[n].child})
    /\ desk' = [desk EXCEPT !.watchers[n] = Stopped]
    /\ UNCHANGED <<config, orche, used>>

\* Mutant: the watchers go on when the server is stopped.
StopWatchersNone ==
    /\ desk.pc = "stop" /\ desk.guard = Free
    /\ desk' = [desk EXCEPT !.guard = "main", !.pc = "shutdown"]
    /\ UNCHANGED <<procs, port, config, orche, used>>

\* stop_managed_ingest: the watchers first ...
StopWatchers ==
    /\ desk.pc = "stop" /\ desk.guard = Free
    /\ Kill({desk.watchers[n].child : n \in Watchers})
    /\ desk' = [desk EXCEPT !.guard = "main", !.pc = "shutdown", !.watchers = [n \in Watchers |-> Stopped]]
    /\ UNCHANGED <<config, orche, used>>

IngestStopped(P) ==
    /\ Kill(P)
    /\ desk' = [desk EXCEPT !.ingest = Stopped, !.pc = "idle", !.guard = Free]
    /\ UNCHANGED <<config, orche, used>>

\* ... then the server, by an authenticated request to whoever listens ...
RequestShutdown ==
    /\ desk.pc = "shutdown" /\ Alive(desk.ingest.child)
    /\ \/ /\ Alive(port) /\ procs[port].state = "up" /\ procs[port].token = desk.ingest.token
          /\ procs' = [procs EXCEPT ![port].state = "draining"]
          /\ desk' = [desk EXCEPT !.pc = "await"]
       \/ /\ desk' = [desk EXCEPT !.pc = "kill"]
          /\ UNCHANGED procs
    /\ UNCHANGED <<port, config, orche, used>>

NothingToStop == desk.pc = "shutdown" /\ ~Alive(desk.ingest.child) /\ IngestStopped({desk.ingest.child})
AwaitExit == desk.pc = "await" /\ ~Alive(desk.ingest.child) /\ IngestStopped({desk.ingest.child})

\* Mutant: the exit is waited for without a time limit.
AwaitTimeoutNever == FALSE /\ UNCHANGED vars

\* ... and by force if that is refused, not answered or takes too long.
AwaitTimeout ==
    /\ desk.pc = "await"
    /\ desk' = [desk EXCEPT !.pc = "kill"]
    /\ UNCHANGED <<procs, port, config, orche, used>>

KillIngest == desk.pc = "kill" /\ IngestStopped({desk.ingest.child})

\* The status queries of the window: each refreshes the record it asks for.
IngestStatus ==
    /\ desk.pc = "idle" /\ Exited(desk.ingest)
    /\ procs' = Reap(procs, {desk.ingest.child})
    /\ desk' = [desk EXCEPT !.ingest = Refreshed(@)]
    /\ UNCHANGED <<port, config, orche, used>>

WatcherStatus(n) ==
    /\ desk.pc = "idle" /\ Exited(desk.watchers[n])
    /\ procs' = Reap(procs, {desk.watchers[n].child})
    /\ desk' = [desk EXCEPT !.watchers[n] = Refreshed(@)]
    /\ UNCHANGED <<port, config, orche, used>>

AskRepair ==
    /\ desk.pc = "idle" /\ desk.repair = "none"
    /\ desk' = [desk EXCEPT !.repair = "asked"]
    /\ UNCHANGED <<procs, port, config, orche, used>>

RepairOrRefuse(guard) ==
    /\ desk' = [desk EXCEPT !.ingest = Refreshed(@),
                            !.repair = IF Refreshed(desk.ingest).phase = "running" THEN "none" ELSE "running",
                            !.guard = IF Refreshed(desk.ingest).phase = "running" THEN @ ELSE guard]
    /\ procs' = Reap(procs, Reaped({desk.ingest}))
    /\ UNCHANGED <<port, config, orche, used>>

\* Mutant: a repair does not take the mutex.
RepairStorageUnguarded == desk.repair = "asked" /\ RepairOrRefuse(desk.guard)

\* repair_storage, on a thread of its own: only if the server does not run.
RepairStorage == desk.repair = "asked" /\ desk.guard = Free /\ RepairOrRefuse("repair")

RepairEnds ==
    /\ desk.repair = "running"
    /\ desk' = [desk EXCEPT !.repair = "none", !.guard = IF @ = "repair" THEN Free ELSE @]
    /\ UNCHANGED <<procs, port, config, orche, used>>

-----------------------------------------------------------------------------
(* orche: ManagedObservers.                                                *)
OrcheFailed == [pc |-> "failed", stack |-> {}, token |-> NoToken, todo |-> {}]

\* endpoint_is_ready: a server that listens is shared, with the token that
\* live-config.json has, else one is started.
Probe ==
    /\ orche.pc = "off"
    /\ IF port # NoPid
       THEN /\ orche' = IF config = NoToken THEN OrcheFailed
                        ELSE [pc |-> "spawning", stack |-> {}, token |-> config, todo |-> Watchers]
            /\ UNCHANGED <<procs, used>>
       ELSE LET p == Spawned(procs, {"serve"})["serve"]
            IN  /\ used.serves < MaxServes
                /\ used' = [used EXCEPT !.serves = @ + 1]
                /\ procs' = With(procs, {p}, LAMBDA q : Server("orche", used.serves + 1))
                /\ orche' = [pc |-> "waiting", stack |-> {p}, token |-> used.serves + 1, todo |-> Watchers]
    /\ UNCHANGED <<port, config, desk>>

\* wait_for_endpoint, whoever listens; an error drops the stack.
EndpointReady ==
    /\ orche.pc = "waiting" /\ port # NoPid
    /\ orche' = [orche EXCEPT !.pc = "spawning"]
    /\ UNCHANGED <<procs, port, config, desk, used>>

EndpointTimeout ==
    /\ orche.pc = "waiting"
    /\ Kill(orche.stack)
    /\ orche' = OrcheFailed
    /\ UNCHANGED <<config, desk, used>>

\* A watcher that exits at once is not kept.
SpawnWatcher(n) ==
    /\ orche.pc = "spawning" /\ n \in orche.todo
    /\ LET p == Spawned(procs, {n})[n]
       IN  \/ /\ procs' = With(procs, {p}, LAMBDA q : Child("watcher", "orche", orche.token))
              /\ orche' = [orche EXCEPT !.todo = @ \ {n}, !.stack = @ \cup {p}]
           \/ UNCHANGED procs /\ orche' = [orche EXCEPT !.todo = @ \ {n}]
    /\ UNCHANGED <<port, config, desk, used>>

\* Leaving orche drops the stack.
Quit ==
    /\ orche.pc = "failed" \/ (orche.pc = "spawning" /\ orche.todo = {})
    /\ Kill(orche.stack)
    /\ orche' = [OrcheFailed EXCEPT !.pc = "off"]
    /\ UNCHANGED <<config, desk, used>>

-----------------------------------------------------------------------------
Init ==
    /\ procs = [p \in {} |-> Stopped] /\ port = NoPid /\ config = NoToken
    /\ desk = [pc |-> "idle", guard |-> Free, repair |-> "none", ingest |-> Stopped,
               watchers |-> [n \in Watchers |-> Stopped]]
    /\ orche = [OrcheFailed EXCEPT !.pc = "off"]
    /\ used = [serves |-> 0, lost |-> FALSE]

Serve == \E p \in DOMAIN procs : Bind(p) \/ WriteLiveConfig(p) \/ ShutDown(p)
Command == StartIngest \/ AttachWatchers \/ StopWatchers \/ RequestShutdown \/ NothingToStop
           \/ AwaitExit \/ AwaitTimeout \/ KillIngest
Desktop == \/ Click("start") \/ Click("stop") \/ IngestStatus
           \/ \E n \in Watchers : StartWatcher(n) \/ StopWatcher(n) \/ WatcherStatus(n)
           \/ AskRepair \/ RepairStorage
Orche == Probe \/ EndpointReady \/ EndpointTimeout \/ (\E n \in Watchers : SpawnWatcher(n)) \/ Quit

Next == Serve \/ (\E p \in DOMAIN procs : Exit(p)) \/ Command \/ Desktop \/ RepairEnds \/ Orche

\* The main thread goes on with a command and a repair ends; nothing is
\* assumed of the server.
Spec == Init /\ [][Next]_vars /\ WF_vars(Command) /\ WF_vars(RepairEnds)
-----------------------------------------------------------------------------

\* Every child that lives is held by the program that started it, so that a
\* stop or the end of orche reaches it (README.md:378).
NoStrays ==
    \A p \in DOMAIN procs : Alive(p) =>
        IF procs[p].owner = "orche" THEN p \in orche.stack
        ELSE p = desk.ingest.child \/ \E n \in Watchers : p = desk.watchers[n].child

\* The desktop's server is not there while a repair rewrites what it serves.
RepairAlone ==
    desk.repair = "running" => ~\E p \in DOMAIN procs : Alive(p) /\ procs[p].owner = "desktop"
                                                       /\ procs[p].kind = "serve"

HoldsToken(n) == desk.watchers[n].token = desk.ingest.token

\* The watchers of the desktop have the token of its server, through any
\* sequence of starts and stops in which the server did not exit by itself.
TokensAgree ==
    ~used.lost /\ Alive(desk.ingest.child) =>
        \A n \in Watchers : Alive(desk.watchers[n].child) => HoldsToken(n)

\* A server that the desktop started comes with watchers that it accepts
\* (README.md:293: the watchers start with the managed ingest).
WatchersAttach ==
    desk.pc = "idle" /\ Alive(desk.ingest.child) =>
        \A n \in Watchers : Alive(desk.watchers[n].child) => HoldsToken(n)

\* A start or stop ends, whatever the server does.
CommandsEnd == desk.pc # "idle" ~> desk.pc = "idle"
=============================================================================
