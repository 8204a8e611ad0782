------------------------------- MODULE RunFold -------------------------------
(***************************************************************************)
(* fold_events of crates/core/src/lib.rs: the snapshot of a Run as a       *)
(* function of its events.                                                 *)
(*                                                                         *)
(* The content of an event is a record: at (effective_time), seq           *)
(* (source_seq), type, and the fields of data that the fold reads, with    *)
(* None for a missing one.  Times, sessions and ids are numbers, ordered   *)
(* as the code orders their strings.  label, role, provider and model are  *)
(* folded alike: label stands for the four, name for the free text of an   *)
(* entry.  detail_level, runtimes and durations are left out.              *)
(***************************************************************************)
EXTENDS Lineage, Sequences, SequencesExt

CONSTANTS None,          \* an Option without a value
          MaxTokens      \* u64::MAX

\* Sessions, ids, times and sequence numbers are ordered.
ASSUME OrderAssumption ==
    /\ Sessions \subseteq Int /\ EventIds \subseteq Int /\ None \notin Int
    /\ \A c \in Contents : c.at \in Int /\ c.seq \in Int

NotNone(v, default) == IF v = None THEN default ELSE v
Earlier(x, at) == IF x = None \/ at < x THEN at ELSE x
Later(x, at) == IF x = None \/ at > x THEN at ELSE x

\* The fields apply_event requires: an event without them cannot be folded.
RequiredFields ==
    [AgentActivationStarted |-> {"activation"}, AgentActivationEnded |-> {"activation"},
     AgentStatusChanged |-> {"status"}, AgentOutcomeRecorded |-> {"outcome"},
     ToolStarted |-> {"call", "name"}, ToolFinished |-> {"call", "outcome"}]

HasRequiredFields(c) ==
    c.type \in DOMAIN RequiredFields => \A f \in RequiredFields[c.type] : c[f] # None

\* Sorting by keys that are tuples of numbers and that no two elements share.
Below(x, y) == \E i \in DOMAIN x : /\ x[i] < y[i]
                                   /\ \A j \in 1..(i - 1) : x[j] = y[j]

SortedBy(key) ==
    LET rank == [e \in DOMAIN key |-> Cardinality({f \in DOMAIN key : Below(key[f], key[e])})]
    IN  [i \in 1..Cardinality(DOMAIN key) |-> CHOOSE e \in DOMAIN key : rank[e] = i - 1]

\* The order of the fold: by time, source, session, sequence and id.  A Run
\* has one source.
SortKey(e) == <<e.content.at, e.session, e.content.seq, e.id>>

Ordered(E) == SortedBy([e \in E |-> SortKey(e)])
-----------------------------------------------------------------------------
\* TokenUsageSnapshot: saturating sums, and the total a report spells out or
\* implies.  Input stands for the three kinds of input tokens.
Saturated(n) == IF n > MaxTokens THEN MaxTokens ELSE n
NoUsage == [input |-> 0, output |-> 0, total |-> 0, reports |-> 0]

AddUsage(u, v) == [k \in DOMAIN u |-> Saturated(u[k] + v[k])]

TokenUsage(c) ==
    IF c.usage = None THEN NoUsage
    ELSE [input   |-> c.usage.input,
          output  |-> c.usage.output,
          total   |-> IF c.usage.total > 0 THEN c.usage.total
                      ELSE Saturated(c.usage.input + c.usage.output),
          reports |-> IF c.usage.input + c.usage.output + c.usage.total > 0 THEN 1 ELSE 0]

-----------------------------------------------------------------------------
(* AgentAccumulator and apply_event.                                       *)
NewAgent == [parent |-> NoParent, label |-> None, mode |-> "root", status |-> None,
             outcome |-> None, priority |-> 0, started |-> None, last |-> None,
             activations |-> << >>, tools |-> << >>, usage |-> NoUsage]

Put(f, k, v) == [x \in DOMAIN f \cup {k} |-> IF x = k THEN v ELSE f[x]]

ApplyIdentity(a, c) == [a EXCEPT !.label = NotNone(c.label, @), !.mode = NotNone(c.mode, @)]

\* or_insert_with: the activation or tool that an event names, known or new.
Activation(a, c) == IF c.activation \in DOMAIN a.activations THEN a.activations[c.activation]
                    ELSE [started |-> c.at, ended |-> None, status |-> None]
Tool(a, call, name) == IF call \in DOMAIN a.tools THEN a.tools[call]
                       ELSE [name |-> name, started |-> None, ended |-> None, outcome |-> None]

RecordOutcome(a, c) ==
    IF NotNone(c.priority, 0) >= a.priority
    THEN [a EXCEPT !.outcome = c.outcome, !.priority = NotNone(c.priority, 0)]
    ELSE a

\* Mutant: the start of a tool resets the call.
StartToolAnew(a, c) ==
    [a EXCEPT !.tools = Put(@, c.call,
        [name |-> c.name, started |-> c.at, ended |-> None, outcome |-> None])]

StartTool(a, c) ==
    [a EXCEPT !.tools = Put(@, c.call, [Tool(a, c.call, c.name) EXCEPT !.name = c.name, !.started = c.at])]

FinishTool(a, c) ==
    LET name == NotNone(c.name, "tool")
    IN  [a EXCEPT !.tools = Put(@, c.call,
            [Tool(a, c.call, name) EXCEPT !.name = name, !.ended = c.at, !.outcome = c.outcome])]

StartActivation(a, c) ==
    [a EXCEPT !.activations = Put(@, c.activation, Activation(a, c)), !.status = "running"]

EndActivation(a, c) ==
    LET status == NotNone(c.status, "inactive")
    IN  [a EXCEPT !.activations = Put(@, c.activation,
                     [Activation(a, c) EXCEPT !.ended = c.at, !.status = status]),
                  !.status = status]

\* The effect of one event on its agent, after the agent was touched.
ApplyData(a, e) ==
    LET c == e.content
    IN  CASE c.type \in {"SessionDiscovered", "SessionMetadataChanged"} ->
               LET b == ApplyIdentity(a, c)
               IN  IF b.parent = NoParent THEN [b EXCEPT !.mode = "root"] ELSE b
          [] c.type = "AgentSpawned" -> [ApplyIdentity(a, c) EXCEPT !.parent = e.parent]
          [] c.type = "AgentActivationStarted" -> StartActivation(a, c)
          [] c.type = "AgentActivationEnded"   -> EndActivation(a, c)
          [] c.type = "AgentStatusChanged"     -> [a EXCEPT !.status = c.status]
          [] c.type = "AgentOutcomeRecorded"   -> RecordOutcome(a, c)
          [] c.type = "AgentDisposed" ->
               IF a.status = "running" THEN [a EXCEPT !.status = "inactive"] ELSE a
          [] c.type = "ToolStarted"  -> StartTool(a, c)
          [] c.type = "ToolFinished" -> FinishTool(a, c)
          [] OTHER -> a

\* Mutant: the parent is the one the last event names, or none.
AdoptParentAlways(a, e) == [a EXCEPT !.parent = e.parent]

AdoptParent(a, e) == IF a.parent = NoParent THEN [a EXCEPT !.parent = e.parent] ELSE a

ApplyEvent(a, e) ==
    LET touched == AdoptParent([a EXCEPT !.started = Earlier(@, e.content.at),
                                         !.last = Later(@, e.content.at)], e)
    IN  ApplyData([touched EXCEPT !.usage = AddUsage(@, TokenUsage(e.content))], e)

\* push_timeline: the event types that leave an entry, each with the place of
\* its kind in the alphabet; a step does so only with a usage report.
KindOf ==
    [AgentActivationStarted |-> 1, ContextCompacted |-> 2, ErrorRecorded |-> 3,
     AssistantMessage |-> 4, AgentOutcomeRecorded |-> 5, PromptAccepted |-> 6,
     AssistantReasoningSummary |-> 7, AgentSpawned |-> 8, ToolStarted |-> 9,
     ToolFinished |-> 10, TurnStarted |-> 11, TurnEnded |-> 11,
     StepStarted |-> 12, StepEnded |-> 12]

Silent(c) == \/ c.type \notin DOMAIN KindOf
             \/ c.type \in {"StepStarted", "StepEnded"} /\ TokenUsage(c).reports = 0

TimelineEntry(a, e) ==
    [session |-> e.session, at |-> e.content.at, kind |-> KindOf[e.content.type],
     label   |-> IF e.content.type = "AgentSpawned" THEN a.label ELSE e.content.name,
     outcome |-> IF e.content.type = "ErrorRecorded" THEN "failed" ELSE e.content.outcome,
     usage   |-> TokenUsage(e.content)]

-----------------------------------------------------------------------------
(* fold_events: the loop over the ordered events, then the derived parts.  *)
AgentIds(E) == {e.session : e \in E}

\* The loop's body.
FoldNext(acc, e) ==
    LET agent == ApplyEvent(acc.agents[e.session], e)
    IN  [agents   |-> [acc.agents EXCEPT ![e.session] = agent],
         timeline |-> IF Silent(e.content) THEN acc.timeline
                      ELSE Append(acc.timeline, TimelineEntry(agent, e))]

Accumulated(E) ==
    LET order == Ordered(E)
        after[i \in 0 .. Cardinality(E)] ==
            IF i = 0 THEN [agents |-> [s \in AgentIds(E) |-> NewAgent], timeline |-> << >>]
            ELSE FoldNext(after[i - 1], order[i])
    IN  after[Cardinality(E)]

\* depth_of: the number of parents up to a root, an unknown session or a
\* session that was already passed.
WalkUp(agents, walk) ==
    IF walk.at = NoParent \/ walk.at \in walk.seen THEN walk
    ELSE [at    |-> IF walk.at \in DOMAIN agents THEN agents[walk.at].parent ELSE NoParent,
          seen  |-> walk.seen \cup {walk.at},
          depth |-> walk.depth + 1]

DepthOf(agents, s) ==
    LET most == Cardinality(DOMAIN agents) + 1
        walk[i \in 0 .. most] ==
            IF i = 0 THEN [at |-> agents[s].parent, seen |-> {}, depth |-> 0]
            ELSE WalkUp(agents, walk[i - 1])
    IN  walk[most].depth

\* finish: what is shown of an accumulator.
CurrentTool(tools) ==
    LET open == {t \in DOMAIN tools : tools[t].ended = None}
    IN  IF open = {} THEN None ELSE tools[CHOOSE t \in open : \A u \in open : u <= t].name

Finish(s, a) ==
    [id |-> s, parent |-> a.parent, label |-> a.label, mode |-> a.mode,
     status |-> NotNone(a.status, "unknown"), outcome |-> a.outcome,
     current |-> CurrentTool(a.tools), activations |-> a.activations, tools |-> a.tools,
     failed |-> Cardinality({t \in DOMAIN a.tools : a.tools[t].outcome = "failed"}),
     started |-> a.started, last |-> a.last, usage |-> a.usage, subtree |-> a.usage]

\* Mutant: agents in the order of their first event only.
AgentOrderByStart(agents) == SortedBy([s \in DOMAIN agents |-> <<agents[s].started, s>>])

AgentOrder(agents) ==
    SortedBy([s \in DOMAIN agents |-> <<DepthOf(agents, s), agents[s].started, s>>])

\* populate_subtree_token_usage: from the last agent to the first, each one
\* adds its subtree to its parent's.
AddToParent(agents, k) ==
    [i \in DOMAIN agents |->
        IF agents[i].id = agents[k].parent
        THEN [agents[i] EXCEPT !.subtree = AddUsage(@, agents[k].subtree)]
        ELSE agents[i]]

PopulateSubtree(agents) ==
    LET n == Len(agents)
        done[i \in 0 .. n] == IF i = 0 THEN agents ELSE AddToParent(done[i - 1], n - i + 1)
    IN  done[n]

\* The agents without a parent, the earliest first.
RootSession(agents) ==
    LET roots == {s \in DOMAIN agents : agents[s].parent = NoParent}
    IN  CHOOSE r \in roots : \A s \in roots :
            s = r \/ Below(<<agents[r].started, r>>, <<agents[s].started, s>>)

EdgesOf(agents) == {[parent |-> a.parent, child |-> a.id, remote |-> a.mode = "remote"] :
                      a \in {b \in ToSet(agents) : b.parent # NoParent}}

\* sort_by_key is stable: entries of one time, session and kind keep their order.
SortTimeline(timeline) ==
    LET order == SortedBy([i \in DOMAIN timeline |->
                   <<timeline[i].at, timeline[i].session, timeline[i].kind, i>>])
    IN  [i \in DOMAIN timeline |-> timeline[order[i]]]

\* set_min and set_max over the ordered events: the first and the last time.
FoldEvents(E) ==
    LET folded == Accumulated(E)
        order  == AgentOrder(folded.agents)
        agents == PopulateSubtree([i \in DOMAIN order |->
                                     Finish(order[i], folded.agents[order[i]])])
        times  == {e.content.at : e \in E}
    IN  [root        |-> RootSession(folded.agents),
         event_count |-> Cardinality(E),
         started     |-> CHOOSE t \in times : \A u \in times : t <= u,
         last        |-> CHOOSE t \in times : \A u \in times : t >= u,
         agents      |-> agents,
         edges       |-> EdgesOf(agents),
         timeline    |-> SortTimeline(folded.timeline)]
=============================================================================
