------------------------------ MODULE DshMapper ------------------------------
(***************************************************************************)
(* mapDshRecord of packages/dsh-observer/src/mapper.ts, and the events of  *)
(* the first n records of a persisted Harness session as                   *)
(* loadDshPersistence gives them.  The first record is the session's       *)
(* header, every other an event of the session or a storage frame.  A      *)
(* record is its type and whether it is marked as ignorable.               *)
(*                                                                         *)
(* An event's id is the line of its record, its body its type and, for the *)
(* announcement of the session, the line of the descriptor it is taken     *)
(* from, 0 when none is known, and whether it tells the agent's options.   *)
(***************************************************************************)
EXTENDS Naturals, Sequences, TLC

CONSTANT IsChild               \* the session has a parent session

DshEvent(line, suffix, type, about, detail) ==
    [id |-> <<line, suffix>>, body |-> [type |-> type, about |-> about, detail |-> detail]]

Types == ("user/message" :> "prompt.accepted")
      @@ ("assistant/message" :> "assistant.message")
      @@ ("turn/start" :> "turn.started") @@ ("turn/end" :> "turn.ended")
      @@ ("step/start" :> "step.started") @@ ("step/end" :> "step.ended")
      @@ ("tool/call" :> "tool.started") @@ ("tool/result" :> "tool.finished")
      @@ ("subagent/descriptor" :> "session.metadata_changed")
      @@ ("session/title" :> "session.metadata_changed")
      @@ ("sandbox/mode" :> "session.metadata_changed")
      @@ ("approval/policy" :> "session.metadata_changed")
      @@ ("permission/preset" :> "session.metadata_changed")
      @@ ("agent-preset/selected" :> "session.metadata_changed")
      @@ ("approval/asked" :> "agent.status_changed")
      @@ ("approval/decided" :> "agent.status_changed")
      @@ ("compaction/end" :> "context.compacted")
      @@ ("error" :> "error.recorded")

\* Recorded by the Harness and of no interest; any other type is refused
\* unless the Harness marked the record as ignorable.
Silent == {"assistant/chunk", "todo/write", "request/header", "request/context",
           "session/end-seed", "agent/inbox/spliced", "session/title-llm-request",
           "web/deepseek-search-llm-request"}
Unsupported(r) == r.type \notin DOMAIN Types \cup Silent /\ ~r.ignorable

SessionEvents(r, line) ==
    IF r.type \in DOMAIN Types THEN <<DshEvent(line, "", Types[r.type], 0, FALSE)>> ELSE <<>>

\* session_announced: who the session is, as far as its records tell, or else
\* the agent's options, where an agent is given.
Announcement(descriptor, agent) ==
    LET options == agent /\ descriptor = 0
    IN  <<DshEvent(1, "header", "session.discovered", descriptor, options)>>
        \o IF IsChild THEN <<DshEvent(1, "spawn", "agent.spawned", descriptor, options)>> ELSE <<>>

Descriptor(log, n) ==
    LET known == {l \in 2 .. n : log[l].type = "subagent/descriptor"}
    IN  IF known = {} THEN 0 ELSE CHOOSE m \in known : \A l \in known : m <= l

\* loadDshPersistence: unsupported records are reported and left out.
DshEvents(log, n) ==
    LET upTo[l \in 1 .. n] ==
            IF l = 1 THEN Announcement(Descriptor(log, n), FALSE)
            ELSE upTo[l - 1] \o SessionEvents(log[l], l)
    IN  upTo[n]
=============================================================================
