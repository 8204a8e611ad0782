----------------------------- MODULE CodexMapper -----------------------------
(***************************************************************************)
(* mapCodexRecord of packages/codex-adapter/src/mapper.ts: a record of a   *)
(* rollout gives its events on its own, so the mapper keeps no state.  A   *)
(* record is its type, for event_msg and response_item its payload's type, *)
(* the id it carries (a turn or call), NoId when it has none, and whether  *)
(* it has the text, usage or model that its event is to report.  A message *)
(* of a response_item is typed by its role.  A body is the suffix of the   *)
(* event's id, its type and the turn or call it is about, by its id or     *)
(* else by the line.                                                       *)
(***************************************************************************)
EXTENDS Naturals, Sequences

CONSTANTS NoId, IsSubagent      \* the session was spawned by another

Body(suffix, type, ref) == [suffix |-> suffix, type |-> type, ref |-> ref]
When(condition, events) == IF condition THEN events ELSE <<>>
IdOr(r, line) == IF r.id = NoId THEN <<"line", line>> ELSE <<"id", r.id>>

\* The first session_meta announces the session, a later one changes it.
SessionEvents(r, line) ==
    IF line # 1 THEN <<Body("metadata", "session.metadata_changed", <<>>)>>
    ELSE <<Body("session", "session.discovered", <<>>)>>
         \o IF IsSubagent THEN <<Body("spawn", "agent.spawned", <<>>)>> ELSE <<>>

Ended(turn) == << Body("turn", "turn.ended", turn),
                  Body("outcome", "agent.outcome_recorded", turn),
                  Body("activation", "agent.activation_ended", turn) >>

TerminalEvents(turn) == <<Body("error", "error.recorded", turn)>> \o Ended(turn)

ToolCalls == {"custom_tool_call", "function_call"}
ToolEnds == {"patch_apply_end", "mcp_tool_call_end", "web_search_end",
             "custom_tool_call_output", "function_call_output"}
Said == [user_message |-> "prompt.accepted", user |-> "prompt.accepted",
         agent_message |-> "assistant.message", assistant |-> "assistant.message",
         agent_reasoning |-> "assistant.reasoning_summary",
         compacted |-> "context.compacted", context_compacted |-> "context.compacted"]
SaidIfThere == [turn_context |-> "session.metadata_changed", token_count |-> "step.ended",
                reasoning |-> "assistant.reasoning_summary"]

CodexEvents(r, line) ==
    LET ref == IdOr(r, line)
    IN  CASE r.type = "session_meta" -> SessionEvents(r, line)
          [] r.type = "task_started" -> << Body("activation", "agent.activation_started", ref),
                                           Body("turn", "turn.started", ref) >>
          [] r.type = "task_complete" -> When(r.full, <<Body("message", "assistant.message", ref)>>) \o Ended(ref)
          [] r.type = "turn_aborted" -> TerminalEvents(ref)
          [] r.type \in ToolCalls -> <<Body("tool", "tool.started", ref)>>
          [] r.type \in ToolEnds -> <<Body("tool", "tool.finished", ref)>>
          [] r.type \in DOMAIN Said -> <<Body("said", Said[r.type], <<>>)>>
          [] r.type \in DOMAIN SaidIfThere ->
                When(r.full, <<Body("said", SaidIfThere[r.type], <<>>)>>)
          [] OTHER -> <<>>

CodexMap(m, r, line) == [mapping |-> m, events |-> CodexEvents(r, line)]
=============================================================================
