-------------------------- MODULE AntigravityMapper --------------------------
(***************************************************************************)
(* mapAntigravityRecords of packages/antigravity-adapter/src/mapper.ts.    *)
(*                                                                         *)
(* The mapper carries a state from record to record, which the observer    *)
(* commits with its cursor: the tool calls without a result, oldest first, *)
(* and the activation that is open.  A record is what parsing leaves of a  *)
(* line: its type, status, whether it has content and thinking, the names  *)
(* of its tool calls and the conversations its content names.  step_index  *)
(* is taken to be the line.  An event's body has the suffix of its id, its *)
(* type and what it refers to.                                             *)
(***************************************************************************)
EXTENDS Naturals, SequencesExt

CONSTANT NoActivation

NoPending == [pending |-> <<>>, active |-> NoActivation]

Body(suffix, type, ref) == [suffix |-> suffix, type |-> type, ref |-> ref]
Result(m, events) == [mapping |-> m, events |-> events]
When(condition, events) == IF condition THEN events ELSE <<>>

\* The activation that starts at a line and its turn end together.
EndOf(activation, suffix) ==
    << Body(<<"turn-end">> \o suffix, "turn.ended", <<activation>>),
       Body(<<"activation-end">> \o suffix, "agent.activation_ended", <<activation>>) >>

Prompted(m, line, ended) ==
    Result([m EXCEPT !.active = line],
           ended \o << Body(<<"prompt">>, "prompt.accepted", <<>>),
                       Body(<<"activation-start">>, "agent.activation_started", <<line>>),
                       Body(<<"turn-start">>, "turn.started", <<line>>),
                       Body(<<"status-running">>, "agent.status_changed", <<>>) >>)

\* A prompt ends the open activation and starts one of its own.
UserInput(m, line) ==
    Prompted(m, line, When(m.active # NoActivation, EndOf(m.active, <<m.active>>)))

\* The planner thinks, speaks and calls tools; it ends the activation when it is
\* done, has something to say and calls none.
PlannerResponse(m, r, line) ==
    LET calls == [i \in DOMAIN r.tools |-> <<line, i, r.tools[i]>>]
        ends  == /\ r.status = "DONE" /\ r.tools = <<>> /\ r.content
                 /\ m.active # NoActivation
    IN  Result([pending |-> m.pending \o calls,
                active  |-> IF ends THEN NoActivation ELSE m.active],
               When(r.thinking, <<Body(<<"reasoning">>, "assistant.reasoning_summary", <<>>)>>)
            \o When(r.content, <<Body(<<"message">>, "assistant.message", <<>>)>>)
            \o [i \in DOMAIN calls |-> Body(<<"tool-start", i>>, "tool.started", calls[i])]
            \o When(r.status = "RUNNING",
                    <<Body(<<"planner-running">>, "agent.status_changed", <<>>)>>)
            \o When(ends, EndOf(m.active, <<>>)))

EditTools == {"write_to_file", "replace_file_content", "multi_replace_file_content"}

\* The types of records that are results, named here as the tools they come from.
Results == {"view_file", "list_dir", "find_by_name", "grep_search", "run_command",
            "invoke_subagent", "manage_subagents", "read_url_content", "search_web",
            "CODE_ACTION"}

\* The tool whose result a record of this type is: the record names it, or it is
\* a pending edit.
IsResultOf(type, call) == IF type = "CODE_ACTION" THEN call[3] \in EditTools ELSE call[3] = type

\* The place of the oldest pending call that the result may belong to, or 0.
Oldest(m, type) == SelectInSeq(m.pending, LAMBDA call : IsResultOf(type, call))

SpawnEvents(children) ==
    FlattenSeq([i \in DOMAIN children |->
        << Body(<<"child-session", children[i], i>>, "session.discovered", <<children[i], i>>),
           Body(<<"child-spawn", children[i], i>>, "agent.spawned", <<children[i], i>>),
           Body(<<"child-running", children[i], i>>, "agent.status_changed", <<children[i], i>>) >>])

\* Mutant: a finished call stays pending.
ToolResultKept(m, r, line) ==
    LET at   == Oldest(m, r.type)
        call == IF at = 0 THEN <<line, 0, r.type>> ELSE m.pending[at]
    IN  IF at = 0 /\ r.type = "CODE_ACTION" THEN Result(m, <<>>)
        ELSE Result(m, <<Body(<<"tool-finish", line>>, "tool.finished", call)>>)

\* A result finishes the oldest pending call of its tool, or a call that nobody
\* announced; an edit without a pending call is no result at all.
ToolResult(m, r, line) ==
    LET at   == Oldest(m, r.type)
        call == IF at = 0 THEN <<line, 0, r.type>> ELSE m.pending[at]
    IN  IF at = 0 /\ r.type = "CODE_ACTION" THEN Result(m, <<>>)
        ELSE Result(IF at = 0 THEN m ELSE [m EXCEPT !.pending = RemoveAt(@, at)],
                    <<Body(<<"tool-finish">> \o call, "tool.finished", call)>>
                    \o When(r.type = "invoke_subagent", SpawnEvents(r.children)))

ErrorMessage(m) ==
    Result(m, <<Body(<<"error">>, "error.recorded", <<>>),
                Body(<<"status-waiting">>, "agent.status_changed", <<>>)>>)

\* One record; the first line also announces the session.
AntigravityMap(m, r, line) ==
    LET mapped == CASE r.type = "USER_INPUT" -> UserInput(m, line)
                    [] r.type = "PLANNER_RESPONSE" -> PlannerResponse(m, r, line)
                    [] r.type = "GENERIC" ->
                          Result(m, When(r.content, <<Body(<<"generic">>, "assistant.message", <<>>)>>))
                    [] r.type = "CHECKPOINT" ->
                          Result(m, <<Body(<<"checkpoint">>, "step.ended", <<>>)>>)
                    [] r.type = "ERROR_MESSAGE" -> ErrorMessage(m)
                    [] r.type \in Results -> ToolResult(m, r, line)
                    [] OTHER -> Result(m, <<>>)
    IN  [mapped EXCEPT !.events =
            When(line = 1, <<Body(<<"session">>, "session.discovered", <<>>)>>) \o @]
=============================================================================
