--------------------------- MODULE MCTailObserver ----------------------------
(***************************************************************************)
(* Small instances of TranscriptObservers: two Codex rollouts that share a *)
(* sink, and Antigravity transcripts whose tool calls and results may lie  *)
(* in different reads.                                                     *)
(***************************************************************************)
EXTENDS TranscriptObservers

CONSTANTS p1, p2

Rec(type) == [type |-> type, id |-> NoId, full |-> TRUE]
Codex ==
    [runtime |-> "codex", maxQueue |-> 5, maxEdits |-> 3,
     log |-> (p1 :> <<Rec("session_meta"), Rec("agent_message")>>)
          @@ (p2 :> <<Rec("session_meta"), Rec("world_state")>>)]

Line(type, status, content, tools) ==
    [type |-> type, status |-> status, content |-> content, thinking |-> FALSE,
     tools |-> tools, children |-> <<>>]
Prompt == Line("USER_INPUT", "DONE", TRUE, <<>>)
Answer == Line("PLANNER_RESPONSE", "DONE", TRUE, <<>>)
Calls(tools) == Line("PLANNER_RESPONSE", "DONE", FALSE, tools)
ResultOf(type) == Line(type, "DONE", TRUE, <<>>)
Spawned == [ResultOf("invoke_subagent") EXCEPT !.children = <<"x", "y">>]

\* The sink holds two readings of a transcript: with less, scans that are tried
\* again before the sink has delivered may keep it full for ever.
Antigravity(maxQueue, maxEdits, records) ==
    [runtime |-> "antigravity", maxQueue |-> maxQueue, maxEdits |-> maxEdits,
     log |-> p1 :> records]

MCAgents ==
    { Codex,
      Antigravity(8, 3, <<Calls(<<"view_file", "view_file">>), ResultOf("view_file"),
                          ResultOf("ERROR_MESSAGE")>>),
      Antigravity(8, 3, <<Calls(<<"write_to_file", "run_command">>), ResultOf("CODE_ACTION"),
                          ResultOf("CODE_ACTION")>>),
      Antigravity(16, 2, <<Prompt, Answer>>),
      Antigravity(22, 2, <<Prompt, Prompt>>),
      Antigravity(22, 2, <<Calls(<<"invoke_subagent">>), Spawned>>) }
=============================================================================
