------------------------------ MODULE PiMapper -------------------------------
(***************************************************************************)
(* parsePiSession and mapPiSession of packages/pi-adapter/src (loader.ts,  *)
(* mapper.ts): the events of the first n records of a Pi session.          *)
(*                                                                         *)
(* The first record is the session's header; every other is an entry with  *)
(* the line of its parent, 0 when it has none.  The entries form a tree of *)
(* which the last one's branch is active, and only that branch is mapped.  *)
(* An entry is its kind (a message's kind is its role), its parent, the    *)
(* first entry that a compaction keeps, the number of its tool calls,      *)
(* whether it has text, and why an assistant stopped, "" if unsaid.        *)
(*                                                                         *)
(* An event has the entry's line and a suffix as its id.  Its body is its  *)
(* type, the entry it is about and whether its entry was in the context;   *)
(* times, excerpts and the order of events of one time are left out.       *)
(***************************************************************************)
EXTENDS Naturals, SequencesExt

\* buildActivePath: the lines from the root of the tree to the last entry.
ActivePath(log, n) ==
    LET branch[l \in 0 .. n] == IF l <= 1 THEN <<>> ELSE Append(branch[log[l].parent], l)
    IN  branch[n]

\* buildContextEntryIds: the latest compaction on the path, what follows it,
\* and what it keeps of the entries before it.
ContextLines(log, path) ==
    LET compactions == {i \in DOMAIN path : log[path[i]].kind = "compaction"}
        latest == CHOOSE i \in compactions : \A j \in compactions : j <= i
        kept == {i \in 1 .. latest - 1 : path[i] = log[path[latest]].kept}
    IN  IF compactions = {} THEN ToSet(path)
        ELSE {path[i] : i \in {j \in DOMAIN path :
                 j >= latest \/ \E k \in kept : k <= j}}

Event(line, suffix, type, about, context) ==
    [id |-> <<line, suffix>>, body |-> [type |-> type, about |-> about, detail |-> context]]

When(condition, events) == IF condition THEN events ELSE <<>>

\* An assistant's answer ends the activation unless it goes on with tools.
Completes(r) == \/ r.stop \notin {"", "toolUse"}
                \/ r.stop = "" /\ r.text /\ r.calls = 0

Simple == [custom_message |-> <<"custom-message", "prompt.accepted">>,
           compaction |-> <<"compaction", "context.compacted">>,
           branch_summary |-> <<"branch-summary", "assistant.message">>,
           model_change |-> <<"model", "session.metadata_changed">>,
           thinking_level_change |-> <<"thinking-level", "session.metadata_changed">>,
           session_info |-> <<"session-info", "session.metadata_changed">>,
           toolResult |-> <<"tool-result", "tool.finished">>]

\* mapEntry: the events of the entry at a line while an activation, named by
\* the line of its prompt, is open or, when 0, none is; in order of source_seq.
EntryEvents(r, line, open, context) ==
    LET Ev(suffix, type, about) == Event(line, suffix, type, about, context)
    IN  CASE r.kind = "user" ->
                When(open # 0, <<Ev("previous-activation-ended", "agent.activation_ended", open)>>)
                \o << Ev("activation-started", "agent.activation_started", line),
                      Ev("prompt", "prompt.accepted", line) >>
          [] r.kind = "assistant" ->
                When(r.text, <<Ev("assistant", "assistant.message", line)>>)
                \o [i \in 1 .. r.calls |-> Ev(ToString(i), "tool.started", line)]
                \o When(r.stop \in {"error", "aborted"}, <<Ev("error", "error.recorded", line)>>)
                \o When(open # 0 /\ Completes(r),
                        <<Ev("activation-ended", "agent.activation_ended", open)>>)
          [] r.kind \in DOMAIN Simple -> <<Ev(Simple[r.kind][1], Simple[r.kind][2], line)>>
          [] OTHER -> <<>>

OpenAfter(r, line, open) == CASE r.kind = "user" -> line
                              [] r.kind = "assistant" /\ Completes(r) -> 0
                              [] OTHER -> open

\* mapPiSession: the identity, which names the leaf, then the active branch.
PiEvents(log, n) ==
    LET path == ActivePath(log, n)
        context == ContextLines(log, path)
        Identity == Event(1, "identity", "session.discovered", n, FALSE)
        upTo[i \in 0 .. Len(path)] ==
            IF i = 0 THEN [open |-> 0, events |-> <<Identity>>]
            ELSE LET l == path[i]
                     before == upTo[i - 1]
                 IN  [open |-> OpenAfter(log[l], l, before.open),
                      events |-> before.events \o EntryEvents(log[l], l, before.open, l \in context)]
    IN  upTo[Len(path)].events

\* Entries that parsing or mapping reports as errors, which stop the observer.
PiErrors(log, n) == \E l \in 2 .. n : log[l].kind = "unknown"
=============================================================================
