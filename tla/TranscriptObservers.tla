------------------------- MODULE TranscriptObservers -------------------------
(***************************************************************************)
(* TailObserver with the mappers of its two runtimes: the Codex mapper,    *)
(* which keeps no state, and the Antigravity mapper, whose state (pending  *)
(* calls and the open activation) is committed together with the cursor.   *)
(* What the state is for is stated of what is committed and durable, after *)
(* any number of scans, rereads, rewrites and restarts.                    *)
(***************************************************************************)
EXTENDS TailObserver

CONSTANTS NoId, IsSubagent,   \* CodexMapper's
          NoActivation        \* AntigravityMapper's

C == INSTANCE CodexMapper
A == INSTANCE AntigravityMapper

NoMappingOf(runtime) == IF runtime = "codex" THEN "none" ELSE A!NoPending

MapRecordOf(runtime, m, r, line) ==
    IF runtime = "codex" THEN C!CodexMap(m, r, line) ELSE A!AntigravityMap(m, r, line)

\* These are the mappers of the observers, and what an Antigravity record lists,
\* the tools it calls and the conversations it names, are lists.
ASSUME MapperAssumption ==
    \A g \in Agents :
       /\ NoMapping(g.runtime) = NoMappingOf(g.runtime)
       /\ \A p \in DOMAIN g.log : \A n \in 1 .. Len(g.log[p]) :
             LET m == FirstLines(g, p, n - 1).mapping
                 r == g.log[p][n]
             IN  /\ MapRecord(g.runtime, m, r, n) = MapRecordOf(g.runtime, m, r, n)
                 /\ g.runtime = "antigravity" => IsList(r.tools) /\ IsList(r.children)
-----------------------------------------------------------------------------
\* The transcripts whose Antigravity mapper state is committed.
Committed == {p \in Paths : agent.runtime = "antigravity" /\ saved[p] # NoState}

\* What the durable events of the committed lines refer to.
Refs(p, type) ==
    {e.body.ref : e \in {f \in ToSet(AllEvents(p)) :
                            f \in stored /\ f.line <= saved[p].lines /\ f.body.type = type}}

\* The committed state waits for the calls that are durably announced and not
\* durably finished, so that a result in a later read finds its call: nothing
\* that waits is forgotten, nothing finished waits.
WaitingCallsAreCommitted ==
    \A p \in Committed :
       ToSet(saved[p].mapping.pending) = Refs(p, "tool.started") \ Refs(p, "tool.finished")
==============================================================================
