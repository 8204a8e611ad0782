----------------------------- MODULE MCRunFeed -------------------------------
(***************************************************************************)
(* A small instance of RunFeed: one source, a root session, its child and  *)
(* the child's child.  The child's events carry earlier times than the     *)
(* root's, one event of the child names no parent, outcomes of equal and   *)
(* of missing priority have equal times, a tool's start is later than its  *)
(* finish, and the counters saturate.                                      *)
(***************************************************************************)
EXTENDS RunFeed

CONSTANT src

MCSources == {src}
MCSessions == {1, 2, 3}
MCMaxTokens == 5

Blank == [at |-> 0, seq |-> 0, type |-> "PromptAccepted", activation |-> None, status |-> None,
          outcome |-> None, priority |-> None, call |-> None, name |-> None, label |-> None,
          mode |-> None, usage |-> None]
C(at, seq, type) == [Blank EXCEPT !.at = at, !.seq = seq, !.type = type]
Ev(id, ses, par, con) == [id |-> id, source |-> src, session |-> ses, parent |-> par, content |-> con]

MCOffered ==
  { Ev(1, 1, NoParent, [C(3, 1, "SessionDiscovered") EXCEPT !.label = "root"]),
    Ev(2, 2, 1, [C(2, 1, "AgentSpawned") EXCEPT !.mode = "remote"]),
    Ev(3, 3, 2, [C(1, 1, "ToolFinished") EXCEPT !.call = 1, !.outcome = "failed",
                     !.usage = [input |-> 1, output |-> 2, total |-> 0]]),
    Ev(4, 2, NoParent, [C(4, 2, "StepEnded") EXCEPT !.usage = [input |-> 0, output |-> 2, total |-> 4]]),
    Ev(5, 1, NoParent, [C(4, 3, "AgentOutcomeRecorded") EXCEPT !.outcome = "succeeded", !.priority = 1]),
    Ev(6, 1, NoParent, [C(4, 2, "AgentOutcomeRecorded") EXCEPT !.outcome = "failed", !.priority = 1]),
    Ev(7, 1, NoParent, [C(5, 4, "AgentOutcomeRecorded") EXCEPT !.outcome = "interrupted"]),
    Ev(8, 3, NoParent, [C(4, 2, "ToolStarted") EXCEPT !.call = 1, !.name = "run"]),
    Ev(9, 2, 1, [C(5, 3, "AgentActivationEnded") EXCEPT !.activation = 1]) }

MCContents == {e.content : e \in MCOffered}
MCUnfoldable == {c \in MCContents : ~HasRequiredFields(c)}
MCEventIds == {e.id : e \in MCOffered}
=============================================================================
