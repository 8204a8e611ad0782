------------------------------ MODULE MCServer -------------------------------
(***************************************************************************)
(* A small instance of Server: one source, a root session a, a session c   *)
(* that one of its events makes a child of a, so that Runs join, move and  *)
(* are deleted together, and a rename of a.  A content stands for    *)
(* the time of the event.                                                  *)
(***************************************************************************)
EXTENDS Server

CONSTANTS s1, a, c, e1, e2, e3, e4, e5

MCSources == {s1}
MCSessions == {a, c}
MCEventIds == {e1, e2, e3, e4, e5}
MCContents == 1..6
MCInvalid == {6}

Ev(id, ses, par, time) ==
    [id |-> id, source |-> s1, session |-> ses, parent |-> par, content |-> time]

RootA  == Ev(e1, a, NoParent, 1)
AloneC == Ev(e2, c, NoParent, 2)
ChildC == Ev(e3, c, a, 3)
NameA  == Ev(e4, a, NoParent, 4)

\* An event that ingest always refuses, a session below itself, and one that
\* SQLite does, whose source_seq does not fit; it has the id of ChildC.
LoopC == Ev(e5, c, c, 5)
LargeA == Ev(e3, a, NoParent, 5)

MCOffered == {RootA, AloneC, ChildC, LoopC, LargeA}
MCRenames == {NameA}
MCUnstorable == {LargeA}

\* What a RunSummary tells of a Run: its counts, its first and last activity.
MCSummary(E) ==
    LET times == {e.content : e \in E}
    IN  [events |-> Cardinality(E),
         agents |-> Cardinality(SessionsOf(E)),
         first  |-> CHOOSE t \in times : \A u \in times : t <= u,
         last   |-> CHOOSE t \in times : \A u \in times : t >= u]
=============================================================================
