------------------------------ MODULE MCIngest -------------------------------
(***************************************************************************)
(* A small instance of Ingest.  One source gets an event of every session  *)
(* with every possible parent, so that all lineages of three sessions,     *)
(* their cycles and conflicts, and every order of arrival occur; a second  *)
(* source shares a session id with the first.                              *)
(***************************************************************************)
EXTENDS Ingest

CONSTANTS s1, s2, a, b, c, plain, other, bad, broken

Ev(id, src, ses, par, con) ==
    [id |-> id, source |-> src, session |-> ses, parent |-> par, content |-> con]

MCSources == {s1, s2}
MCSessions == {a, b, c}
MCContents == {plain, other, bad, broken}
MCInvalid == {bad}
MCUnfoldable == {broken}

\* One event for every (session, parent) pair of s1 ...
Topology == {Ev(<<ses, par>>, s1, ses, par, plain) :
               ses \in MCSessions, par \in MCSessions \cup {NoParent}}

\* ... an event that cannot be folded, one that validate refuses, the payload
\* of a known event id altered, and a session of the other source.
Special == {Ev(<<b, "broken">>, s1, b, NoParent, broken),
            Ev(<<a, "bad">>, s1, a, NoParent, bad),
            Ev(<<a, NoParent>>, s1, a, NoParent, other),
            Ev(<<a, s2>>, s2, a, NoParent, plain)}

MCOffered == {e \in Topology : e.session # e.parent \/ e.session = a} \cup Special
MCEventIds == {e.id : e \in MCOffered}
=============================================================================
