--------------------------- MODULE MCMaintenance -----------------------------
(***************************************************************************)
(* A small instance of Maintenance: a root session, its child, the child's *)
(* child, and a second root that is older than the grandchild.  One event  *)
(* shows a sensitive key, one an inline secret in a content key, one both  *)
(* a sensitive key and an inline secret.                                   *)
(***************************************************************************)
EXTENDS Maintenance

CONSTANT src

MCSources == {src}
MCSessions == {1, 2, 3, 4}
MCEventIds == 1..4

Ev(ses, par, time, data, ref) ==
    [id |-> ses, source |-> src, session |-> ses, parent |-> par,
     content |-> [at |-> time, data |-> data, ref |-> ref, mode |-> None,
                  redacted |-> 0, omitted |-> 0]]

Root   == Ev(1, NoParent, 1, [token |-> "text"], "text")
Child  == Ev(2, 1, 2, [excerpt |-> "secret"], None)
Nested == Ev(3, 2, 4, [name |-> "text"], None)
Other  == Ev(4, NoParent, 3, [token |-> "text", name |-> "secret"], None)

MCOffered == {Root, Child, Nested, Other}
MCOneEvent == {Other}

\* An event whose content only the stricter policy hides.
Plain == Ev(1, NoParent, 1, [excerpt |-> "text"], None)
MCPlainEvent == {Plain}
MCContents == {e.content : e \in MCOffered \cup MCPlainEvent}

Standard == [mode |-> "standard", keys |-> {"token"}]
MetadataOnly == [mode |-> "metadata-only", keys |-> {"token"}]
MCPolicies == {Standard, MetadataOnly}
MCStandard == {Standard}
MCContentKeys == {"excerpt"}

Keep == [before |-> None, max |-> None]
AtMostTwo == [before |-> None, max |-> 2]
FromTwo == [before |-> 2, max |-> 3]
MCRetentions == {Keep, AtMostTwo, FromTwo}
MCKeep == {Keep}
=============================================================================
