--------------------------- MODULE MCDshObserver ----------------------------
(***************************************************************************)
(* A root session, persisted, that records something the mapper does not   *)
(* know, and a child with a seed of one record, whose descriptor follows   *)
(* the seed.                                                               *)
(***************************************************************************)
EXTENDS DshObserver

CONSTANTS root, child

Root == INSTANCE DshMapper WITH IsChild <- FALSE
Child == INSTANCE DshMapper WITH IsChild <- TRUE

Record(type) == [type |-> type, ignorable |-> FALSE]
MCLog == (root :> <<Record("session"), Record("novelty")>>)
      @@ (child :> <<Record("session"), Record("user/message"), Record("subagent/descriptor"),
                     Record("turn/end")>>)
MCPersisted == (root :> 1) @@ (child :> 0)
MCStart == (root :> 2) @@ (child :> 3)
MCOrder == <<root, child>>

\* An event's id begins with its session.
Of(s, events) == [i \in DOMAIN events |-> [events[i] EXCEPT !.id = <<s>> \o @]]

Mapped == [s \in {root, child} |->
             [l \in DOMAIN MCLog[s] |-> Of(s, Child!SessionEvents(MCLog[s][l], l))]]
MCAnnouncements ==
    [agent \in BOOLEAN |->
       (root :> [n \in DOMAIN MCLog[root] |->
                   Of(root, Root!Announcement(Root!Descriptor(MCLog[root], n), agent))])
       @@ (child :> [n \in DOMAIN MCLog[child] |->
                       Of(child, Child!Announcement(Child!Descriptor(MCLog[child], n), agent))])]

MCEventsOf(s, l) == Mapped[s][l]
MCUnmappable(s, l) == Child!Unsupported(MCLog[s][l])
MCAnnounced(s, n, agent) == MCAnnouncements[agent][s][n]
=============================================================================
