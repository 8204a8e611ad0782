------------------------- MODULE MCSnapshotObserver --------------------------
(***************************************************************************)
(* A Pi session that branches at its prompt, and a child session of the    *)
(* Harness whose descriptor comes after its first event.                   *)
(***************************************************************************)
EXTENDS SnapshotObserver

Pi == INSTANCE PiMapper
Dsh == INSTANCE DshMapper WITH IsChild <- TRUE

Entry(kind, parent) ==
    [kind |-> kind, parent |-> parent, kept |-> 0, calls |-> 0, text |-> FALSE, stop |-> ""]
Record(type) == [type |-> type, ignorable |-> FALSE]

MCLog == [pi |-> << Entry("session", 0), Entry("user", 0),
                    [Entry("assistant", 2) EXCEPT !.text = TRUE],
                    Entry("compaction", 2) >>,
          dsh |-> << Record("session"), Record("turn/start"),
                     Record("subagent/descriptor"), Record("assistant/chunk") >>]
MCMapped(r, log, n) == IF r = "pi" THEN Pi!PiEvents(log, n) ELSE Dsh!DshEvents(log, n)
MCBroken(r, log, n) == r = "pi" /\ Pi!PiErrors(log, n)
=============================================================================
