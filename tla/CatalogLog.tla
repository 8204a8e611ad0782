----------------------------- MODULE CatalogLog ------------------------------
(***************************************************************************)
(* What the ingest store promises: a log of canonical events and a catalog *)
(* of Runs that is always the one a rebuild from the log would give.  An   *)
(* event is accepted exactly when the log stays well formed with it; a     *)
(* refused event and a repeated event change nothing; deleting a session   *)
(* removes the session and all its descendants and nothing else.           *)
(***************************************************************************)
CONSTANTS Sources, Sessions,
          Offered,              \* the events that may be sent
          WellFormed(_),        \* the event sets that a rebuild accepts
          CatalogOf(_),         \* the Runs a rebuild gives
          TreeEvents(_, _, _)   \* the events of a session and its descendants

VARIABLES log, catalog, reply

Init == log = {} /\ catalog = CatalogOf({}) /\ reply = "none"

Append(e) == /\ e \notin log
             /\ WellFormed(log \cup {e})
             /\ log' = log \cup {e}
             /\ catalog' = CatalogOf(log')
             /\ reply' = "inserted"

Repeat(e) == /\ e \in log
             /\ reply' = "duplicate"
             /\ UNCHANGED <<log, catalog>>

Refuse(e) == /\ e \notin log
             /\ ~WellFormed(log \cup {e})
             /\ reply' = "error"
             /\ UNCHANGED <<log, catalog>>

Delete(src, session) == /\ log' = log \ TreeEvents(log, src, session)
                        /\ catalog' = CatalogOf(log')
                        /\ reply' = "deleted"

Next == \/ \E e \in Offered : Append(e) \/ Repeat(e) \/ Refuse(e)
        \/ \E src \in Sources, session \in Sessions : Delete(src, session)

Spec == Init /\ [][Next]_<<log, catalog, reply>>
=============================================================================
