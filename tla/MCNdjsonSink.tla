---------------------------- MODULE MCNdjsonSink -----------------------------
(***************************************************************************)
(* Small instances of NdjsonSink: three events, of which the server may    *)
(* refuse the second; an event may be written twice.                       *)
(***************************************************************************)
EXTENDS NdjsonSink

CONSTANTS e1, e2, e3
MCEvents == {e1, e2, e3}
MCTwoEvents == {e1, e2}
=============================================================================
