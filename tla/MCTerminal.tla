----------------------------- MODULE MCTerminal ------------------------------
(***************************************************************************)
(* A small instance of Terminal: two Runs, one of which grows beyond a     *)
(* page and takes an event between two others.                             *)
(***************************************************************************)
EXTENDS Terminal

MCRuns == {1, 2}
MCRevisions == <<{{1, 3}, {1, 3, 4}, {1, 2, 3, 4}}, {{2}, {2, 5}}>>
=============================================================================
