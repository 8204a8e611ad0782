---------------------------- MODULE MCSupervisor -----------------------------
(***************************************************************************)
(* A small instance of Supervisor: one watcher; the server is started up   *)
(* to three times, by the desktop or by orche.                             *)
(***************************************************************************)
EXTENDS Supervisor

CONSTANT codex

MCWatchers == {codex}
=============================================================================
