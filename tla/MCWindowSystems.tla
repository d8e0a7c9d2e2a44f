-------------------------- MODULE MCWindowSystems --------------------------
(* Small instances of WindowSystems for TLC.                               *)
EXTENDS WindowSystems
=============================================================================
