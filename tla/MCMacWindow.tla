---------------------------- MODULE MCMacWindow ----------------------------
(* A small instance of MacWindow for TLC.                                  *)
EXTENDS MacWindow
=============================================================================
