--------------------------- MODULE MCDeviceSystems ---------------------------
(* Small instances of DeviceSystems for TLC.                               *)
EXTENDS DeviceSystems

\* the names of glGenTextures(), as integers
MCNames == 1..2
=============================================================================
