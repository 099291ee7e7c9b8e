------------------------------ MODULE MCSinks ------------------------------
(* Small instances of Sinks for TLC.                                       *)
EXTENDS Sinks
============================================================================
