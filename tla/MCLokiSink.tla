----------------------------- MODULE MCLokiSink -----------------------------
(* A small instance of LokiSink for TLC.                                   *)
EXTENDS LokiSink

CONSTANTS w1, c1, ticker
============================================================================
