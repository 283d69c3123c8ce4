---------------------------- MODULE MCAsyncSink -----------------------------
(* Instances of AsyncSink for TLC. *)
EXTENDS AsyncSink

CONSTANTS t1, t2, owner
=============================================================================
