----------------------------- MODULE MCTrafficLog -----------------------------
(* A small instance of TrafficLog for TLC; the bounds are in the .cfg file. *)
EXTENDS TrafficLog
=============================================================================
