----------------------------- MODULE MCViewCount -----------------------------
(* A small instance of ViewCount for TLC; the bounds are in the .cfg file. *)
EXTENDS ViewCount

CONSTANTS r1, r2
=============================================================================
