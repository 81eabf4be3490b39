---------------------------- MODULE MCTokenLedger -----------------------------
(* Instances of TokenLedger for TLC; the bounds are in the .cfg files. *)
EXTENDS TokenLedger
=============================================================================
