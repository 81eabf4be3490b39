-------------------------------- MODULE MCMemo --------------------------------
(* A small instance of Memo for TLC; the bounds are in the .cfg file. *)
EXTENDS Memo
=============================================================================
