----------------------------- MODULE MCChainReset -----------------------------
(* Instances of ChainReset for TLC; the bounds are in the .cfg files. *)
EXTENDS ChainReset
=============================================================================
