---------------------------- MODULE MCBlockSync ----------------------------
(* Settings for TLC: an operator who may decline blocks (-1), ask for all *)
(* of them (0), or for one of two depths.                                 *)
EXTENDS BlockSync

MCDays == {-1, 0, 1, 3}
=============================================================================
