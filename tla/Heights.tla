------------------------------- MODULE Heights -------------------------------
(***************************************************************************)
(* The larger and the smaller of two heights, as the clamps on a page in   *)
(* syncBlocks and the store's MIN and MAX in a range query take them.      *)
(***************************************************************************)
EXTENDS Integers

Larger(a, b)  == IF a > b THEN a ELSE b
Smaller(a, b) == IF a < b THEN a ELSE b
=============================================================================
