------------------------------ MODULE MCServing ------------------------------
(* The parts a request meets, small. *)
EXTENDS Serving

CONSTANTS q1, q2, k1, k2, r1, r2, a1, a2, c1, c2

-----------------------------------------------------------------------------
\* Member 3 serves another chain.
MCForeignThird == <<1, 1, 2>>

\* k1 stays fresh for a tick, k2 for none.
MCTtl == [k \in {k1, k2} |-> IF k = k1 THEN 1 ELSE 0]
=============================================================================
