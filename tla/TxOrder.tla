-------------------------------- MODULE TxOrder --------------------------------
(***************************************************************************)
(* The transactions of a chain in the order in which the indexer returns   *)
(* them. A transaction is <<height, index>>.                               *)
(***************************************************************************)
EXTENDS Integers, FiniteSetsExt

HeightsOf(s) == {x[1] : x \in s}

Precedes(x, y) == x[1] < y[1] \/ (x[1] = y[1] /\ x[2] < y[2])

\* How many transactions of s come before x.
Rank(s, x) == Cardinality({y \in s : Precedes(y, x)})

\* The first n of s in (height, index) order: what is left of s at a cap of n.
FirstOf(n, s) == {x \in s : Rank(s, x) < n}

\* Mutant: the last block of an answer is kept although the cap may have cut it.
KeepTrailingHeight(s) == s

\* The transactions of the highest height may be an incomplete block.
DropTrailingHeight(s) == {x \in s : x[1] # Max(HeightsOf(s))}

Earliest(s) == CHOOSE x \in s : \A y \in s \ {x} : Precedes(x, y)

InOrder(s) == [i \in 1..Cardinality(s) |-> CHOOSE x \in s : Rank(s, x) = i - 1]
=============================================================================
