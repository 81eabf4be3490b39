----------------------------- MODULE BlockRange -----------------------------
(***************************************************************************)
(* What block sync promises of the blocks table of one network: the stored *)
(* heights are a range that only grows, downward or upward, never beyond   *)
(* what the chain has and the indexer serves; and it is called complete    *)
(* only when it reaches down to the first height served or past a depth    *)
(* that was asked for.  How pages are fetched, in what order, and what a   *)
(* failure or a restart interrupts, is left to BlockSync.                  *)
(***************************************************************************)
EXTENDS Integers, FiniteSetsExt

CONSTANTS
  Floor,   \* the lowest height the indexer serves
  Depths   \* the history depths that may be asked for

VARIABLES
  tip,       \* height of the chain
  stored,    \* heights in the table
  complete   \* what /api/blocks/coverage reports

vars == <<tip, stored, complete>>

Init ==
  /\ tip \in Nat
  /\ stored = {}
  /\ complete = FALSE

Grow ==
  /\ tip' = tip + 1
  /\ UNCHANGED <<stored, complete>>

\* The first page.
Open ==
  /\ stored = {}
  /\ \E lo, hi \in Floor..tip : lo <= hi /\ stored' = lo..hi
  /\ UNCHANGED <<tip, complete>>

Extend ==
  /\ stored # {}
  /\ \E lo \in Floor..Min(stored), hi \in Max(stored)..tip : stored' = lo..hi
  /\ UNCHANGED <<tip, complete>>

Finish ==
  /\ stored # {}
  /\ \/ Min(stored) = Floor
     \/ \E d \in Depths : d > 0 /\ Min(stored) < tip - d
  /\ complete' = TRUE
  /\ UNCHANGED <<tip, stored>>

Reopen ==
  /\ complete' = FALSE
  /\ UNCHANGED <<tip, stored>>

Next == Grow \/ Open \/ Extend \/ Finish \/ Reopen

Spec == Init /\ [][Next]_vars
=============================================================================
