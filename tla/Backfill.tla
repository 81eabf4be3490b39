------------------------------ MODULE Backfill -------------------------------
(***************************************************************************)
(* What a walk over old history promises of its cursor, whichever way it   *)
(* goes, whatever it asks for at once, and wherever a call, a write or the *)
(* process breaks off.  There is no batch and no order here: an item of    *)
(* history is recorded, or it is excused because no answer has shown it or *)
(* its write has failed, or neither yet; and the cursor passes over items, *)
(* for good, because nothing looks behind a cursor again.                  *)
(***************************************************************************)
CONSTANT Items  \* what history holds and the walk is after

VARIABLES
  recorded,  \* items that have their row
  excused,   \* items that were given up, and why is known
  passed     \* items the cursor has put behind it

backfillVars == <<recorded, excused, passed>>

BackfillInit == recorded = {} /\ excused = {} /\ passed = {}

\* A step may do all three at once. What is recorded, excused or passed stays
\* so, and what is passed is accounted for.
BackfillStep ==
  /\ recorded \subseteq recorded' /\ recorded' \subseteq Items
  /\ excused \subseteq excused' /\ excused' \subseteq Items
  /\ passed \subseteq passed' /\ passed' \subseteq recorded' \union excused'

BackfillSpec == BackfillInit /\ [][BackfillStep]_backfillVars
=============================================================================
