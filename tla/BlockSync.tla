------------------------------ MODULE BlockSync ------------------------------
(***************************************************************************)
(* Block sync of one network (pkg/syncer, syncBlocks): the blocks table is *)
(* filled forward from MAX(height) by head sync and backward from          *)
(* MIN(height) by a backfill, both bounded by one page budget per pass.    *)
(* Neither cursor is stored: each is read back from the table, so a gap in *)
(* the table is never revisited.  What is stored besides the blocks is the *)
(* flag that says the backfill is over and the depth (in days) at which a  *)
(* capped backfill stopped.                                                *)
(*                                                                         *)
(* A pass is a sequence of queries to the indexer and writes to SQLite;    *)
(* each is one action, so the chain may grow, replicas may answer          *)
(* differently, a call may fail and the process may stop between any two.  *)
(* UpsertBlocks is one SQL transaction: a page is stored whole or not.     *)
(*                                                                         *)
(* The indexer is an address that may front several replicas of one chain: *)
(* every answer comes from a replica whose top lies between blockSlow and  *)
(* blockTip.  Height is also time: one block per unit, which is a "day".   *)
(***************************************************************************)
EXTENDS Integers, FiniteSetsExt, Heights

CONSTANTS
  PageSize,      \* blockPageSize: heights asked for in one query
  PagesPerPass,  \* blockPagesPerPass: the budget one pass shares
  DaysChoices,   \* the -block-history-days settings an operator may start with
  Floor,         \* the lowest height the indexer still serves (1: unpruned)
  BlockLag,      \* how many blocks a replica may trail the chain
  BlockHeight,   \* bound: the chain stops growing here
  MaxBlockFaults \* bound: failed calls and restarts together

ASSUME BlockSyncAssumption ==
  /\ PageSize \in Nat \ {0}
  /\ PagesPerPass \in Nat \ {0}
  /\ DaysChoices \subseteq Int
  /\ Floor \in Nat \ {0}
  /\ BlockLag \in Nat
  /\ BlockHeight \in Nat
  /\ MaxBlockFaults \in Nat

VARIABLES
  blockTip,      \* height of the chain
  blockSlow,     \* height of the slowest replica
  blockFaults,   \* faults so far
  blockRows,     \* durable: the heights stored in the blocks table
  done,          \* durable: sync_state blocks_backfill_done = "1"
  depth,         \* durable: sync_state blocks_backfill_depth, 0 for ""
  days,          \* blockHistoryDays, fixed while the process runs
  blockStep,     \* the call of syncBlocks that comes next
  tipSeen,       \* blockTip, as this pass read it
  minH,          \* minH of this pass
  pagesLeft,     \* what is left of the pass's budget
  cutoff,        \* blockHistoryCutoff of this pass
  stopDepth      \* the depth argument of markBackfillDone

blockEnv     == <<blockTip, blockSlow>>
blockTables  == <<blockRows, done, depth>>
blockLocal   == <<tipSeen, minH, pagesLeft, cutoff, stopDepth>>
blockVars    == <<blockEnv, blockFaults, blockTables, days, blockStep, blockLocal>>

BlockSteps == {"idle", "seed", "head", "flag", "cap", "back", "probe",
               "markDone", "markDepth"}

\* BlockHeightBounds: the lowest and the highest stored height.
LowestBlock == Min(blockRows)
HighestBlock == Max(blockRows)

\* GetBlocksInRange(from, to) and GetBlock(h), answered by a replica at top t.
Served(t, from, to) == {h \in from..to : Floor <= h /\ h <= t}
BlockReplies == blockSlow..blockTip

Capped == days > 0

\* OldestBlockTime before the cutoff.
PastCutoff(stored) == Min(stored) < cutoff

\* Mutant: a backfill that reached the floor is resumed like a capped one.
ResumesAnyDepth == days = 0 \/ days > depth

ShouldResume == depth > 0 /\ (days = 0 \/ days > depth)

-----------------------------------------------------------------------------
BlockInit ==
  /\ blockTip \in 0..BlockHeight
  /\ blockSlow \in 0..blockTip
  /\ blockTip - blockSlow <= BlockLag
  /\ blockFaults = 0
  /\ blockRows = {}
  /\ done = FALSE
  /\ depth = 0
  /\ days \in DaysChoices
  /\ blockStep = "idle"
  /\ tipSeen = 0
  /\ minH = 0
  /\ pagesLeft = 0
  /\ cutoff = 0
  /\ stopDepth = 0

\* ---- The chain and its replicas ----

BlockGrow ==
  /\ blockTip < BlockHeight
  /\ blockTip + 1 - blockSlow <= BlockLag
  /\ blockTip' = blockTip + 1
  /\ UNCHANGED <<blockSlow, blockFaults, blockTables, days, blockStep, blockLocal>>

BlockCatchUp ==
  /\ blockSlow < blockTip
  /\ blockSlow' = blockSlow + 1
  /\ UNCHANGED <<blockTip, blockFaults, blockTables, days, blockStep, blockLocal>>

\* ---- One pass of syncBlocks ----

\* A negative depth declines blocks: the pass returns at once.
Decline == blockStep = "idle" /\ days < 0 /\ UNCHANGED blockVars

\* LatestBlockHeight, then the bounds of the table.
StartPass ==
  /\ blockStep = "idle"
  /\ days >= 0
  /\ \E t \in BlockReplies : tipSeen' = t
  /\ minH' = IF blockRows = {} THEN 0 ELSE LowestBlock
  /\ pagesLeft' = PagesPerPass
  /\ blockStep' = IF blockRows = {} THEN "seed" ELSE "head"
  /\ UNCHANGED <<blockEnv, blockFaults, blockTables, days, cutoff, stopDepth>>

\* The first page ends at the tip; an empty answer ends the pass.
Seed ==
  /\ blockStep = "seed"
  /\ \E t \in BlockReplies :
       LET page == Served(t, Larger(tipSeen - PageSize + 1, 1), tipSeen)
       IN  /\ blockRows' = blockRows \union page
           /\ minH' = IF page = {} THEN minH ELSE Min(blockRows')
           /\ blockStep' = IF page = {} THEN "idle" ELSE "head"
  /\ pagesLeft' = pagesLeft - 1
  /\ UNCHANGED <<blockEnv, blockFaults, done, depth, days, tipSeen, cutoff, stopDepth>>

\* Mutant: head sync asks for the newest page instead of the one above the table.
HeadFromTip ==
  /\ blockStep = "head"
  /\ blockStep' = "flag"
  /\ IF HighestBlock < tipSeen /\ pagesLeft > 0
     THEN /\ \E t \in BlockReplies :
               blockRows' = blockRows \union
                 Served(t, Larger(tipSeen - PageSize + 1, 1), tipSeen)
          /\ pagesLeft' = pagesLeft - 1
     ELSE UNCHANGED <<blockRows, pagesLeft>>
  /\ UNCHANGED <<blockEnv, blockFaults, done, depth, days, tipSeen, minH, cutoff, stopDepth>>

\* One page above the table, whatever comes of it.
HeadSync ==
  /\ blockStep = "head"
  /\ blockStep' = "flag"
  /\ IF HighestBlock < tipSeen /\ pagesLeft > 0
     THEN /\ \E t \in BlockReplies :
               blockRows' = blockRows \union
                 Served(t, HighestBlock + 1, Smaller(HighestBlock + PageSize, tipSeen))
          /\ pagesLeft' = pagesLeft - 1
     ELSE UNCHANGED <<blockRows, pagesLeft>>
  /\ UNCHANGED <<blockEnv, blockFaults, done, depth, days, tipSeen, minH, cutoff, stopDepth>>

\* A finished backfill stays finished unless the operator asked for more.
CheckDone ==
  /\ blockStep = "flag"
  /\ IF done /\ ~ShouldResume
     THEN blockStep' = "idle" /\ UNCHANGED done
     ELSE blockStep' = "cap" /\ done' = FALSE
  /\ UNCHANGED <<blockEnv, blockFaults, blockRows, depth, days, blockLocal>>

\* The cutoff is read once per pass and tested before the first page.
CheckCap ==
  /\ blockStep = "cap"
  /\ cutoff' = blockTip - days
  /\ IF Capped /\ LowestBlock < cutoff'
     THEN blockStep' = "markDone" /\ stopDepth' = days
     ELSE blockStep' = "back" /\ UNCHANGED stopDepth
  /\ UNCHANGED <<blockEnv, blockFaults, blockTables, days, tipSeen, minH, pagesLeft>>

\* Mutant: the page ends one height short of the table.
PageBelowGap ==
  /\ blockStep = "back"
  /\ pagesLeft > 0 /\ minH > 1
  /\ \E t \in BlockReplies :
       blockRows' = blockRows \union
         Served(t, Larger(minH - 1 - PageSize, 1), minH - 2)
  /\ IF Min(blockRows') >= minH
     THEN blockStep' = "probe" /\ UNCHANGED <<minH, pagesLeft, stopDepth>>
     ELSE /\ minH' = Min(blockRows')
          /\ pagesLeft' = pagesLeft - 1
          /\ IF Capped /\ PastCutoff(blockRows')
             THEN blockStep' = "markDone" /\ stopDepth' = days
             ELSE blockStep' = "back" /\ UNCHANGED stopDepth
  /\ UNCHANGED <<blockEnv, blockFaults, done, depth, days, tipSeen, cutoff>>

\* Mutant: the loop tests its budget too late and spends a page it does not have.
PageOverBudget ==
  /\ blockStep = "back"
  /\ pagesLeft >= 0 /\ minH > 1
  /\ \E t \in BlockReplies :
       blockRows' = blockRows \union
         Served(t, Larger(minH - PageSize, 1), minH - 1)
  /\ minH' = Min(blockRows')
  /\ pagesLeft' = pagesLeft - 1
  /\ UNCHANGED <<blockEnv, blockFaults, done, depth, days, blockStep, tipSeen, cutoff, stopDepth>>

\* One page below the table, and then the cap, if OldestBlockTime can be read.
\* A page that lowers nothing leads to the probe.
LowerPage(timed) ==
  /\ blockStep = "back"
  /\ pagesLeft > 0 /\ minH > 1
  /\ \E t \in BlockReplies :
       blockRows' = blockRows \union
         Served(t, Larger(minH - PageSize, 1), minH - 1)
  /\ IF Min(blockRows') >= minH
     THEN blockStep' = "probe" /\ UNCHANGED <<minH, pagesLeft, stopDepth>>
     ELSE /\ minH' = Min(blockRows')
          /\ pagesLeft' = pagesLeft - 1
          /\ IF Capped /\ timed /\ PastCutoff(blockRows')
             THEN blockStep' = "markDone" /\ stopDepth' = days
             ELSE blockStep' = "back" /\ UNCHANGED stopDepth
  /\ UNCHANGED <<blockEnv, done, depth, days, tipSeen, cutoff>>

BackfillPage == LowerPage(TRUE) /\ UNCHANGED blockFaults

\* Mutant: running out of budget is taken for the end of the history.
EndsWhenSpent ==
  /\ blockStep = "back"
  /\ ~(pagesLeft > 0 /\ minH > 1)
  /\ blockStep' = "markDone" /\ stopDepth' = 0
  /\ UNCHANGED <<blockEnv, blockFaults, blockTables, days, tipSeen, minH, pagesLeft, cutoff>>

\* The loop ends at genesis or with its budget spent.
BackfillEnds ==
  /\ blockStep = "back"
  /\ ~(pagesLeft > 0 /\ minH > 1)
  /\ IF minH <= 1
     THEN blockStep' = "markDone" /\ stopDepth' = 0
     ELSE blockStep' = "idle" /\ UNCHANGED stopDepth
  /\ UNCHANGED <<blockEnv, blockFaults, blockTables, days, tipSeen, minH, pagesLeft, cutoff>>

\* GetBlock(minH-1): found means the empty page was transient, absent means
\* the floor.
Probe ==
  /\ blockStep = "probe"
  /\ \E t \in BlockReplies :
       IF Served(t, minH - 1, minH - 1) # {}
       THEN blockStep' = "idle" /\ UNCHANGED stopDepth
       ELSE blockStep' = "markDone" /\ stopDepth' = 0
  /\ UNCHANGED <<blockEnv, blockFaults, blockTables, days, tipSeen, minH, pagesLeft, cutoff>>

\* markBackfillDone writes the flag first and the depth second.
MarkFlag ==
  /\ blockStep = "markDone"
  /\ done' = TRUE
  /\ blockStep' = "markDepth"
  /\ UNCHANGED <<blockEnv, blockFaults, blockRows, depth, days, blockLocal>>

\* Mutant: the configured depth is recorded whatever ended the backfill.
MarkConfigured ==
  /\ blockStep = "markDepth"
  /\ depth' = days
  /\ blockStep' = "idle"
  /\ UNCHANGED <<blockEnv, blockFaults, blockRows, done, days, blockLocal>>

MarkDepth ==
  /\ blockStep = "markDepth"
  /\ depth' = stopDepth
  /\ blockStep' = "idle"
  /\ UNCHANGED <<blockEnv, blockFaults, blockRows, done, days, blockLocal>>

\* ---- Failures ----

BlockFault == blockFaults < MaxBlockFaults /\ blockFaults' = blockFaults + 1

\* A query or a write fails: the pass logs it and returns, except in head
\* sync, whose result nobody reads and which still costs its page. A page that
\* is stored and whose bounds cannot be read leaves what a restart would.
BlockCallFails ==
  /\ BlockFault
  /\ blockStep \in {"seed", "head", "flag", "back", "probe", "markDone", "markDepth"}
  /\ blockStep = "back" => pagesLeft > 0 /\ minH > 1
  /\ blockStep = "flag" => done /\ ShouldResume
  /\ blockStep = "head" => HighestBlock < tipSeen /\ pagesLeft > 0
  /\ blockStep' = IF blockStep = "head" THEN "flag" ELSE "idle"
  /\ pagesLeft' = IF blockStep = "head" THEN pagesLeft - 1 ELSE pagesLeft
  /\ UNCHANGED <<blockEnv, blockTables, days, tipSeen, minH, cutoff, stopDepth>>

\* The process stops at any point (main does not wait for the sync loops) and
\* comes back with any setting; only the tables survive.
BlockRestart ==
  /\ BlockFault
  /\ days' \in DaysChoices
  /\ blockStep' = "idle"
  /\ tipSeen' = 0 /\ minH' = 0 /\ pagesLeft' = 0 /\ cutoff' = 0 /\ stopDepth' = 0
  /\ UNCHANGED <<blockEnv, blockTables>>

\* The done flag cannot be read: the error is dropped, and a finished backfill
\* is taken for an open one, its flag left as it is.
FlagUnread ==
  /\ BlockFault
  /\ blockStep = "flag" /\ done
  /\ blockStep' = "cap"
  /\ UNCHANGED <<blockEnv, blockTables, days, blockLocal>>

\* The oldest block time cannot be read: the cap is not tested.
CapUnread ==
  /\ BlockFault
  /\ blockStep = "cap" /\ Capped
  /\ cutoff' = blockTip - days
  /\ blockStep' = "back"
  /\ UNCHANGED <<blockEnv, blockTables, days, tipSeen, minH, pagesLeft, stopDepth>>

PageCapUnread == BlockFault /\ Capped /\ LowerPage(FALSE)

-----------------------------------------------------------------------------
BlockPass ==
  \/ Decline \/ StartPass \/ Seed \/ HeadSync \/ CheckDone \/ CheckCap
  \/ BackfillPage \/ BackfillEnds \/ Probe \/ MarkFlag \/ MarkDepth

BlockNext ==
  \/ BlockGrow \/ BlockCatchUp \/ BlockPass
  \/ BlockCallFails \/ BlockRestart \/ FlagUnread \/ CapUnread \/ PageCapUnread

BlockSafety == BlockInit /\ [][BlockNext]_blockVars

\* The loop in main runs a pass every 30 seconds and every call returns; a
\* replica that is behind keeps replaying the chain.
BlockSpec == BlockSafety /\ WF_blockVars(BlockPass) /\ WF_blockVars(BlockCatchUp)
-----------------------------------------------------------------------------
(***************************************************************************)
(* Properties.                                                             *)
(***************************************************************************)
BlockTypeOK ==
  /\ blockTip \in 0..BlockHeight
  /\ blockSlow \in 0..blockTip
  /\ blockFaults \in 0..MaxBlockFaults
  /\ blockRows \subseteq Floor..blockTip
  /\ done \in BOOLEAN
  /\ depth \in Nat
  /\ days \in DaysChoices
  /\ blockStep \in BlockSteps
  /\ tipSeen \in 0..blockTip
  /\ minH \in 0..blockTip
  /\ pagesLeft \in 0..PagesPerPass
  /\ cutoff \in Int
  /\ stopDepth \in Nat

\* The table never has a hole: both cursors are read from its ends, so a
\* missing height in the middle would stay missing for ever.
Contiguous == blockRows # {} => blockRows = LowestBlock..HighestBlock

\* The rows go back past a depth some operator asked for.
DeepEnough(d) == d > 0 /\ LowestBlock < blockTip - d

\* /api/blocks/coverage says complete only when the backfill has reached the
\* first height the indexer serves or a configured depth.
CompleteHonest ==
  done => /\ blockRows # {}
          /\ LowestBlock = Floor \/ \E d \in DaysChoices : DeepEnough(d)

\* A depth on record was really reached, so that raising the setting past it
\* resumes from there and a lower setting has nothing left to do.
DepthHonest == depth > 0 => blockRows # {} /\ DeepEnough(depth)

\* Between passes a backfill that stopped short of the floor has its depth on
\* record: without it shouldResumeBackfill never resumes, whatever the
\* operator raises -block-history-days to.
CapRemembered ==
  blockStep = "idle" /\ done /\ LowestBlock > Floor => depth > 0

\* The table behaves like a range that only ever grows, at its two ends.
Growing == INSTANCE BlockRange WITH
  tip <- blockTip, stored <- blockRows, complete <- done, Depths <- DaysChoices
GrowsAtItsEnds == Growing!Spec

\* Once calls stop failing and restarts stop, the table reaches the tip and
\* the backfill finishes and stays finished, head sync and backfill sharing
\* one budget; unless the operator declined blocks.
CatchesUp ==
  <>[](days >= 0 /\ blockTip >= Floor =>
         /\ done
         /\ blockRows # {}
         /\ HighestBlock = blockTip)
=============================================================================
