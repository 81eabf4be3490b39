--------------------------- MODULE BlockSync_proofs ---------------------------
(***************************************************************************)
(* Proofs about BlockSync, for every page size, budget, floor, chain and   *)
(* choice of depths, as long as no replica trails the chain by more than a *)
(* page.                                                                   *)
(***************************************************************************)
EXTENDS BlockSync, TLAPS

\* No replica is more than one page behind the chain. The blocks an answer
\* can lack then lie above everything a backfill asks for.
ReplicasKeepUp == BlockLag <= PageSize

\* The table is a range of heights that the indexer serves.
RangeInv ==
  blockRows # {} =>
    /\ LowestBlock \in Floor..blockTip
    /\ HighestBlock \in LowestBlock..blockTip
    /\ blockRows = LowestBlock..HighestBlock

\* Every replica has the height just below the table, if there is one.
ReachInv ==
  /\ blockTip - blockSlow <= BlockLag
  /\ blockRows # {} /\ LowestBlock > Floor => LowestBlock <= blockSlow + 1

\* What the pass remembers agrees with the table.
PassInv ==
  /\ blockStep = "seed" => blockRows = {} /\ pagesLeft = PagesPerPass
  /\ blockStep \in BlockSteps \ {"idle", "seed"} => blockRows # {} /\ minH = LowestBlock
  /\ blockStep \in {"back", "probe"} => cutoff <= blockTip - days
  /\ blockStep # "idle" => days >= 0

\* What markBackfillDone is about to record is true of the table.
StopInv ==
  blockStep \in {"markDone", "markDepth"} =>
    \/ stopDepth = 0 /\ LowestBlock = Floor
    \/ stopDepth \in DaysChoices /\ DeepEnough(stopDepth)

IInv ==
  /\ BlockTypeOK
  /\ RangeInv
  /\ ReachInv
  /\ PassInv
  /\ StopInv
  /\ CompleteHonest
  /\ DepthHonest

-----------------------------------------------------------------------------
\* The least and the greatest height of a range are its ends.
LEMMA RangeEnds ==
  ASSUME NEW a \in Int, NEW b \in Int, a <= b
  PROVE  Min(a..b) = a /\ Max(a..b) = b
<1>1. \A x \in a..b : (\A y \in a..b : x <= y) => x = a
  BY a \in a..b, b \in a..b
<1>2. \A x \in a..b : (\A y \in a..b : x >= y) => x = b
  BY a \in a..b, b \in a..b
<1>3. a \in a..b /\ \A y \in a..b : a <= y
  OBVIOUS
<1>4. b \in a..b /\ \A y \in a..b : b >= y
  OBVIOUS
<1>5. Min(a..b) = a
  BY <1>1, <1>3, Zenon DEF Min
<1>6. Max(a..b) = b
  BY <1>2, <1>4, Zenon DEF Max
<1>7. QED
  BY <1>5, <1>6

\* A range extended downward by a page that ends just below it is a range.
LEMMA PageBelow ==
  ASSUME NEW a \in Int, NEW b \in Int, NEW c \in Int,
         c <= a, a <= b
  PROVE  (a..b) \union (c..(a - 1)) = c..b
OBVIOUS

\* A range extended upward by a page that starts just above it is a range.
LEMMA PageAbove ==
  ASSUME NEW a \in Int, NEW b \in Int, NEW c \in Int,
         b <= c, a <= b
  PROVE  (a..b) \union ((b + 1)..c) = a..c
OBVIOUS

\* What a replica serves of a page is again a range.
LEMMA ServedRange ==
  ASSUME NEW t \in Int, NEW from \in Int, NEW to \in Int
  PROVE  Served(t, from, to) = Larger(from, Floor)..Smaller(to, t)
BY BlockSyncAssumption DEF Served, Larger, Smaller

-----------------------------------------------------------------------------
\* The invariant holds of an empty database.
LEMMA InitIInv ==
  ASSUME ReplicasKeepUp, BlockInit
  PROVE  IInv
<1>1. BlockTypeOK
  <2>1. done \in BOOLEAN
    BY DEF BlockInit
  <2>2. blockTip \in Nat /\ blockStep \in BlockSteps
    BY BlockSyncAssumption DEF BlockInit, BlockSteps
  <2>3. QED
    BY <2>1, <2>2, BlockSyncAssumption DEF BlockInit, BlockTypeOK
<1>2. RangeInv /\ ReachInv /\ PassInv /\ StopInv
  BY DEF BlockInit, RangeInv, ReachInv, PassInv, StopInv, BlockSteps
<1>3. CompleteHonest /\ DepthHonest
  BY DEF BlockInit, CompleteHonest, DepthHonest
<1>4. QED
  BY <1>1, <1>2, <1>3 DEF IInv

\* A step that leaves the table alone leaves its ends alone.
LEMMA SameBlocks ==
  ASSUME blockRows' = blockRows
  PROVE  LowestBlock' = LowestBlock /\ HighestBlock' = HighestBlock
BY DEF LowestBlock, HighestBlock

\* The chain grows: what was deep enough stays deep enough.
LEMMA GrowStep ==
  ASSUME IInv, BlockGrow
  PROVE  IInv'
<1> USE BlockSyncAssumption, SameBlocks DEF IInv, BlockGrow, blockTables, blockLocal
<1>1. blockTip \in Nat /\ blockTip' = blockTip + 1 /\ DaysChoices \subseteq Int /\ days \in Int
  BY DEF BlockTypeOK
<1>2. BlockTypeOK'
  BY <1>1 DEF BlockTypeOK
<1>3. RangeInv' /\ ReachInv'
  BY <1>1 DEF RangeInv, ReachInv, BlockTypeOK
<1>4. PassInv'
  BY <1>1 DEF PassInv, BlockTypeOK
<1>5. blockRows # {} => LowestBlock \in Int
  BY DEF RangeInv, BlockTypeOK
<1>6. blockRows # {} => \A d \in DaysChoices \union Nat : DeepEnough(d) => DeepEnough(d)'
  BY <1>1, <1>5 DEF DeepEnough
<1>7. StopInv'
  BY <1>6 DEF StopInv, PassInv, BlockSteps
<1>8. CompleteHonest' /\ DepthHonest'
  BY <1>6 DEF CompleteHonest, DepthHonest, BlockTypeOK
<1>9. QED
  BY <1>2, <1>3, <1>4, <1>7, <1>8

\* A step that touches neither the table, its flags nor the chain keeps the
\* invariants that relate only those.
LEMMA QuietStep ==
  ASSUME IInv, UNCHANGED <<blockEnv, blockTables>>
  PROVE  RangeInv' /\ ReachInv' /\ CompleteHonest' /\ DepthHonest'
BY SameBlocks DEF IInv, blockEnv, blockTables, RangeInv, ReachInv, CompleteHonest, DepthHonest, DeepEnough

LEMMA CatchUpStep ==
  ASSUME IInv, BlockCatchUp
  PROVE  IInv'
<1> USE SameBlocks DEF IInv, BlockCatchUp, blockTables, blockLocal
<1>1. BlockTypeOK'
  BY DEF BlockTypeOK
<1>2. RangeInv' /\ ReachInv'
  <2>1. RangeInv'
    BY DEF RangeInv
  <2>2. blockTip \in Nat /\ blockSlow \in Nat /\ (blockRows # {} => LowestBlock \in Int)
    BY BlockSyncAssumption DEF BlockTypeOK, RangeInv
  <2>3. ReachInv'
    BY <2>2, BlockSyncAssumption DEF ReachInv
  <2>4. QED
    BY <2>1, <2>3
<1>3. PassInv'
  BY DEF PassInv
<1>4. StopInv' /\ DepthHonest'
  BY DEF StopInv, DepthHonest, DeepEnough
<1>5. CompleteHonest'
  BY DEF CompleteHonest, DeepEnough
<1>6. QED
  BY <1>1, <1>2, <1>3, <1>4, <1>5

LEMMA StartPassStep ==
  ASSUME IInv, StartPass
  PROVE  IInv'
<1> USE BlockSyncAssumption, SameBlocks DEF IInv, StartPass, blockEnv, blockTables, blockLocal
<1>1. tipSeen' \in 0..blockTip
  BY DEF BlockReplies, BlockTypeOK
<1>2. minH' \in 0..blockTip
  BY DEF RangeInv, BlockTypeOK
<1>3. BlockTypeOK'
  BY <1>1, <1>2 DEF BlockTypeOK, BlockSteps
<1>4. PassInv' /\ StopInv'
  BY DEF PassInv, StopInv, BlockSteps
<1>5. QED
  BY <1>3, <1>4, QuietStep

\* The first page is a range whose lower end is at most one above what the
\* slowest replica has: this is where a page must cover the lag.
LEMMA SeedStep ==
  ASSUME ReplicasKeepUp, IInv, Seed
  PROVE  IInv'
<1> USE BlockSyncAssumption DEF IInv, Seed, blockEnv
<1>1. /\ blockRows = {} /\ days >= 0 /\ ~done /\ depth = 0
      /\ pagesLeft = PagesPerPass
  <2>1. blockRows = {} /\ days >= 0 /\ pagesLeft = PagesPerPass
    BY DEF PassInv
  <2>2. ~done
    BY <2>1, Zenon DEF CompleteHonest
  <2>3. depth = 0
    BY <2>1 DEF DepthHonest, BlockTypeOK
  <2>4. QED
    BY <2>1, <2>2, <2>3
<1>2. PICK t \in BlockReplies :
        LET page == Served(t, Larger(tipSeen - PageSize + 1, 1), tipSeen)
        IN  /\ blockRows' = blockRows \union page
            /\ minH' = IF page = {} THEN minH ELSE Min(blockRows')
            /\ blockStep' = IF page = {} THEN "idle" ELSE "head"
  BY DEF Seed
<1> DEFINE from == Larger(tipSeen - PageSize + 1, 1)
           lo   == Larger(from, Floor)
           hi   == Smaller(tipSeen, t)
<1>3. /\ t \in blockSlow..blockTip /\ tipSeen \in 0..blockTip /\ blockTip \in Nat /\ blockSlow \in 0..blockTip
      /\ from \in Nat /\ lo \in Nat /\ hi \in Nat /\ Floor <= lo /\ hi <= blockTip
  BY DEF BlockTypeOK, BlockReplies, Larger, Smaller
<1>4. Served(t, from, tipSeen) = lo..hi
  BY <1>3, ServedRange
<1>5. blockRows' = lo..hi /\ blockTip' = blockTip /\ blockSlow' = blockSlow
  BY <1>1, <1>2, <1>4
<1>6. lo > Floor => lo <= blockSlow + 1
  BY <1>3 DEF ReplicasKeepUp, ReachInv, Larger
<1>7. CASE hi < lo
  <2>1. blockRows' = {} /\ blockStep' = "idle" /\ minH' = minH
    BY <1>1, <1>2, <1>3, <1>4, <1>7
  <2>2. BlockTypeOK'
    BY <1>1, <2>1 DEF BlockTypeOK, BlockSteps
  <2>3. RangeInv' /\ ReachInv' /\ PassInv' /\ StopInv'
    BY <2>1 DEF RangeInv, ReachInv, PassInv, StopInv, BlockSteps
  <2>4. CompleteHonest' /\ DepthHonest'
    BY <1>1 DEF CompleteHonest, DepthHonest
  <2>5. QED
    BY <2>2, <2>3, <2>4
<1>8. CASE lo <= hi
  <2>1. LowestBlock' = lo /\ HighestBlock' = hi
    <3>1. Min(lo..hi) = lo /\ Max(lo..hi) = hi
      BY <1>3, <1>8, RangeEnds
    <3>2. QED
      BY <1>5, <3>1 DEF LowestBlock, HighestBlock
  <2>2. lo..hi # {}
    BY <1>3, <1>8, lo \in lo..hi
  <2>3. blockStep' = "head" /\ minH' = lo
    BY <1>1, <1>2, <1>4, <2>1, <2>2 DEF LowestBlock
  <2>4. BlockTypeOK'
    BY <1>1, <1>3, <1>5, <1>8, <2>3 DEF BlockTypeOK, BlockSteps
  <2>5. RangeInv' /\ ReachInv'
    BY <1>3, <1>5, <1>6, <1>8, <2>1 DEF RangeInv, ReachInv
  <2>6. PassInv' /\ StopInv'
    BY <1>1, <1>5, <2>1, <2>2, <2>3 DEF PassInv, StopInv, BlockSteps
  <2>7. CompleteHonest' /\ DepthHonest'
    BY <1>1 DEF CompleteHonest, DepthHonest
  <2>8. QED
    BY <2>4, <2>5, <2>6, <2>7
<1>9. QED
  BY <1>3, <1>7, <1>8

\* One page on top of the table keeps it a range with the same lower end.
LEMMA HeadSyncStep ==
  ASSUME IInv, HeadSync
  PROVE  IInv'
<1> USE BlockSyncAssumption DEF IInv, HeadSync, blockEnv
<1>1. /\ blockRows # {} /\ minH = LowestBlock /\ days >= 0
      /\ blockTip \in Nat /\ tipSeen \in 0..blockTip /\ blockSlow \in 0..blockTip
      /\ LowestBlock \in Floor..blockTip /\ HighestBlock \in LowestBlock..blockTip
      /\ blockRows = LowestBlock..HighestBlock
  BY DEF BlockTypeOK, PassInv, RangeInv, BlockSteps
<1>2. PICK top \in HighestBlock..blockTip : blockRows' = LowestBlock..top
  <2>1. CASE HighestBlock < tipSeen /\ pagesLeft > 0
    <3>1. PICK t \in BlockReplies :
            blockRows' = blockRows \union
              Served(t, HighestBlock + 1, Smaller(HighestBlock + PageSize, tipSeen))
      BY <2>1
    <3> DEFINE to == Smaller(Smaller(HighestBlock + PageSize, tipSeen), t)
    <3>2. t \in blockSlow..blockTip /\ Smaller(HighestBlock + PageSize, tipSeen) \in HighestBlock..blockTip
          /\ to \in Int /\ to <= blockTip
      BY <1>1, <2>1 DEF BlockReplies, Smaller
    <3>3. Larger(HighestBlock + 1, Floor) = HighestBlock + 1
      BY <1>1 DEF Larger
    <3>4. Served(t, HighestBlock + 1, Smaller(HighestBlock + PageSize, tipSeen))
            = (HighestBlock + 1)..to
      BY <1>1, <3>2, <3>3, ServedRange
    <3>5. CASE to <= HighestBlock
      <4>1. (HighestBlock + 1)..to = {}
        BY <1>1, <3>2, <3>5
      <4>2. blockRows' = LowestBlock..HighestBlock
        BY <1>1, <3>1, <3>4, <4>1
      <4>3. QED
        BY <1>1, <4>2
    <3>6. CASE to > HighestBlock
      <4>1. blockRows' = LowestBlock..to
        BY <1>1, <3>1, <3>2, <3>4, <3>6, PageAbove
      <4>2. QED
        BY <1>1, <3>2, <3>6, <4>1
    <3>7. QED
      BY <1>1, <3>2, <3>5, <3>6
  <2>2. CASE ~(HighestBlock < tipSeen /\ pagesLeft > 0)
    BY <1>1, <2>2
  <2>3. QED
    BY <2>1, <2>2
<1>3. LowestBlock' = LowestBlock /\ HighestBlock' = top /\ blockRows' # {}
  <2>1. Min(LowestBlock..top) = LowestBlock /\ Max(LowestBlock..top) = top
    BY <1>1, <1>2, RangeEnds
  <2>2. QED
    BY <1>1, <1>2, <2>1 DEF LowestBlock, HighestBlock
<1>4. UNCHANGED <<blockTip, blockSlow, blockFaults, done, depth, days, tipSeen, minH, cutoff, stopDepth>>
      /\ blockStep' = "flag"
  OBVIOUS
<1>5. BlockTypeOK'
  <2>1. blockRows' \subseteq Floor..blockTip
    BY <1>1, <1>2
  <2>2. pagesLeft' \in 0..PagesPerPass
    BY DEF BlockTypeOK
  <2>3. QED
    BY <1>4, <2>1, <2>2 DEF BlockTypeOK, BlockSteps
<1>6. RangeInv' /\ ReachInv'
  BY <1>1, <1>2, <1>3, <1>4 DEF RangeInv, ReachInv
<1>7. PassInv' /\ StopInv'
  BY <1>1, <1>3, <1>4 DEF PassInv, StopInv, BlockSteps
<1>8. CompleteHonest' /\ DepthHonest'
  BY <1>1, <1>3, <1>4 DEF CompleteHonest, DepthHonest, DeepEnough
<1>9. QED
  BY <1>5, <1>6, <1>7, <1>8

LEMMA CheckDoneStep ==
  ASSUME IInv, CheckDone
  PROVE  IInv'
<1> USE SameBlocks DEF IInv, CheckDone, blockEnv, blockLocal
<1>1. done' \in BOOLEAN /\ (done' => done)
  BY DEF BlockTypeOK
<1>2. BlockTypeOK'
  BY <1>1 DEF BlockTypeOK, BlockSteps
<1>3. RangeInv' /\ ReachInv'
  BY DEF RangeInv, ReachInv
<1>4. PassInv' /\ StopInv'
  BY DEF PassInv, StopInv, BlockSteps
<1>5. CompleteHonest' /\ DepthHonest'
  BY <1>1 DEF CompleteHonest, DepthHonest, DeepEnough
<1>6. QED
  BY <1>2, <1>3, <1>4, <1>5

LEMMA CheckCapStep ==
  ASSUME IInv, CheckCap
  PROVE  IInv'
<1> USE BlockSyncAssumption, SameBlocks DEF IInv, CheckCap, blockEnv, blockTables
<1>1. blockTip \in Nat /\ days \in Nat /\ days \in DaysChoices
  BY DEF BlockTypeOK, PassInv
<1>2. stopDepth' \in Nat
  BY <1>1 DEF BlockTypeOK
<1>3. BlockTypeOK'
  BY <1>1, <1>2 DEF BlockTypeOK, BlockSteps
<1>4. PassInv'
  BY <1>1 DEF PassInv, BlockSteps
<1>5. StopInv'
  BY <1>1 DEF StopInv, DeepEnough, Capped
<1>6. QED
  BY <1>3, <1>4, <1>5, QuietStep

\* One page below the table: what the answer can lack lies below the floor,
\* so the table stays a range, and a page that lowers nothing met the floor.
LEMMA LowerPageStep ==
  ASSUME IInv, NEW timed \in BOOLEAN, LowerPage(timed), blockFaults' \in 0..MaxBlockFaults
  PROVE  IInv'
<1> USE BlockSyncAssumption DEF IInv, LowerPage, blockEnv
<1>1. /\ blockRows # {} /\ minH = LowestBlock /\ days \in Nat /\ days \in DaysChoices
      /\ blockTip \in Nat /\ blockSlow \in 0..blockTip /\ cutoff \in Int /\ cutoff <= blockTip - days
      /\ LowestBlock \in Floor..blockTip /\ HighestBlock \in LowestBlock..blockTip
      /\ blockRows = LowestBlock..HighestBlock
      /\ LowestBlock > Floor => LowestBlock <= blockSlow + 1
  BY DEF BlockTypeOK, PassInv, RangeInv, ReachInv, BlockSteps
<1>2. PICK t \in BlockReplies :
        blockRows' = blockRows \union Served(t, Larger(minH - PageSize, 1), minH - 1)
  OBVIOUS
<1> DEFINE lo == Larger(Larger(LowestBlock - PageSize, 1), Floor)
<1>3. t \in blockSlow..blockTip /\ lo \in Nat /\ lo >= Floor
  BY <1>1 DEF BlockReplies, Larger
<1>4. Served(t, Larger(minH - PageSize, 1), minH - 1)
        = lo..Smaller(LowestBlock - 1, t)
  <2>1. Larger(LowestBlock - PageSize, 1) \in Int /\ LowestBlock - 1 \in Int /\ t \in Int
    BY <1>1, <1>3 DEF Larger
  <2>2. QED
    BY <1>1, <2>1, ServedRange
<1>5. PICK bot \in Floor..LowestBlock : blockRows' = bot..HighestBlock
  <2>1. CASE LowestBlock = Floor
    <3>1. lo..Smaller(LowestBlock - 1, t) = {}
      BY <1>1, <1>3, <2>1 DEF Smaller
    <3>2. blockRows' = blockRows
      BY <1>2, <1>4, <3>1
    <3>3. blockRows' = LowestBlock..HighestBlock /\ LowestBlock \in Floor..LowestBlock
      BY <1>1, <3>2
    <3>4. QED
      BY <3>3
  <2>2. CASE LowestBlock > Floor
    <3>1. Smaller(LowestBlock - 1, t) = LowestBlock - 1
      BY <1>1, <1>3, <2>2 DEF Smaller
    <3>2. lo <= LowestBlock
      BY <1>1, <2>2 DEF Larger
    <3>3. blockRows' = lo..HighestBlock
      BY <1>1, <1>2, <1>3, <1>4, <3>1, <3>2, PageBelow
    <3>4. QED
      BY <1>1, <1>3, <3>2, <3>3
  <2>3. QED
    BY <1>1, <2>1, <2>2
<1>6. LowestBlock' = bot /\ HighestBlock' = HighestBlock /\ blockRows' # {} /\ Min(blockRows') = bot
  <2>1. Min(bot..HighestBlock) = bot /\ Max(bot..HighestBlock) = HighestBlock
    BY <1>1, <1>5, RangeEnds
  <2>2. bot \in bot..HighestBlock
    BY <1>1, <1>5
  <2>3. QED
    BY <1>5, <2>1, <2>2 DEF LowestBlock, HighestBlock
<1>7. UNCHANGED <<blockTip, blockSlow, done, depth, days, tipSeen, cutoff>>
  OBVIOUS
<1>8. /\ minH' = bot /\ blockStep' \in {"probe", "back", "markDone"}
      /\ pagesLeft' \in 0..PagesPerPass /\ stopDepth' \in Nat
      /\ blockStep' = "markDone" => stopDepth' = days /\ days > 0 /\ bot < blockTip - days
  <2>1. CASE bot >= minH
    BY <1>1, <1>5, <1>6, <2>1 DEF BlockTypeOK
  <2>2. CASE bot < minH
    BY <1>1, <1>5, <1>6, <2>2 DEF BlockTypeOK, Capped, PastCutoff
  <2>3. QED
    BY <1>1, <1>5, <2>1, <2>2
<1>9. BlockTypeOK'
  <2>1. blockRows' \subseteq Floor..blockTip
    BY <1>1, <1>5
  <2>2. bot \in 0..blockTip
    BY <1>1, <1>5
  <2>3. QED
    BY <1>7, <1>8, <2>1, <2>2 DEF BlockTypeOK, BlockSteps
<1>10. RangeInv' /\ ReachInv'
  BY <1>1, <1>5, <1>6, <1>7 DEF RangeInv, ReachInv
<1>11. PassInv'
  BY <1>1, <1>6, <1>7, <1>8 DEF PassInv, BlockSteps
<1>12. StopInv'
  BY <1>1, <1>6, <1>7, <1>8 DEF StopInv, DeepEnough
<1>13. CompleteHonest'
  <2>1. \A d \in DaysChoices : DeepEnough(d) => DeepEnough(d)'
    BY <1>1, <1>5, <1>6, <1>7 DEF DeepEnough
  <2>2. LowestBlock = Floor => LowestBlock' = Floor
    BY <1>1, <1>5, <1>6
  <2>3. QED
    BY <1>6, <1>7, <2>1, <2>2 DEF CompleteHonest
<1>14. DepthHonest'
  BY <1>1, <1>5, <1>6, <1>7 DEF DepthHonest, DeepEnough, BlockTypeOK
<1>15. QED
  BY <1>9, <1>10, <1>11, <1>12, <1>13, <1>14

LEMMA BackfillPageStep ==
  ASSUME IInv, BackfillPage \/ PageCapUnread
  PROVE  IInv'
<1>1. blockFaults' \in 0..MaxBlockFaults
  <2>1. blockFaults' = blockFaults \/ BlockFault
    BY Zenon DEF BackfillPage, PageCapUnread
  <2>2. blockFaults \in 0..MaxBlockFaults /\ MaxBlockFaults \in Nat
    BY BlockSyncAssumption DEF IInv, BlockTypeOK
  <2>3. QED
    BY <2>1, <2>2 DEF BlockFault
<1>2. PICK timed \in BOOLEAN : LowerPage(timed)
  BY Zenon DEF BackfillPage, PageCapUnread
<1>3. QED
  BY <1>1, <1>2, LowerPageStep

LEMMA BackfillEndsStep ==
  ASSUME IInv, BackfillEnds
  PROVE  IInv'
<1> USE BlockSyncAssumption, SameBlocks DEF IInv, BackfillEnds, blockEnv, blockTables
<1>1. blockRows # {} /\ minH = LowestBlock /\ LowestBlock \in Floor..blockTip /\ blockTip \in Nat
  BY DEF BlockTypeOK, PassInv, RangeInv, BlockSteps
<1>2. BlockTypeOK'
  BY DEF BlockTypeOK, BlockSteps
<1>3. PassInv'
  BY DEF PassInv, BlockSteps
<1>4. StopInv'
  BY <1>1 DEF StopInv
<1>5. QED
  BY <1>2, <1>3, <1>4, QuietStep

\* A height the probe does not find is a height no replica has: the floor.
LEMMA ProbeStep ==
  ASSUME IInv, Probe
  PROVE  IInv'
<1> USE BlockSyncAssumption, SameBlocks DEF IInv, Probe, blockEnv, blockTables
<1>1. /\ blockRows # {} /\ minH = LowestBlock /\ LowestBlock \in Floor..blockTip /\ blockTip \in Nat
      /\ blockSlow \in 0..blockTip /\ (LowestBlock > Floor => LowestBlock <= blockSlow + 1)
  BY DEF BlockTypeOK, PassInv, RangeInv, ReachInv, BlockSteps
<1>2. BlockTypeOK'
  BY DEF BlockTypeOK, BlockSteps
<1>3. PassInv'
  BY DEF PassInv, BlockSteps
<1>4. StopInv'
  <2>1. PICK t \in BlockReplies :
          IF Served(t, minH - 1, minH - 1) # {}
          THEN blockStep' = "idle" /\ UNCHANGED stopDepth
          ELSE blockStep' = "markDone" /\ stopDepth' = 0
    OBVIOUS
  <2>2. CASE Served(t, minH - 1, minH - 1) # {}
    BY <2>1, <2>2 DEF StopInv
  <2>3. CASE Served(t, minH - 1, minH - 1) = {}
    <3>1. t \in blockSlow..blockTip
      BY <2>1 DEF BlockReplies
    <3>2. LowestBlock > Floor => minH - 1 \in Served(t, minH - 1, minH - 1)
      BY <1>1, <3>1 DEF Served
    <3>3. LowestBlock = Floor
      BY <1>1, <2>3, <3>2
    <3>4. QED
      BY <2>1, <2>3, <3>3 DEF StopInv
  <2>4. QED
    BY <2>2, <2>3
<1>5. QED
  BY <1>2, <1>3, <1>4, QuietStep

\* The flag goes up for a reason that is true of the table.
LEMMA MarkDoneStep ==
  ASSUME IInv, MarkFlag
  PROVE  IInv'
<1> USE SameBlocks DEF IInv, MarkFlag, blockEnv, blockLocal
<1>1. BlockTypeOK'
  BY DEF BlockTypeOK, BlockSteps
<1>2. RangeInv' /\ ReachInv'
  BY DEF RangeInv, ReachInv
<1>3. PassInv' /\ StopInv'
  BY DEF PassInv, StopInv, DeepEnough, BlockSteps
<1>4. CompleteHonest'
  BY DEF CompleteHonest, PassInv, StopInv, DeepEnough, BlockSteps
<1>5. DepthHonest'
  BY DEF DepthHonest, DeepEnough
<1>6. QED
  BY <1>1, <1>2, <1>3, <1>4, <1>5

LEMMA MarkDepthStep ==
  ASSUME IInv, MarkDepth
  PROVE  IInv'
<1> USE SameBlocks DEF IInv, MarkDepth, blockEnv, blockLocal
<1>1. BlockTypeOK'
  BY DEF BlockTypeOK, BlockSteps
<1>2. RangeInv' /\ ReachInv'
  BY DEF RangeInv, ReachInv
<1>3. PassInv' /\ StopInv'
  BY DEF PassInv, StopInv, BlockSteps
<1>4. CompleteHonest'
  BY DEF CompleteHonest, DeepEnough
<1>5. DepthHonest'
  BY DEF DepthHonest, PassInv, StopInv, DeepEnough, BlockSteps
<1>6. QED
  BY <1>1, <1>2, <1>3, <1>4, <1>5

LEMMA CallFailsStep ==
  ASSUME IInv, BlockCallFails
  PROVE  IInv'
<1> USE BlockSyncAssumption, SameBlocks DEF IInv, BlockCallFails, BlockFault, blockEnv, blockTables
<1>1. blockStep' \in {"idle", "flag"} /\ (blockStep' = "flag" => blockStep = "head")
  OBVIOUS
<1>2. pagesLeft' \in 0..PagesPerPass
  BY DEF BlockTypeOK
<1>3. BlockTypeOK'
  BY <1>1, <1>2 DEF BlockTypeOK, BlockSteps
<1>4. PassInv' /\ StopInv'
  BY <1>1 DEF PassInv, StopInv, BlockSteps
<1>5. QED
  BY <1>3, <1>4, QuietStep

LEMMA RestartStep ==
  ASSUME IInv, BlockRestart
  PROVE  IInv'
<1> USE BlockSyncAssumption, SameBlocks DEF IInv, BlockRestart, BlockFault, blockEnv, blockTables
<1>1. BlockTypeOK'
  BY DEF BlockTypeOK, BlockSteps
<1>2. PassInv' /\ StopInv'
  BY DEF PassInv, StopInv, BlockSteps
<1>3. QED
  BY <1>1, <1>2, QuietStep

\* A read whose error is dropped: the flag is passed over, or the cap.
LEMMA FlagUnreadStep ==
  ASSUME IInv, FlagUnread
  PROVE  IInv'
<1> USE BlockSyncAssumption, SameBlocks
    DEF IInv, FlagUnread, BlockFault, blockEnv, blockTables, blockLocal
<1>1. BlockTypeOK'
  BY DEF BlockTypeOK, BlockSteps
<1>2. PassInv' /\ StopInv'
  BY DEF PassInv, StopInv, BlockSteps
<1>3. QED
  BY <1>1, <1>2, QuietStep

LEMMA CapUnreadStep ==
  ASSUME IInv, CapUnread
  PROVE  IInv'
<1> USE BlockSyncAssumption, SameBlocks
    DEF IInv, CapUnread, BlockFault, blockEnv, blockTables
<1>1. blockTip \in Nat /\ days \in Nat
  BY DEF BlockTypeOK, PassInv
<1>2. BlockTypeOK'
  BY <1>1 DEF BlockTypeOK, BlockSteps
<1>3. PassInv' /\ StopInv'
  BY <1>1 DEF PassInv, StopInv, BlockSteps
<1>4. QED
  BY <1>2, <1>3, QuietStep

LEMMA StutterStep ==
  ASSUME IInv, UNCHANGED blockVars
  PROVE  IInv'
<1> USE SameBlocks DEF IInv, blockVars, blockEnv, blockTables, blockLocal
<1>1. BlockTypeOK' /\ PassInv'
  BY DEF BlockTypeOK, PassInv
<1>2. StopInv'
  BY DEF StopInv, DeepEnough
<1>3. QED
  BY <1>1, <1>2, QuietStep

-----------------------------------------------------------------------------
\* Every step keeps the invariant.
LEMMA NextIInv ==
  ASSUME ReplicasKeepUp, IInv, [BlockNext]_blockVars
  PROVE  IInv'
<1>1. CASE BlockGrow       BY <1>1, GrowStep
<1>2. CASE BlockCatchUp    BY <1>2, CatchUpStep
<1>6. CASE UNCHANGED blockVars BY <1>6, StutterStep
<1>3. CASE BlockPass
  <2>1. CASE StartPass    BY <2>1, StartPassStep
  <2>2. CASE Seed         BY <2>2, SeedStep
  <2>3. CASE HeadSync     BY <2>3, HeadSyncStep
  <2>4. CASE CheckDone    BY <2>4, CheckDoneStep
  <2>5. CASE CheckCap     BY <2>5, CheckCapStep
  <2>6. CASE BackfillPage BY <2>6, BackfillPageStep
  <2>7. CASE BackfillEnds BY <2>7, BackfillEndsStep
  <2>8. CASE Probe        BY <2>8, ProbeStep
  <2>9. CASE MarkFlag     BY <2>9, MarkDoneStep
  <2>10. CASE MarkDepth   BY <2>10, MarkDepthStep
  <2>11. QED
    BY <1>3, <2>1, <2>2, <2>3, <2>4, <2>5, <2>6, <2>7, <2>8, <2>9, <2>10, <1>6
    DEF BlockPass, Decline
<1>4. CASE BlockCallFails  BY <1>4, CallFailsStep
<1>5. CASE BlockRestart    BY <1>5, RestartStep
<1>7. CASE FlagUnread      BY <1>7, FlagUnreadStep
<1>8. CASE CapUnread       BY <1>8, CapUnreadStep
<1>9. CASE PageCapUnread   BY <1>9, BackfillPageStep
<1>10. QED
  BY <1>3, <1>1, <1>2, <1>4, <1>5, <1>6, <1>7, <1>8, <1>9 DEF BlockNext

LEMMA InvariantHolds ==
  ASSUME ReplicasKeepUp
  PROVE  BlockSafety => []IInv
<1>1. BlockInit => IInv
  BY InitIInv
<1>2. IInv /\ [BlockNext]_blockVars => IInv'
  BY NextIInv
<1>3. QED
  BY <1>1, <1>2, PTL DEF BlockSafety

\* The blocks table never has a hole, whatever fails and whenever the process
\* is restarted: the fact both cursors of syncBlocks are derived from.
THEOREM TableIsContiguous ==
  ASSUME ReplicasKeepUp
  PROVE  BlockSafety => []Contiguous
<1>1. IInv => Contiguous
  BY DEF IInv, RangeInv, Contiguous
<1>2. QED
  BY <1>1, InvariantHolds, PTL

\* Variables stay in their types.
THEOREM TypesHold ==
  ASSUME ReplicasKeepUp
  PROVE  BlockSafety => []BlockTypeOK
<1>1. IInv => BlockTypeOK
  BY DEF IInv
<1>2. QED
  BY <1>1, InvariantHolds, PTL

\* A table reported complete reaches the floor or a depth asked for.
THEOREM CompleteIsHonest ==
  ASSUME ReplicasKeepUp
  PROVE  BlockSafety => []CompleteHonest
<1>1. IInv => CompleteHonest
  BY DEF IInv
<1>2. QED
  BY <1>1, InvariantHolds, PTL

\* A depth on record is a depth the table reaches.
THEOREM DepthIsHonest ==
  ASSUME ReplicasKeepUp
  PROVE  BlockSafety => []DepthHonest
<1>1. IInv => DepthHonest
  BY DEF IInv
<1>2. QED
  BY <1>1, InvariantHolds, PTL

-----------------------------------------------------------------------------
\* The refinement: each step is a step of BlockRange or leaves it alone.

\* In reachable states the table grows by extending its range, and both
\* ranges are inside what the indexer serves.
LEMMA ExtendStep ==
  ASSUME IInv, IInv', blockTip' = blockTip, done' = done, blockRows # {},
         LowestBlock' <= LowestBlock, HighestBlock' >= HighestBlock, blockRows' # {}
  PROVE  Growing!Extend
<1>1. /\ LowestBlock' \in Floor..LowestBlock /\ HighestBlock' \in HighestBlock..blockTip
      /\ blockRows' = LowestBlock'..HighestBlock'
  BY BlockSyncAssumption DEF IInv, RangeInv, BlockTypeOK
<1>2. LowestBlock' \in Floor..Min(blockRows) /\ HighestBlock' \in Max(blockRows)..blockTip
  BY <1>1 DEF LowestBlock, HighestBlock
<1>3. \E lo \in Floor..Min(blockRows), hi \in Max(blockRows)..blockTip : blockRows' = lo..hi
  BY <1>1, <1>2
<1>4. QED
  BY <1>3 DEF Growing!Extend, Growing!Min, Growing!Max, Min, Max

\* The actions that store a page never lose a row.
LEMMA PagesOnlyAdd ==
  ASSUME Seed \/ HeadSync \/ BackfillPage \/ PageCapUnread
  PROVE  blockRows \subseteq blockRows'
BY DEF Seed, HeadSync, BackfillPage, PageCapUnread, LowerPage

\* A range inside another has its ends inside the other's.
LEMMA EndsOfLarger ==
  ASSUME IInv, IInv', blockRows # {}, blockRows \subseteq blockRows'
  PROVE  LowestBlock' <= LowestBlock /\ HighestBlock' >= HighestBlock /\ blockRows' # {}
<1>1. blockRows' # {}
  OBVIOUS
<1>2. LowestBlock \in blockRows /\ HighestBlock \in blockRows
  <2>1. LowestBlock \in Int /\ HighestBlock \in Int /\ LowestBlock <= HighestBlock
        /\ blockRows = LowestBlock..HighestBlock
    BY BlockSyncAssumption DEF IInv, RangeInv, BlockTypeOK
  <2>2. LowestBlock \in LowestBlock..HighestBlock /\ HighestBlock \in LowestBlock..HighestBlock
    BY <2>1
  <2>3. QED
    BY <2>1, <2>2
<1>3. blockRows' = LowestBlock'..HighestBlock'
  BY <1>1 DEF IInv, RangeInv
<1>4. QED
  BY <1>1, <1>2, <1>3

LEMMA StepRefines ==
  ASSUME IInv, IInv', [BlockNext]_blockVars
  PROVE  [Growing!Next]_(Growing!vars)
<1> USE DEF Growing!vars
<1>1. CASE BlockGrow
  BY <1>1 DEF BlockGrow, blockTables, Growing!Next, Growing!Grow
<1>2. CASE Seed
  <2>1. blockRows = {} /\ blockTip' = blockTip /\ done' = done
    BY <1>2 DEF IInv, PassInv, Seed, blockEnv
  <2>2. CASE blockRows' = {}
    BY <2>1, <2>2
  <2>3. CASE blockRows' # {}
    <3>1. LowestBlock' \in Floor..blockTip /\ HighestBlock' \in Floor..blockTip
          /\ LowestBlock' <= HighestBlock' /\ blockRows' = LowestBlock'..HighestBlock'
      BY <2>1, <2>3, BlockSyncAssumption DEF IInv, RangeInv, BlockTypeOK
    <3>2. Growing!Open
      BY <2>1, <3>1 DEF Growing!Open
    <3>3. QED
      BY <3>2 DEF Growing!Next
  <2>4. QED
    BY <2>2, <2>3
<1>3. CASE HeadSync \/ BackfillPage \/ PageCapUnread
  <2>1. blockRows # {} /\ blockTip' = blockTip /\ done' = done
    BY <1>3 DEF IInv, PassInv, HeadSync, BackfillPage, PageCapUnread, LowerPage, blockEnv,
                BlockSteps
  <2>2. Growing!Extend
    BY <1>3, <2>1, PagesOnlyAdd, EndsOfLarger, ExtendStep
  <2>3. QED
    BY <2>2 DEF Growing!Next
<1>4. CASE CheckDone
  <2>1. blockTip' = blockTip /\ blockRows' = blockRows /\ (done' = done \/ done' = FALSE)
    BY <1>4 DEF CheckDone, blockEnv
  <2>2. QED
    BY <2>1 DEF Growing!Next, Growing!Reopen
<1>5. CASE MarkFlag
  <2>1. blockTip' = blockTip /\ blockRows' = blockRows /\ done' = TRUE
    BY <1>5 DEF MarkFlag, blockEnv
  <2>2. blockRows # {}
    BY <1>5 DEF IInv, PassInv, MarkFlag, BlockSteps
  <2>3. LowestBlock = Floor \/ \E d \in DaysChoices : DeepEnough(d)
    BY <1>5 DEF IInv, StopInv, MarkFlag
  <2>4. \/ Min(blockRows) = Floor
        \/ \E d \in DaysChoices : d > 0 /\ Min(blockRows) < blockTip - d
    BY <2>3 DEF LowestBlock, DeepEnough
  <2>5. Growing!Finish
    BY <2>1, <2>2, <2>4 DEF Growing!Finish, Growing!Min, Min
  <2>6. QED
    BY <2>5 DEF Growing!Next
<1>6. CASE BlockCatchUp \/ StartPass \/ CheckCap \/ BackfillEnds \/ Probe
           \/ MarkDepth \/ BlockCallFails \/ BlockRestart \/ FlagUnread \/ CapUnread
           \/ Decline \/ UNCHANGED blockVars
  <2>1. blockTip' = blockTip /\ blockRows' = blockRows /\ done' = done
    BY <1>6 DEF BlockCatchUp, StartPass, CheckCap, BackfillEnds, Probe, MarkDepth,
                BlockCallFails, BlockRestart, FlagUnread, CapUnread, Decline,
                blockVars, blockEnv, blockTables
  <2>2. QED
    BY <2>1
<1>7. QED
  BY <1>1, <1>2, <1>3, <1>4, <1>5, <1>6 DEF BlockNext, BlockPass

\* Block sync implements the abstract growing range.
THEOREM BlockSyncImplementsBlockRange ==
  ASSUME ReplicasKeepUp
  PROVE  BlockSafety => GrowsAtItsEnds
<1>1. BlockInit => Growing!Init
  BY BlockSyncAssumption DEF BlockInit, Growing!Init
<1>2. IInv /\ IInv' /\ [BlockNext]_blockVars => [Growing!Next]_(Growing!vars)
  BY StepRefines
<1>3. QED
  BY <1>1, <1>2, InvariantHolds, PTL DEF BlockSafety, GrowsAtItsEnds, Growing!Spec
=============================================================================
