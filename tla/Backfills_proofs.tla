-------------------------- MODULE Backfills_proofs ---------------------------
(***************************************************************************)
(* Proofs about four passes over history that SyncAll makes beside the     *)
(* blocks: the token ledger's walk, the repair of old message arguments,   *)
(* the backfill of coin transfers and the replay of the user registry.     *)
(* They share no state: what the first three share is the question what a  *)
(* cursor may be moved past, the lemmas about the least and the greatest   *)
(* of a batch that answer it, and the promise of Backfill, which each is   *)
(* shown to keep. The last section puts the walks of SyncAll together.     *)
(***************************************************************************)
EXTENDS Walks, TxSync_proofs, SessionSweep_proofs, SequenceTheorems, OrderLemmas

-----------------------------------------------------------------------------
(***************************************************************************)
(* TokenLedger: its types, and that the cursor of the walk over old        *)
(* history passes over nothing that is not accounted for.                  *)
(*                                                                         *)
(* CursorHonest is not inductive: the cursor is set from the batch in      *)
(* hand, so the batch must be honest too (BatchHonest), and a batch begins *)
(* at the lowest stored block where there is no cursor, so the walk must   *)
(* never have begun below it (StartKnown).                                 *)
(***************************************************************************)

InBatch == ledgerStep \in {"walk", "cursor"}

\* What has been walked of the batch in hand, and all below it, is accounted for.
BatchHonest ==
  InBatch => \A h \in Transfers :
               walkStart <= h /\ h < walkDone => h \in ledger \union GivenUp

\* A walk that has begun has not begun below the lowest block, and a batch or a
\* cursor is there only when one has.
StartKnown ==
  /\ walkStart > 0 => low > 0 /\ low <= walkStart
  /\ walkStart = 0 => walkCursor = 0 /\ ~InBatch
  /\ InBatch => from > 0
  /\ ledgerStep = "walk" => walkDone = from

LedgerInv == LedgerTypeOK /\ CursorHonest /\ BatchHonest /\ StartKnown

-----------------------------------------------------------------------------
LEMMA LedgerInitInv == LedgerInit => LedgerInv
<1> SUFFICES ASSUME LedgerInit PROVE LedgerInv
  OBVIOUS
<1> USE TokenLedgerAssumption DEF LedgerInit
<1>1. LedgerTypeOK
  BY DEF LedgerTypeOK, LedgerSteps
<1>2. CursorHonest /\ BatchHonest /\ StartKnown
  BY DEF CursorHonest, BatchHonest, StartKnown, InBatch, GivenUp
<1> QED BY <1>1, <1>2 DEF LedgerInv

\* Where the walk stops is at most one past the chain.
LEMMA RangeStopBound ==
  ASSUME LedgerTypeOK
  PROVE  RangeStop \in 0..ledgerTip + 1
<1> USE TokenLedgerAssumption
<1>1. CASE ledger = {}
  BY <1>1 DEF RangeStop, LedgerTypeOK
<1>2. CASE ledger # {}
  <2>1. ledger \subseteq 1..ledgerTip /\ ledger \in SUBSET Nat
    BY DEF LedgerTypeOK
  <2>2. Min(ledger) \in ledger
    BY <1>2, <2>1, MinOfNat
  <2>3. RangeStop \in 1..ledgerTip
    BY <1>2, <2>1, <2>2, Zenon DEF RangeStop
  <2> QED BY <2>3 DEF LedgerTypeOK
<1> QED BY <1>1, <1>2

\* The batch a pass takes lies within the chain and begins at a stored block.
LEMMA RangeBounds ==
  ASSUME LedgerTypeOK, RangeLeft
  PROVE  /\ RangeFrom \in 1..ledgerTip
         /\ Smaller(RangeFrom + WalkBatch, RangeStop) \in RangeFrom..ledgerTip + 1
<1>1. RangeStop \in 0..ledgerTip + 1
  BY RangeStopBound
<1>2. RangeFrom < RangeStop /\ low > 0
  BY DEF RangeLeft
<1>3. RangeFrom \in Nat /\ RangeFrom >= low
  BY TokenLedgerAssumption DEF RangeFrom, Larger, LedgerTypeOK
<1> HIDE DEF RangeStop, RangeFrom
<1> QED BY <1>1, <1>2, <1>3, TokenLedgerAssumption DEF Smaller, LedgerTypeOK

\* What is recorded are transfers of the chain; what was there stays, and what
\* came back is there or its insert has failed.
LEMMA RecordBounds ==
  ASSUME LedgerTypeOK, NEW a \in Int, NEW b \in Int, NEW t \in 0..ledgerTip, NEW failed,
         RecordTransfers(Returned(a, b, t), failed)
  PROVE  /\ ledger' \subseteq Transfers \intersect (1..ledgerTip)
         /\ unstored' \subseteq Transfers
         /\ ledger \subseteq ledger' /\ unstored \subseteq unstored'
         /\ Returned(a, b, t) \subseteq ledger' \union unstored'
<1>1. Returned(a, b, t) \subseteq Transfers \intersect (1..ledgerTip)
  <2>1. SUFFICES ASSUME NEW h \in Transfers, h <= t
                 PROVE  h \in 1..ledgerTip
    BY DEF Returned
  <2>2. h \in 1..LedgerHeight /\ ledgerTip \in Nat
    BY TokenLedgerAssumption DEF LedgerTypeOK
  <2> QED BY <2>1, <2>2
<1>2. ledger \subseteq Transfers \intersect (1..ledgerTip) /\ unstored \subseteq Transfers
  BY DEF LedgerTypeOK
<1> HIDE DEF Returned
<1> QED BY <1>1, <1>2, Zenon DEF RecordTransfers

-----------------------------------------------------------------------------
LEMMA ChainStepInv ==
  ASSUME LedgerInv, LedgerGrow \/ LedgerCatchUp
  PROVE  LedgerInv'
<1> USE TokenLedgerAssumption DEF LedgerGrow, LedgerCatchUp, ledgerDurable, walkBatch, ledgerHist
<1>1. LedgerTypeOK'
  <2>1. /\ ledgerTip' \in 0..LedgerHeight /\ ledgerTip' >= ledgerTip
        /\ ledgerSlow' \in 0..ledgerTip'
    BY DEF LedgerInv, LedgerTypeOK
  <2>2. 1..ledgerTip \subseteq 1..ledgerTip'
    BY <2>1 DEF LedgerInv, LedgerTypeOK
  <2>3. /\ ledger' \subseteq Transfers \intersect (1..ledgerTip')
        /\ missed' \subseteq 1..ledgerTip' /\ unstored' \subseteq Transfers
    BY <2>2 DEF LedgerInv, LedgerTypeOK
  <2>4. /\ ledgerFaults' \in 0..MaxLedgerFaults /\ ledgerStep' \in LedgerSteps
        /\ high' \in 0..ledgerTip' /\ low' \in 0..high' /\ calls' \in 0..ledgerTip'
    BY <2>1 DEF LedgerInv, LedgerTypeOK
  <2>5. /\ walkCursor' \in 0..ledgerTip' + 1 /\ walkStart' \in 0..ledgerTip'
        /\ from' \in 0..ledgerTip' /\ to' \in 0..ledgerTip' + 1 /\ walkDone' \in from'..to'
    BY <2>1 DEF LedgerInv, LedgerTypeOK
  <2> QED BY <2>1, <2>3, <2>4, <2>5 DEF LedgerTypeOK
<1>2. CursorHonest' /\ BatchHonest' /\ StartKnown'
  BY DEF LedgerInv, CursorHonest, BatchHonest, StartKnown, InBatch, GivenUp
<1> QED BY <1>1, <1>2 DEF LedgerInv

LEMMA SyncBlocksInv ==
  ASSUME LedgerInv, SyncBlocks
  PROVE  LedgerInv'
<1> USE TokenLedgerAssumption DEF SyncBlocks, ledgerEnv, walkBatch, ledgerHist
<1>1. /\ high' \in 0..ledgerTip /\ low' \in 0..high'
      /\ low > 0 => low' > 0 /\ low' <= low
  BY DEF LedgerInv, LedgerTypeOK, LedgerReplies, Larger
<1>2. LedgerTypeOK'
  BY <1>1 DEF LedgerInv, LedgerTypeOK, LedgerSteps
<1>3. CursorHonest' /\ BatchHonest'
  BY DEF LedgerInv, CursorHonest, BatchHonest, InBatch, GivenUp
<1>4. StartKnown'
  BY <1>1 DEF LedgerInv, LedgerTypeOK, StartKnown, InBatch
<1> QED BY <1>2, <1>3, <1>4 DEF LedgerInv

\* A batch begins at the cursor, below which all is accounted for, or at the
\* lowest block, where the walk began or below.
LEMMA NextBatchInv ==
  ASSUME LedgerInv, NextBatch
  PROVE  LedgerInv'
<1> USE TokenLedgerAssumption DEF NextBatch, ledgerEnv, ledgerDurable
<1>1. CASE ~RangeLeft
  <2>1. UNCHANGED <<walkBatch, walkStart>> /\ ledgerStep' = "calls"
    BY <1>1
  <2>2. LedgerTypeOK'
    BY <2>1 DEF walkBatch, LedgerInv, LedgerTypeOK, LedgerSteps
  <2>3. CursorHonest' /\ BatchHonest' /\ StartKnown'
    BY <2>1 DEF walkBatch, LedgerInv, CursorHonest, BatchHonest, StartKnown, InBatch, GivenUp
  <2> QED BY <2>2, <2>3 DEF LedgerInv
<1>2. CASE RangeLeft
  <2>1. /\ from' = RangeFrom /\ walkDone' = RangeFrom
        /\ to' = Smaller(RangeFrom + WalkBatch, RangeStop)
        /\ walkStart' = IF walkStart = 0 THEN RangeFrom ELSE walkStart
        /\ ledgerStep' = "walk"
    BY <1>2
  <2>2. from' \in 1..ledgerTip /\ to' \in from'..ledgerTip + 1 /\ walkStart' \in 0..ledgerTip
    BY <1>2, <2>1, RangeBounds DEF LedgerInv, LedgerTypeOK
  <2>3. LedgerTypeOK'
    BY <2>1, <2>2 DEF LedgerInv, LedgerTypeOK, LedgerSteps
  <2>4. walkStart = 0 => walkCursor = 0 /\ RangeFrom = low
    BY DEF RangeFrom, Larger, LedgerInv, LedgerTypeOK, StartKnown
  <2>5. low > 0
    BY <1>2 DEF RangeLeft
  <2>6. StartKnown'
    BY <2>1, <2>2, <2>4, <2>5 DEF LedgerInv, LedgerTypeOK, StartKnown, InBatch
  <2>7. CursorHonest'
    BY <2>1, <2>4 DEF LedgerInv, CursorHonest, GivenUp
  <2>8. BatchHonest'
    <3> SUFFICES ASSUME NEW h \in Transfers, walkStart' <= h, h < RangeFrom
                 PROVE  h \in ledger \union GivenUp
      BY <2>1 DEF BatchHonest, GivenUp
    <3>1. h \in Nat /\ walkStart # 0 /\ walkStart \in Nat /\ walkStart <= h
      BY <2>1, <2>2 DEF LedgerInv, LedgerTypeOK
    <3>2. low <= walkStart
      BY <3>1 DEF LedgerInv, StartKnown
    <3>3. walkCursor > 0 /\ h < walkCursor
      BY <3>1, <3>2 DEF RangeFrom, Larger, LedgerInv, LedgerTypeOK
    <3> QED BY <3>1, <3>3 DEF LedgerInv, CursorHonest
  <2> QED BY <2>3, <2>6, <2>7, <2>8 DEF LedgerInv
<1> QED BY <1>1, <1>2

\* The first part of a batch that answered, up to its end or up to where a call
\* failed, whatever inserts failed.
LEMMA WalkedInv ==
  ASSUME LedgerInv, NEW end \in from..to, NEW t \in LedgerReplies, NEW failed,
         WalkTo(end, t, failed), ledgerFaults' \in 0..MaxLedgerFaults
  PROVE  LedgerInv'
<1> USE TokenLedgerAssumption DEF ledgerEnv
<1>1. /\ ledgerStep = "walk" /\ walkDone' = end /\ ledgerStep' \in {"calls", "cursor"}
      /\ missed' = missed \union {h \in from..end - 1 : h > t}
      /\ UNCHANGED <<ledgerEnv, low, high, calls, walkCursor, from, to, walkStart>>
  BY DEF WalkTo
<1>2. /\ from \in 1..ledgerTip /\ to \in 0..ledgerTip + 1 /\ walkDone = from /\ end \in Int
      /\ t \in 0..ledgerTip
  BY <1>1 DEF LedgerInv, LedgerTypeOK, StartKnown, InBatch, LedgerReplies
<1>3. /\ ledger' \subseteq Transfers \intersect (1..ledgerTip) /\ unstored' \subseteq Transfers
      /\ ledger \subseteq ledger' /\ unstored \subseteq unstored'
      /\ Returned(from, end - 1, t) \subseteq ledger' \union unstored'
  <2>1. end - 1 \in Int /\ from \in Int
    BY <1>2
  <2>2. RecordTransfers(Returned(from, end - 1, t), failed)
    BY DEF WalkTo
  <2> QED BY <1>2, <2>1, <2>2, RecordBounds DEF LedgerInv
<1>4. missed' \subseteq 1..ledgerTip /\ missed \subseteq missed'
  <2>1. from..end - 1 \subseteq 1..ledgerTip
    BY <1>2 DEF LedgerInv, LedgerTypeOK
  <2>2. missed \subseteq 1..ledgerTip
    BY DEF LedgerInv, LedgerTypeOK
  <2> QED BY <1>1, <2>1, <2>2
<1>5. LedgerTypeOK'
  BY <1>1, <1>2, <1>3, <1>4 DEF LedgerInv, LedgerTypeOK, LedgerSteps
<1>6. CursorHonest'
  BY <1>1, <1>3, <1>4 DEF LedgerInv, CursorHonest, GivenUp
<1>7. BatchHonest'
  <2> SUFFICES ASSUME NEW h \in Transfers, walkStart <= h, h < end
               PROVE  h \in ledger' \union missed' \union unstored'
    BY <1>1 DEF BatchHonest, GivenUp
  <2>1. h \in Int
    OBVIOUS
  <2>2. CASE h < from
    BY <1>1, <1>2, <1>3, <1>4, <2>2 DEF LedgerInv, BatchHonest, InBatch, GivenUp
  <2>3. CASE h >= from /\ h <= t
    <3>1. h \in Returned(from, end - 1, t)
      BY <1>2, <2>1, <2>3 DEF Returned
    <3> QED BY <1>3, <3>1
  <2>4. CASE h >= from /\ h > t
    BY <1>1, <1>2, <2>1, <2>4
  <2> QED BY <1>2, <2>1, <2>2, <2>3, <2>4
<1>8. StartKnown'
  BY <1>1 DEF LedgerInv, StartKnown, InBatch
<1> QED BY <1>5, <1>6, <1>7, <1>8 DEF LedgerInv

LEMMA WalkInv ==
  ASSUME LedgerInv, Walk
  PROVE  LedgerInv'
<1>1. to \in from..to
  BY DEF LedgerInv, LedgerTypeOK
<1>2. ledgerFaults' \in 0..MaxLedgerFaults
  BY DEF Walk, LedgerInv, LedgerTypeOK
<1> QED BY <1>1, <1>2, WalkedInv DEF Walk

LEMMA WalkFaultInv ==
  ASSUME LedgerInv, WalkBreaks \/ WalkInsertFails
  PROVE  LedgerInv'
<1>1. ledgerFaults' \in 0..MaxLedgerFaults
  BY TokenLedgerAssumption DEF WalkBreaks, WalkInsertFails, LedgerFault, LedgerInv, LedgerTypeOK
<1>2. PICK end \in from..to, t \in LedgerReplies, failed \in SUBSET Transfers : WalkTo(end, t, failed)
  <2>1. CASE WalkBreaks
    <3>1. PICK end \in from..to - 1, t \in LedgerReplies : WalkTo(end, t, {})
      BY <2>1 DEF WalkBreaks
    <3>2. end \in from..to
      BY <3>1 DEF LedgerInv, LedgerTypeOK
    <3> QED BY <3>1, <3>2
  <2>2. CASE WalkInsertFails
    <3>1. PICK t \in LedgerReplies, h \in Transfers : WalkTo(to, t, {h})
      BY <2>2 DEF WalkInsertFails
    <3>2. to \in from..to
      BY DEF LedgerInv, LedgerTypeOK
    <3> QED BY <3>1, <3>2
  <2> QED BY <2>1, <2>2
<1> QED BY <1>1, <1>2, WalkedInv

\* The cursor takes over what the batch has answered for.
LEMMA SetCursorInv ==
  ASSUME LedgerInv, SetCursor
  PROVE  LedgerInv'
<1> USE TokenLedgerAssumption DEF SetCursor, ledgerEnv, walkBatch, ledgerHist
<1>1. LedgerTypeOK'
  BY DEF LedgerInv, LedgerTypeOK, LedgerSteps
<1>2. CursorHonest' /\ BatchHonest' /\ StartKnown'
  BY DEF LedgerInv, CursorHonest, BatchHonest, StartKnown, InBatch, GivenUp
<1> QED BY <1>1, <1>2 DEF LedgerInv

\* The live pass only adds to what is accounted for.
LEMMA CallsInv ==
  ASSUME LedgerInv, SyncCalls \/ CallsFallShort
  PROVE  LedgerInv'
<1> USE TokenLedgerAssumption DEF ledgerEnv, walkBatch
<1>1. PICK t \in 0..ledgerTip, failed \in SUBSET Transfers : CallsTo(t, failed)
  <2>1. CASE SyncCalls
    BY <2>1 DEF SyncCalls, LedgerReplies, LedgerInv, LedgerTypeOK
  <2>2. CASE CallsFallShort
    <3>1. PICK t \in calls..ledgerTip, h \in Transfers : CallsTo(t, {h})
      BY <2>2 DEF CallsFallShort
    <3>2. t \in 0..ledgerTip
      BY <3>1 DEF LedgerInv, LedgerTypeOK
    <3> QED BY <3>1, <3>2
  <2> QED BY <2>1, <2>2
<1>2. ledgerFaults' \in 0..MaxLedgerFaults
  BY DEF SyncCalls, CallsFallShort, LedgerFault, LedgerInv, LedgerTypeOK
<1>3. /\ ledger' \subseteq Transfers \intersect (1..ledgerTip) /\ unstored' \subseteq Transfers
      /\ ledger \subseteq ledger' /\ unstored \subseteq unstored'
  <2>1. calls + 1 \in Int /\ t \in Int /\ RecordTransfers(Returned(calls + 1, t, t), failed)
    BY <1>1 DEF CallsTo, LedgerInv, LedgerTypeOK
  <2> QED BY <1>1, <2>1, RecordBounds DEF LedgerInv
<1>4. /\ calls' \in 0..ledgerTip /\ ledgerStep' = "blocks"
      /\ UNCHANGED <<ledgerEnv, low, high, walkCursor, walkBatch, walkStart, missed>>
  BY <1>1 DEF CallsTo, Larger, LedgerInv, LedgerTypeOK
<1>5. LedgerTypeOK'
  BY <1>2, <1>3, <1>4 DEF LedgerInv, LedgerTypeOK, LedgerSteps
<1>6. CursorHonest' /\ BatchHonest' /\ StartKnown'
  BY <1>3, <1>4 DEF LedgerInv, CursorHonest, BatchHonest, StartKnown, InBatch, GivenUp
<1> QED BY <1>5, <1>6 DEF LedgerInv

LEMMA FaultInv ==
  ASSUME LedgerInv, CallFails \/ LedgerRestart
  PROVE  LedgerInv'
<1> USE TokenLedgerAssumption
        DEF CallFails, LedgerRestart, LedgerFault, ledgerEnv, ledgerDurable, walkBatch, ledgerHist
<1>1. from' \in 0..ledgerTip /\ to' \in 0..ledgerTip + 1 /\ walkDone' \in from'..to'
  BY DEF LedgerInv, LedgerTypeOK
<1>2. ledgerStep' \in LedgerSteps \ {"walk", "cursor"} /\ ledgerFaults' \in 0..MaxLedgerFaults
  BY DEF LedgerInv, LedgerTypeOK, LedgerSteps
<1>3. LedgerTypeOK'
  BY <1>1, <1>2 DEF LedgerInv, LedgerTypeOK
<1>4. CursorHonest' /\ BatchHonest' /\ StartKnown'
  BY <1>2 DEF LedgerInv, CursorHonest, BatchHonest, StartKnown, InBatch, GivenUp
<1> QED BY <1>3, <1>4 DEF LedgerInv

LEMMA LedgerStepInv == LedgerInv /\ [LedgerNext]_ledgerVars => LedgerInv'
<1> SUFFICES ASSUME LedgerInv, [LedgerNext]_ledgerVars PROVE LedgerInv'
  OBVIOUS
<1>1. CASE LedgerGrow \/ LedgerCatchUp
  BY <1>1, ChainStepInv
<1>2. CASE LedgerPass
  BY <1>2, SyncBlocksInv, NextBatchInv, WalkInv, SetCursorInv, CallsInv DEF LedgerPass
<1>3. CASE WalkBreaks \/ WalkInsertFails \/ CallsFallShort
  BY <1>3, WalkFaultInv, CallsInv
<1>4. CASE CallFails \/ LedgerRestart
  BY <1>4, FaultInv
<1>5. CASE UNCHANGED ledgerVars
  <2> USE <1>5 DEF ledgerVars, ledgerEnv, ledgerDurable, walkBatch, ledgerHist
  <2>1. LedgerTypeOK'
    BY DEF LedgerInv, LedgerTypeOK
  <2>2. CursorHonest' /\ BatchHonest' /\ StartKnown'
    BY DEF LedgerInv, CursorHonest, BatchHonest, StartKnown, InBatch, GivenUp
  <2> QED BY <2>1, <2>2 DEF LedgerInv
<1> QED BY <1>1, <1>2, <1>3, <1>4, <1>5 DEF LedgerNext

\* The invariant holds for any transfers, batch size, lag and number of faults.
THEOREM LedgerInvariant == LedgerSafety => []LedgerInv
<1> QED BY LedgerInitInv, LedgerStepInv, PTL DEF LedgerSafety

\* The types hold.
THEOREM LedgerTypes == LedgerSafety => []LedgerTypeOK
<1>1. LedgerInv => LedgerTypeOK
  BY DEF LedgerInv
<1> QED BY <1>1, LedgerInvariant, PTL

\* The cursor of backfillTokenTransfers passes over no height that no replica
\* has answered for, and over none whose transfers are missing for any other
\* reason than a lagging answer or a failed insert.
THEOREM LedgerCursorHonest == LedgerSafety => []CursorHonest
<1>1. LedgerInv => CursorHonest
  BY DEF LedgerInv
<1> QED BY <1>1, LedgerInvariant, PTL

\* The batch in hand begins at the cursor or above it.
CursorBehind == InBatch => walkCursor <= from

\* What is recorded or given up stays so, a walk begins once, and its cursor never
\* goes back: a batch that begins at the lowest block begins above it.
LEMMA LedgerGoesForward ==
  ASSUME LedgerInv, CursorBehind, [LedgerNext]_ledgerVars
  PROVE  /\ CursorBehind'
         /\ ledger \subseteq ledger' /\ GivenUp \subseteq GivenUp'
         /\ walkStart > 0 => walkStart' = walkStart
         /\ walkCursor <= walkCursor'
<1> USE DEF InBatch, GivenUp
<1>1. /\ walkCursor \in Nat /\ low \in Nat /\ from \in Nat /\ walkDone \in Nat /\ from <= walkDone
      /\ walkStart \in Nat
  BY TokenLedgerAssumption DEF LedgerInv, LedgerTypeOK
<1>2. CASE NextBatch
  <2>1. /\ UNCHANGED <<walkCursor, ledger, missed, unstored>> /\ ledgerStep = "range"
        /\ walkStart > 0 => walkStart' = walkStart
    BY <1>1, <1>2 DEF NextBatch, ledgerDurable
  <2>2. CASE RangeLeft
    <3>1. from' = RangeFrom
      BY <1>2, <2>2 DEF NextBatch
    <3>2. RangeFrom >= walkCursor
      BY <1>1 DEF RangeFrom, Larger
    <3> QED BY <1>1, <2>1, <3>1, <3>2 DEF CursorBehind
  <2>3. CASE ~ RangeLeft
    <3>1. ledgerStep' = "calls"
      BY <1>2, <2>3 DEF NextBatch
    <3> QED BY <1>1, <2>1, <3>1 DEF CursorBehind
  <2> QED BY <2>2, <2>3
<1>3. CASE Walk \/ WalkBreaks \/ WalkInsertFails
  <2>1. PICK end, t, failed : WalkTo(end, t, failed)
    BY <1>3, Zenon DEF Walk, WalkBreaks, WalkInsertFails
  <2>2. /\ UNCHANGED <<walkCursor, walkStart, from>> /\ ledgerStep = "walk"
        /\ missed \subseteq missed' /\ RecordTransfers(Returned(from, end - 1, t), failed)
    BY <2>1 DEF WalkTo
  <2>3. ledger \subseteq ledger' /\ unstored \subseteq unstored'
    BY <2>2 DEF RecordTransfers
  <2> QED BY <1>1, <2>2, <2>3 DEF CursorBehind
<1>4. CASE SetCursor
  <2>1. /\ UNCHANGED <<ledger, missed, unstored, walkStart>> /\ walkCursor' = walkDone
        /\ ledgerStep = "cursor" /\ ledgerStep' = "calls"
    BY <1>4 DEF SetCursor, ledgerHist
  <2> QED BY <1>1, <2>1 DEF CursorBehind
<1>5. CASE SyncCalls \/ CallsFallShort
  <2>1. PICK t, failed : CallsTo(t, failed)
    BY <1>5, Zenon DEF SyncCalls, CallsFallShort
  <2>2. /\ UNCHANGED <<walkCursor, walkStart, missed>> /\ ledgerStep' = "blocks"
        /\ RecordTransfers(Returned(calls + 1, t, t), failed)
    BY <2>1 DEF CallsTo
  <2>3. ledger \subseteq ledger' /\ unstored \subseteq unstored'
    BY <2>2 DEF RecordTransfers
  <2> QED BY <1>1, <2>2, <2>3 DEF CursorBehind
<1>6. CASE SyncBlocks \/ CallFails \/ LedgerRestart
  <2>1. UNCHANGED <<walkCursor, ledger, walkStart, missed, unstored>> /\ ~ InBatch'
    BY <1>6 DEF SyncBlocks, CallFails, LedgerRestart, ledgerDurable, ledgerHist
  <2> QED BY <1>1, <2>1 DEF CursorBehind
<1>7. CASE LedgerGrow \/ LedgerCatchUp \/ UNCHANGED ledgerVars
  <2>1. UNCHANGED <<walkCursor, ledger, walkStart, missed, unstored, from, ledgerStep>>
    BY <1>7 DEF LedgerGrow, LedgerCatchUp, ledgerVars, ledgerDurable, ledgerHist, walkBatch
  <2> QED BY <1>1, <2>1 DEF CursorBehind
<1> QED BY <1>2, <1>3, <1>4, <1>5, <1>6, <1>7 DEF LedgerNext, LedgerPass

\* A step of the walk, of the other passes or of the world is a step of Backfill.
LEMMA LedgerStepKeeps ==
  ASSUME LedgerInv, LedgerInv', CursorBehind, [LedgerNext]_ledgerVars
  PROVE  LedgerPromise!BackfillStep
<1>1. /\ ledger \subseteq ledger' /\ GivenUp \subseteq GivenUp'
      /\ walkStart > 0 => walkStart' = walkStart
      /\ walkCursor <= walkCursor'
  BY LedgerGoesForward
<1>2. /\ walkCursor \in Nat /\ walkCursor' \in Nat /\ walkStart \in Nat
      /\ walkCursor > 0 => walkStart > 0
  BY TokenLedgerAssumption DEF LedgerInv, LedgerTypeOK, StartKnown
<1>3. ledger' \subseteq Transfers
  BY DEF LedgerInv, LedgerTypeOK
<1>4. PassedTransfers \subseteq PassedTransfers'
  <2> SUFFICES ASSUME NEW h \in Transfers, walkCursor > 0, walkStart <= h, h < walkCursor
               PROVE  walkCursor' > 0 /\ walkStart' <= h /\ h < walkCursor'
    BY DEF PassedTransfers
  <2>1. h \in Nat
    BY TokenLedgerAssumption
  <2> QED BY <1>1, <1>2, <2>1
<1>5. PassedTransfers' \subseteq ledger' \union (GivenUp' \intersect Transfers)
  BY DEF LedgerInv, CursorHonest, PassedTransfers
<1> QED BY <1>1, <1>3, <1>4, <1>5 DEF LedgerPromise!BackfillStep

\* backfillTokenTransfers keeps the promise of Backfill, for any transfers, batch
\* size, lag and number of faults.
THEOREM LedgerKeepsItsPromise == LedgerSafety => LedgerKeepsPromise
<1>1. LedgerInit => LedgerPromise!BackfillInit /\ CursorBehind
  BY DEF LedgerInit, LedgerPromise!BackfillInit, PassedTransfers, CursorBehind, InBatch, GivenUp
<1>2. LedgerInv /\ CursorBehind /\ [LedgerNext]_ledgerVars => CursorBehind'
  BY LedgerGoesForward
<1>3. LedgerInv /\ LedgerInv' /\ CursorBehind /\ [LedgerNext]_ledgerVars =>
        [LedgerPromise!BackfillStep]_(LedgerPromise!backfillVars)
  BY LedgerStepKeeps
<1> QED BY <1>1, <1>2, <1>3, LedgerInvariant, PTL
        DEF LedgerSafety, LedgerKeepsPromise, LedgerPromise!BackfillSpec

-----------------------------------------------------------------------------
(***************************************************************************)
(* HistoryRepair: its types, and that the cursor of the argument repair    *)
(* passes over no row that no call has answered for.                       *)
(***************************************************************************)

RepairInv == RepairTypeOK /\ ArgsHonest

-----------------------------------------------------------------------------
\* A batch is taken from the top: with a row, it holds every row above it.
LEMMA NewestUpward ==
  ASSUME NEW S \in SUBSET (0..RepairHeight), NEW m \in Newest(S), NEW h \in S, h >= m
  PROVE  h \in Newest(S)
<1>1. IsFiniteSet(0..RepairHeight)
  BY RepairAssumption, FS_Interval
<1>2. IsFiniteSet({g \in S : g > m})
  BY <1>1, FS_Subset
<1>3. {g \in S : g > h} \subseteq {g \in S : g > m}
  <2>1. m \in S
    BY DEF Newest
  <2>2. SUFFICES ASSUME NEW g \in S, g > h
                 PROVE  g > m
    OBVIOUS
  <2>3. g \in Int /\ h \in Int /\ m \in Int
    BY <2>1, RepairAssumption
  <2> QED BY <2>2, <2>3
<1>4. Cardinality({g \in S : g > h}) <= Cardinality({g \in S : g > m})
  BY <1>2, <1>3, FS_Subset
<1>5. IsFiniteSet({g \in S : g > h})
  BY <1>2, <1>3, FS_Subset
<1>6. Cardinality({g \in S : g > m}) < RepairSize
  BY DEF Newest
<1>7. /\ Cardinality({g \in S : g > m}) \in Nat
      /\ Cardinality({g \in S : g > h}) \in Nat
  BY <1>2, <1>5, FS_CardinalityType
<1> QED BY <1>4, <1>6, <1>7, RepairAssumption DEF Newest

-----------------------------------------------------------------------------
LEMMA RepairInitInv == RepairInit => RepairInv
  BY RepairAssumption DEF RepairInit, RepairInv, RepairTypeOK, ArgsHonest

\* backfillTransactions keeps the types.
LEMMA FillGasInv ==
  ASSUME RepairInv, NEW a \in Int, FillGas(a), repairFaults' \in 0..MaxRepairFaults
  PROVE  RepairInv'
<1>1. gas' \subseteq OldRows \ {0}
  BY DEF FillGas, Hidden, Answering, Newest, HeightsMissing, RepairInv, RepairTypeOK
<1> QED BY <1>1 DEF FillGas, RepairInv, RepairTypeOK, ArgsHonest

\* backfillValopers keeps the types.
LEMMA FillMonikersInv ==
  ASSUME RepairInv, NEW a \in Int, FillMonikers(a), repairFaults' \in 0..MaxRepairFaults
  PROVE  RepairInv'
<1>1. monikers' \subseteq ValoperRows
  BY DEF FillMonikers, Hidden, Answering, Newest, RegistrationsMissing, RepairInv, RepairTypeOK
<1> QED BY <1>1 DEF FillMonikers, RepairInv, RepairTypeOK, ArgsHonest

\* backfillMessageArgs keeps the types and an honest cursor, wherever its calls
\* or its writes fail.
LEMMA FillArgsInv ==
  ASSUME RepairInv, NEW a \in Int, NEW failed, NEW saved \in BOOLEAN,
         FillArgs(a, failed, saved), repairFaults' \in 0..MaxRepairFaults
  PROVE  RepairInv'
<1> DEFINE batch == Newest(ArgsLeft)
           took  == Answering(batch, a)
<1> USE RepairAssumption
<1>1. PICK unknown \in Hidden(took) :
        /\ args' = args \union (took \ (unknown \union failed))
        /\ notSeen' = notSeen \union unknown
        /\ notFilled' = notFilled \union (took \intersect failed)
        /\ argsCursor' = IF took = {} \/ ~saved THEN argsCursor ELSE CursorOf(took)
  BY DEF FillArgs
<1>2. ArgsLeft \subseteq 0..RepairHeight /\ ArgsLeft \subseteq OldRows
  BY DEF ArgsLeft
<1>3. took \subseteq ArgsLeft /\ unknown \subseteq took
  BY DEF Answering, Newest, Hidden
<1>4. \/ argsCursor' = argsCursor
      \/ took # {} /\ argsCursor' = Min(took)
  BY <1>1, Zenon DEF CursorOf
<1>5. RepairTypeOK'
  <2>1. argsCursor' \in 0..RepairHeight + 1
    <3>1. CASE argsCursor' = argsCursor
      BY <3>1 DEF RepairInv, RepairTypeOK
    <3>2. CASE took # {} /\ argsCursor' = Min(took)
      <4>1. Min(took) \in took
        BY <1>2, <1>3, <3>2, MinOfNat
      <4>2. Min(took) \in 0..RepairHeight
        BY <1>2, <1>3, <4>1, Zenon
      <4>3. 0..RepairHeight \subseteq 0..RepairHeight + 1
        OBVIOUS
      <4> QED BY <3>2, <4>2, <4>3, Zenon
    <3> QED BY <1>4, <3>1, <3>2
  <2>2. args' \subseteq OldRows /\ notSeen' \union notFilled' \subseteq OldRows
    BY <1>1, <1>2, <1>3 DEF RepairInv, RepairTypeOK
  <2> HIDE DEF took
  <2> QED BY <2>1, <2>2 DEF FillArgs, RepairInv, RepairTypeOK
<1>6. ArgsHonest'
  <2> SUFFICES ASSUME NEW h \in OldRows, h >= argsCursor'
               PROVE  h \in args' \union notSeen' \union notFilled'
    BY DEF ArgsHonest
  <2>1. args \subseteq args' /\ notSeen \subseteq notSeen' /\ notFilled \subseteq notFilled'
    BY <1>1
  <2>2. CASE h >= argsCursor
    BY <2>1, <2>2 DEF RepairInv, ArgsHonest
  <2>3. CASE h \in args
    BY <2>1, <2>3
  <2>4. CASE ~(h >= argsCursor) /\ h \notin args
    <3>1. took # {} /\ argsCursor' = Min(took)
      BY <1>4, <2>4
    <3>2. Min(took) \in took
      BY <1>2, <1>3, <3>1, MinOfNat
    <3>3. h \in ArgsLeft
      BY <2>4 DEF ArgsLeft, RepairInv, RepairTypeOK
    <3>4. h \in batch
      <4>1. Min(took) \in batch
        BY <3>2 DEF Answering
      <4> QED BY <1>2, <3>1, <3>3, <4>1, NewestUpward
    <3>5. h \in took
      <4>1. \A g \in took : g > a
        BY DEF Answering
      <4>2. Min(took) > a
        BY <3>2, <4>1, Zenon
      <4>3. Min(took) \in 0..RepairHeight
        BY <1>2, <1>3, <3>2, Zenon
      <4>4. h \in Int /\ h >= Min(took)
        BY <1>2, <3>1, <3>3
      <4>5. h > a
        <5> DEFINE m == Min(took)
        <5>1. m > a /\ m \in Int /\ h >= m
          BY <4>2, <4>3, <4>4
        <5> HIDE DEF m
        <5> QED BY <4>4, <5>1
      <4> QED BY <3>4, <4>5, Zenon DEF Answering
    <3> HIDE DEF took
    <3> QED BY <1>1, <3>5
  <2> QED BY <2>2, <2>3, <2>4
<1> QED BY <1>5, <1>6 DEF RepairInv

LEMMA RepairStepInv == RepairInv /\ [RepairNext]_repairVars => RepairInv'
<1> SUFFICES ASSUME RepairInv, [RepairNext]_repairVars PROVE RepairInv'
  OBVIOUS
<1>1. repairFaults \in 0..MaxRepairFaults
  BY DEF RepairInv, RepairTypeOK
<1>2. CASE RepairCatchUp
  <2>1. repairSlow' \in 0..RepairHeight
    BY <1>2, RepairAssumption DEF RepairCatchUp, RepairInv, RepairTypeOK
  <2>2. RepairTypeOK'
    BY <1>2, <2>1 DEF RepairCatchUp, RepairInv, RepairTypeOK
  <2>3. ArgsHonest'
    BY <1>2 DEF RepairCatchUp, RepairInv, ArgsHonest
  <2> QED BY <2>2, <2>3 DEF RepairInv
<1>3. CASE RepairPass
  <2>1. repairFaults' \in 0..MaxRepairFaults
    BY <1>1, <1>3 DEF RepairPass
  <2>2. FillGas(-1) \/ FillMonikers(-1) \/ FillArgs(-1, {}, TRUE)
    BY <1>3 DEF RepairPass
  <2>3. -1 \in Int
    OBVIOUS
  <2>4. CASE FillGas(-1)
    BY <2>1, <2>3, <2>4, FillGasInv
  <2>5. CASE FillMonikers(-1)
    BY <2>1, <2>3, <2>5, FillMonikersInv
  <2>6. CASE FillArgs(-1, {}, TRUE)
    BY <2>1, <2>3, <2>6, FillArgsInv
  <2> QED BY <2>2, <2>4, <2>5, <2>6
<1>4. CASE WriteFails
  <2>1. repairFaults' \in 0..MaxRepairFaults
    BY <1>1, <1>4, RepairAssumption DEF WriteFails
  <2>2. PICK a \in 0..RepairHeight :
          FillGas(a) \/ FillMonikers(a) \/ \E saved \in BOOLEAN : FillArgs(a, {a + 1}, saved)
    BY <1>4 DEF WriteFails
  <2>3. a \in Int
    BY RepairAssumption
  <2> QED BY <2>1, <2>2, <2>3, FillGasInv, FillMonikersInv, FillArgsInv
<1>5. CASE RepairRestart
  BY <1>5, RepairAssumption DEF RepairRestart, RepairInv, RepairTypeOK, ArgsHonest
<1>6. CASE UNCHANGED repairVars
  BY <1>6 DEF repairVars, RepairInv, RepairTypeOK, ArgsHonest
<1> QED BY <1>2, <1>3, <1>4, <1>5, <1>6 DEF RepairNext

\* The types hold for any rows, batch size, lag and number of faults.
THEOREM RepairTypes == RepairSafety => []RepairTypeOK
<1>1. RepairInv => RepairTypeOK
  BY DEF RepairInv
<1> QED BY <1>1, RepairInitInv, RepairStepInv, PTL DEF RepairSafety

\* The cursor of backfillMessageArgs passes over no row that a call has not
\* answered for, for any rows, batch size, lag and number of faults.
THEOREM ArgsCursorIsHonest == RepairSafety => []ArgsHonest
<1>1. RepairInv => ArgsHonest
  BY DEF RepairInv
<1> QED BY <1>1, RepairInitInv, RepairStepInv, PTL DEF RepairSafety


\* A batch lies below the cursor, so the cursor comes down wherever the batch
\* breaks off, and what is known of a row stays known.
LEMMA FillArgsGoesDown ==
  ASSUME RepairInv, NEW a \in Int, NEW failed, NEW saved \in BOOLEAN, FillArgs(a, failed, saved)
  PROVE  /\ args \subseteq args' /\ notSeen \subseteq notSeen' /\ notFilled \subseteq notFilled'
         /\ argsCursor' <= argsCursor
<1> DEFINE took == Answering(Newest(ArgsLeft), a)
<1>1. PICK unknown \in Hidden(took) :
        /\ args' = args \union (took \ (unknown \union failed))
        /\ notSeen' = notSeen \union unknown
        /\ notFilled' = notFilled \union (took \intersect failed)
        /\ argsCursor' = IF took = {} \/ ~saved THEN argsCursor ELSE CursorOf(took)
  BY DEF FillArgs
<1>2. took \subseteq ArgsLeft /\ ArgsLeft \subseteq 0..RepairHeight /\ argsCursor \in Nat
  <2>1. took \subseteq ArgsLeft
    BY DEF Answering, Newest
  <2>2. ArgsLeft \subseteq 0..RepairHeight
    BY RepairAssumption DEF ArgsLeft
  <2>3. argsCursor \in Nat
    BY RepairAssumption DEF RepairInv, RepairTypeOK
  <2> QED BY <2>1, <2>2, <2>3
<1>3. \A h \in took : h < argsCursor
  BY <1>2 DEF ArgsLeft
<1> HIDE DEF took
<1>4. CASE argsCursor' = argsCursor
  BY <1>1, <1>2, <1>4
<1>5. CASE took # {} /\ argsCursor' = Min(took)
  <2>1. took \in SUBSET Nat
    BY <1>2, RepairAssumption
  <2>2. Min(took) \in took
    BY <1>5, <2>1, MinOfNat
  <2>3. argsCursor' < argsCursor /\ argsCursor' \in Nat
    BY <1>3, <1>5, <2>1, <2>2, Zenon
  <2> QED BY <1>1, <1>2, <2>3
<1> QED BY <1>1, <1>4, <1>5, Zenon DEF CursorOf

\* A step of the repairs is a step of Backfill.
LEMMA RepairStepKeeps ==
  ASSUME RepairInv, RepairInv', [RepairNext]_repairVars
  PROVE  ArgsPromise!BackfillStep
<1>1. /\ args \subseteq args' /\ notSeen \subseteq notSeen' /\ notFilled \subseteq notFilled'
      /\ argsCursor' <= argsCursor
  <2>1. argsCursor \in Nat
    BY RepairAssumption DEF RepairInv, RepairTypeOK
  <2>2. CASE UNCHANGED <<args, argsCursor, notSeen, notFilled>>
    BY <2>1, <2>2
  <2>3. CASE \E a \in Int, failed \in SUBSET Int, saved \in BOOLEAN : FillArgs(a, failed, saved)
    BY <2>3, FillArgsGoesDown
  <2>4. CASE RepairPass
    <3>1. -1 \in Int /\ {} \in SUBSET Int /\ TRUE \in BOOLEAN
      OBVIOUS
    <3>2. FillGas(-1) \/ FillMonikers(-1) => UNCHANGED <<args, argsCursor, notSeen, notFilled>>
      BY DEF FillGas, FillMonikers
    <3> QED BY <2>2, <2>3, <2>4, <3>1, <3>2 DEF RepairPass
  <2>5. CASE WriteFails
    <3>1. PICK a \in 0..RepairHeight :
            FillGas(a) \/ FillMonikers(a) \/ \E saved \in BOOLEAN : FillArgs(a, {a + 1}, saved)
      BY <2>5 DEF WriteFails
    <3>2. a \in Int /\ {a + 1} \in SUBSET Int
      BY RepairAssumption
    <3>3. FillGas(a) \/ FillMonikers(a) => UNCHANGED <<args, argsCursor, notSeen, notFilled>>
      BY DEF FillGas, FillMonikers
    <3> QED BY <2>2, <2>3, <3>1, <3>2, <3>3
  <2>6. CASE RepairCatchUp \/ RepairRestart \/ UNCHANGED repairVars
    BY <2>2, <2>6 DEF RepairCatchUp, RepairRestart, repairVars
  <2> QED BY <2>4, <2>5, <2>6 DEF RepairNext
<1>2. argsCursor \in Nat /\ argsCursor' \in Nat /\ OldRows \subseteq Nat
  BY RepairAssumption DEF RepairInv, RepairTypeOK
<1>3. /\ args' \subseteq OldRows /\ notSeen' \union notFilled' \subseteq OldRows
      /\ \A h \in OldRows : h >= argsCursor' => h \in args' \union notSeen' \union notFilled'
  BY DEF RepairInv, RepairTypeOK, ArgsHonest
<1>4. \A h \in OldRows : h >= argsCursor => h >= argsCursor'
  BY <1>1, <1>2
<1> QED BY <1>1, <1>3, <1>4 DEF ArgsPromise!BackfillStep

\* backfillMessageArgs keeps the promise of Backfill, for any rows, batch size, lag
\* and number of faults.
THEOREM ArgsKeepTheirPromise == RepairSafety => ArgsKeepPromise
<1>1. RepairInit => ArgsPromise!BackfillInit
  <2>1. \A h \in OldRows : ~ (h >= RepairHeight + 1)
    BY RepairAssumption
  <2> QED BY <2>1 DEF RepairInit, ArgsPromise!BackfillInit
<1>2. RepairInv /\ RepairInv' /\ [RepairNext]_repairVars =>
        [ArgsPromise!BackfillStep]_(ArgsPromise!backfillVars)
  BY RepairStepKeeps
<1> QED BY <1>1, <1>2, RepairInitInv, RepairStepInv, PTL
        DEF RepairSafety, ArgsKeepPromise, ArgsPromise!BackfillSpec

-----------------------------------------------------------------------------
(***************************************************************************)
(* CoinBackfill: that every transfer that no fault hides for good is in    *)
(* the ledger once the walk is done.                                       *)
(*                                                                         *)
(* CoinsComplete speaks of the flag that ends the walk. The invariant says *)
(* what is accounted for on the way there: everything up to the cursor     *)
(* (CoinWalkInv), everything up to the end of the window in hand           *)
(* (CoinWindowInv), and from the flag on everything below the highest row  *)
(* of the ledger (CoinLiveInv), because the live pass starts there.        *)
(***************************************************************************)

\* ---- The coin ledger and its backfill ----

\* In the ledger, or known not to be.
Accounted(x) == x \in coins \/ Excused(x)

\* The window in hand is accounted for up to where it ends.
CoinWindowInv ==
  /\ coinStep # "save" => coinNext = 0
  /\ coinStep = "save" => windows < WindowsPerPass
  /\ \A x \in CoinTxs : 0 < x[1] /\ x[1] <= coinNext => Accounted(x)

\* So is all the walk has passed.
CoinWalkInv == \A x \in CoinTxs : 0 < x[1] /\ x[1] <= coinCursor => Accounted(x)

\* Once it is done the live pass leaves no gap below its own rows.
CoinLiveInv ==
  /\ \A y \in coinRows : y[1] <= coinTop
  /\ coinDone => \A x \in CoinTxs, y \in coinRows :
                   0 < x[1] /\ x[1] <= y[1] => Accounted(x)

CoinInv == CoinTypeOK /\ CoinWindowInv /\ CoinWalkInv /\ CoinLiveInv

\* What is accounted for stays so.
LEMMA AccountsStay ==
  ASSUME coins \subseteq coins', hidden \subseteq hidden', skipped \subseteq skipped',
         coinLost \subseteq coinLost'
  PROVE  \A x \in CoinTxs : Accounted(x) => Accounted(x)'
BY DEF Accounted, Excused, NotStored

\* The live cursor is at or above what has a row, and nothing else.
LEMMA CoinLiveOf ==
  ASSUME CoinTypeOK, CoinLiveInv
  PROVE  /\ CoinLive \in -1..coinTop
         /\ \A y \in coinRows : y[1] <= CoinLive
         /\ \A x \in CoinTxs : x[1] <= CoinLive => \E y \in coinRows : x[1] <= y[1]
<1>1. coinRows \subseteq (0..coinTop) \X Nat /\ coinTop \in Nat
  BY CoinAssumption DEF CoinTypeOK, CoinLiveInv
<1>2. CASE coinRows = {}
  BY <1>1, <1>2, CoinAssumption DEF CoinLive
<1>3. CASE coinRows # {}
  <2>1. CoinLive = Max(HeightsOf(coinRows))
    BY <1>3 DEF CoinLive
  <2>2. CoinLive \in 0..coinTop /\ \E y \in coinRows : y[1] = CoinLive
    BY <1>1, <1>3, <2>1, MaxOfHeights
  <2>3. \A y \in coinRows : y[1] <= CoinLive
    BY <1>1, <1>3, <2>1, MaxOfHeights
  <2> QED BY <1>1, <2>2, <2>3
<1> QED BY <1>2, <1>3

LEMMA CoinInitInv ==
  ASSUME CoinInit
  PROVE  CoinInv
<1>1. CoinTypeOK
  <2>1. coinRows \subseteq Rowed
    BY DEF CoinInit
  <2>2. coinDone \in BOOLEAN
    BY DEF CoinInit
  <2> QED BY <2>1, <2>2, CoinAssumption DEF CoinInit, CoinTypeOK, CoinSteps
<1>2. CoinWindowInv /\ CoinWalkInv /\ CoinLiveInv
  BY CoinAssumption DEF CoinInit, CoinWindowInv, CoinWalkInv, CoinLiveInv
<1> QED BY <1>1, <1>2 DEF CoinInv

LEMMA CoinChainStep ==
  ASSUME CoinInv, CoinGrow \/ CoinCatchUp
  PROVE  CoinInv'
<1> USE DEF CoinInv
<1>1. /\ coinTop' \in 1..CoinHeight /\ coinTop <= coinTop' /\ coinTop \in Nat
      /\ coinBehind' \in 1..coinTop'
      /\ UNCHANGED <<coinFaults, coins, coinRows, coinCursor, coinDone, coinStep,
                     finish, windows, coinNext, hidden, skipped, coinLost>>
  BY CoinAssumption DEF CoinGrow, CoinCatchUp, coinPass, CoinTypeOK
<1>2. CoinTypeOK'
  BY <1>1 DEF CoinTypeOK
<1>3. \A y \in coinRows : y[1] \in Nat
  BY CoinAssumption DEF CoinTypeOK
<1>4. CoinWindowInv' /\ CoinWalkInv' /\ CoinLiveInv'
  BY <1>1, <1>3 DEF CoinWindowInv, CoinWalkInv, CoinLiveInv, Accounted, Excused, NotStored
<1> QED BY <1>2, <1>4

\* What the live walk fetches is a stretch of the chain above its rows, but for
\* what lies in its last block.
LEMMA LiveCoinsFacts ==
  ASSUME CoinInv, NEW n \in Nat, NEW t \in coinBehind..coinTop, NEW schema \in BOOLEAN,
         NEW failed \in SUBSET CoinTxs, LiveCoins(n, t, schema, failed)
  PROVE  /\ coins \subseteq coins' /\ coins' \subseteq CoinTxs
         /\ coinRows' \subseteq Rowed /\ \A y \in coinRows' : y[1] <= coinTop
         /\ hidden \subseteq hidden' /\ hidden' \subseteq 0..CoinHeight
         /\ \A x \in CoinTxs, y \in coinRows' :
              /\ CoinLive < x[1] /\ x[1] <= y[1]
              /\ x[1] < y[1] \/ n = Cardinality(CoinTxs)
              => x \in coins' \/ x[1] \in hidden' \/ x \in failed
<1> USE DEF CoinInv
<1> DEFINE above == {x \in CoinTxs : CoinLive < x[1] /\ x[1] <= t}
           new == FirstOf(n, above)
<1>1. /\ coins' = IF schema THEN coins \union (new \ failed) ELSE coins
      /\ coinRows' = coinRows \union (new \intersect Rowed)
      /\ hidden' = IF schema THEN hidden ELSE hidden \union HeightsOf(new)
  BY DEF LiveCoins, NewCoins, above, new
<1>2. above \in SUBSET (Nat \X Nat) /\ above \subseteq CoinTxs /\ IsFiniteSet(above)
  BY CoinAssumption, FS_Subset
<1> HIDE DEF above
<1>3. new \subseteq above /\ \A x \in new, y \in above : y[1] < x[1] => y \in new
  BY <1>2, FirstOfClosed
<1>4. n = Cardinality(CoinTxs) => new = above
  <2>1. Cardinality(above) <= Cardinality(CoinTxs)
    BY <1>2, CoinAssumption, FS_Subset
  <2> QED BY <1>2, <2>1, FirstOfAll
<1>5. CoinLive \in Int /\ t \in Int /\ coinTop \in Nat /\ t <= coinTop /\ coinTop <= CoinHeight
  BY CoinLiveOf, CoinAssumption DEF CoinTypeOK
<1>6. \A x \in CoinTxs : x[1] \in 0..CoinHeight
  BY CoinAssumption
<1>7. \A y \in coinRows : y[1] <= CoinLive /\ y[1] <= coinTop /\ y \in CoinTxs
  BY CoinLiveOf, CoinAssumption DEF CoinLiveInv, CoinTypeOK
<1>8. \A x \in new : x \in CoinTxs /\ x[1] <= t
  BY <1>3 DEF above
<1> HIDE DEF new
<1>9. coins \subseteq coins' /\ coins' \subseteq CoinTxs /\ hidden \subseteq hidden'
  BY <1>1, <1>8 DEF CoinTypeOK
<1>10. hidden' \subseteq 0..CoinHeight
  <2>1. HeightsOf(new) \subseteq 0..CoinHeight
    BY <1>6, <1>8 DEF HeightsOf
  <2> QED BY <1>1, <2>1 DEF CoinTypeOK
<1>11. coinRows' \subseteq Rowed /\ \A y \in coinRows' : y[1] <= coinTop
  <2>1. \A x \in new : x[1] <= coinTop
    BY <1>5, <1>6, <1>8
  <2> QED BY <1>1, <1>7, <2>1 DEF CoinTypeOK
<1>12. ASSUME NEW x \in CoinTxs, NEW y \in coinRows', CoinLive < x[1], x[1] <= y[1],
              x[1] < y[1] \/ n = Cardinality(CoinTxs)
       PROVE  x \in coins' \/ x[1] \in hidden' \/ x \in failed
  <2>1. x[1] \in Nat /\ y \in CoinTxs /\ y[1] \in Nat
    BY <1>6, <1>11, CoinAssumption
  <2>2. y \in new
    BY <1>1, <1>5, <1>7, <1>12, <2>1
  <2>3. x \in above
    BY <1>5, <1>8, <1>12, <2>1, <2>2 DEF above
  <2>4. x \in new
    BY <1>3, <1>4, <1>12, <2>2, <2>3
  <2> QED BY <1>1, <2>4 DEF HeightsOf
<1> QED BY <1>9, <1>10, <1>11, <1>12

\* What an insert of the live pass has failed for is on record as lost.
LEMMA LiveCoinPassStep ==
  ASSUME CoinInv, LiveCoinPass \/ LiveInsertFails
  PROVE  CoinInv'
<1> USE DEF CoinInv
<1>0. PICK t \in coinBehind..coinTop, schema \in BOOLEAN, failed \in SUBSET CoinTxs :
        LiveCoins(Cardinality(CoinTxs), t, schema, failed) /\ coinLost' = coinLost \union failed
  <2>1. CASE LiveCoinPass
    <3>1. PICK t \in coinBehind..coinTop, schema \in BOOLEAN :
            LiveCoins(Cardinality(CoinTxs), t, schema, {})
      BY <2>1, CoinAssumption DEF LiveCoinPass
    <3>2. coinLost' = coinLost \union {} /\ {} \in SUBSET CoinTxs
      BY <2>1 DEF LiveCoinPass
    <3> QED BY <3>1, <3>2
  <2>2. CASE LiveInsertFails
    <3>1. PICK t \in coinBehind..coinTop : \E x \in NewCoins(t) :
            /\ LiveCoins(Cardinality(CoinTxs), t, TRUE, {x})
            /\ coinLost' = coinLost \union {x}
      BY <2>2 DEF LiveInsertFails
    <3>0. PICK x \in NewCoins(t) :
            /\ LiveCoins(Cardinality(CoinTxs), t, TRUE, {x})
            /\ coinLost' = coinLost \union {x}
      BY <3>1
    <3>2. {x} \in SUBSET CoinTxs
      BY <3>0 DEF NewCoins
    <3> QED BY <3>0, <3>2
  <2> QED BY <2>1, <2>2
<1>1. LiveCoins(Cardinality(CoinTxs), t, schema, failed) /\ coinLost' = coinLost \union failed
  BY <1>0
<1>2. Cardinality(CoinTxs) \in Nat
  BY CoinAssumption, FS_CardinalityType
<1>3. /\ coins \subseteq coins' /\ coins' \subseteq CoinTxs
      /\ coinRows' \subseteq Rowed /\ \A y \in coinRows' : y[1] <= coinTop
      /\ hidden \subseteq hidden' /\ hidden' \subseteq 0..CoinHeight
      /\ \A x \in CoinTxs, y \in coinRows' :
           CoinLive < x[1] /\ x[1] <= y[1] =>
             x \in coins' \/ x[1] \in hidden' \/ x \in failed
  BY <1>1, <1>2, LiveCoinsFacts
<1>4. /\ coinStep = "live" /\ coinStep' = "tip"
      /\ coinFaults' \in 0..MaxCoinFaults
      /\ UNCHANGED <<coinTop, coinBehind, coinCursor, coinDone, finish, windows,
                     coinNext, skipped>>
  <2>1. coinFaults \in 0..MaxCoinFaults /\ MaxCoinFaults \in Nat
    BY CoinAssumption DEF CoinTypeOK
  <2>2. CASE LiveCoinPass
    BY <2>1, <2>2 DEF LiveCoinPass, coinEnv, coinPass
  <2>3. CASE LiveInsertFails
    BY <2>1, <2>3 DEF LiveInsertFails, CoinFault, coinEnv, coinPass
  <2> QED BY <2>2, <2>3
<1>5. \A x \in CoinTxs : Accounted(x) => Accounted(x)'
  BY <1>1, <1>3, <1>4, AccountsStay
<1>6. CoinTypeOK'
  BY <1>1, <1>3, <1>4 DEF CoinTypeOK, CoinSteps
<1>7. CoinWindowInv' /\ CoinWalkInv'
  BY <1>4, <1>5 DEF CoinWindowInv, CoinWalkInv
<1>8. ASSUME coinDone, NEW x \in CoinTxs, NEW y \in coinRows', 0 < x[1], x[1] <= y[1]
      PROVE  Accounted(x)'
  <2>1. CASE x[1] <= CoinLive
    BY <1>5, <1>8, <2>1, CoinLiveOf DEF CoinLiveInv
  <2>2. CASE ~ (x[1] <= CoinLive)
    <3>1. CoinLive < x[1]
      BY <2>2, CoinLiveOf, CoinAssumption DEF CoinTypeOK
    <3> QED BY <1>1, <1>3, <1>8, <3>1 DEF Accounted, Excused, NotStored
  <2> QED BY <2>1, <2>2
<1>9. CoinLiveInv'
  BY <1>3, <1>4, <1>8 DEF CoinLiveInv
<1> QED BY <1>6, <1>7, <1>9

\* The process stops in the middle of a block: what is left of it is lost.
LEMMA LiveCoinsBreakStep ==
  ASSUME CoinInv, LiveCoinsBreak
  PROVE  CoinInv'
<1> USE DEF CoinInv
<1>1. PICK n \in 1..Cardinality(CoinTxs), t \in coinBehind..coinTop, schema \in BOOLEAN :
        LiveCoins(n, t, schema, {})
  BY CoinAssumption DEF LiveCoinsBreak
<1>2. n \in Nat
  BY CoinAssumption, FS_CardinalityType
<1>3. /\ coins \subseteq coins' /\ coins' \subseteq CoinTxs
      /\ coinRows' \subseteq Rowed /\ \A y \in coinRows' : y[1] <= coinTop
      /\ hidden \subseteq hidden' /\ hidden' \subseteq 0..CoinHeight
      /\ \A x \in CoinTxs, y \in coinRows' :
           CoinLive < x[1] /\ x[1] < y[1] => x \in coins' \/ x[1] \in hidden'
  <2>1. /\ coins \subseteq coins' /\ coins' \subseteq CoinTxs
        /\ coinRows' \subseteq Rowed /\ \A y \in coinRows' : y[1] <= coinTop
        /\ hidden \subseteq hidden' /\ hidden' \subseteq 0..CoinHeight
        /\ \A x \in CoinTxs, y \in coinRows' :
             /\ CoinLive < x[1] /\ x[1] <= y[1]
             /\ x[1] < y[1] \/ n = Cardinality(CoinTxs)
             => x \in coins' \/ x[1] \in hidden'
    BY <1>1, <1>2, LiveCoinsFacts
  <2>2. \A x \in CoinTxs, y \in coinRows' : x[1] \in Nat /\ y[1] \in Nat
    BY <2>1, CoinAssumption
  <2> QED BY <2>1, <2>2
<1>4. /\ UNCHANGED <<coinTop, coinBehind, coinCursor, coinDone, coinStep, finish, windows, coinNext,
                     skipped>>
      /\ coinFaults' \in 0..MaxCoinFaults
      /\ coinLost' = coinLost \union
           {x \in CoinTxs \ coins' : CoinLive < x[1] /\ x[1] \in HeightsOf(coinRows')}
  BY CoinAssumption DEF LiveCoinsBreak, CoinFault, coinEnv, coinPass, CoinTypeOK
<1>5. \A x \in CoinTxs : Accounted(x) => Accounted(x)'
  BY <1>3, <1>4, AccountsStay
<1>6. CoinTypeOK'
  BY <1>3, <1>4 DEF CoinTypeOK
<1>7. CoinWindowInv' /\ CoinWalkInv'
  BY <1>4, <1>5 DEF CoinWindowInv, CoinWalkInv
<1>8. ASSUME coinDone, NEW x \in CoinTxs, NEW y \in coinRows', 0 < x[1], x[1] <= y[1]
      PROVE  Accounted(x)'
  <2>1. CASE x[1] <= CoinLive
    BY <1>5, <1>8, <2>1, CoinLiveOf DEF CoinLiveInv
  <2>2. CASE ~ (x[1] <= CoinLive)
    <3>1. CoinLive < x[1]
      BY <2>2, CoinLiveOf, CoinAssumption DEF CoinTypeOK
    <3>2. x[1] \in Nat /\ y[1] \in Nat
      BY <1>3, CoinAssumption
    <3>3. CASE x[1] < y[1]
      BY <1>3, <3>1, <3>3 DEF Accounted, Excused, NotStored
    <3>4. CASE x[1] = y[1]
      <4>1. x[1] \in HeightsOf(coinRows')
        BY <3>4 DEF HeightsOf
      <4> QED BY <1>4, <3>1, <4>1 DEF Accounted, Excused, NotStored
    <3> QED BY <1>8, <3>2, <3>3, <3>4
  <2> QED BY <2>1, <2>2
<1>9. CoinLiveInv'
  BY <1>3, <1>4, <1>8 DEF CoinLiveInv
<1> QED BY <1>6, <1>7, <1>9

\* What a step that only moves the pass along keeps.
LEMMA CoinTablesStay ==
  ASSUME CoinInv, UNCHANGED <<coins, coinRows, coinCursor, hidden, skipped>>, coinTop' = coinTop,
         coinLost \subseteq coinLost', coinDone' = coinDone
  PROVE  CoinWalkInv' /\ CoinLiveInv'
BY DEF CoinInv, CoinWalkInv, CoinLiveInv, Accounted, Excused, NotStored

LEMMA ReadFinishStep ==
  ASSUME CoinInv, ReadFinish
  PROVE  CoinInv'
<1> USE DEF CoinInv
<1>1. /\ coinStep = "tip" /\ coinStep' \in {"live", "window"} /\ windows' = 0
      /\ finish' \in 0..coinTop
      /\ UNCHANGED <<coinTop, coinBehind, coinFaults, coins, coinRows, coinCursor, coinDone,
                     coinNext, hidden, skipped, coinLost>>
  BY CoinAssumption DEF ReadFinish, coinEnv, CoinTypeOK
<1>2. coinNext = 0
  BY <1>1 DEF CoinWindowInv
<1>3. CoinTypeOK'
  BY <1>1, <1>2, CoinAssumption DEF CoinTypeOK, CoinSteps
<1>4. CoinWindowInv'
  BY <1>1, <1>2 DEF CoinWindowInv, Accounted, Excused, NotStored
<1> QED BY <1>1, <1>3, <1>4, CoinTablesStay

\* The walk ends for good: what it leaves to neither pass is on record.
LEMMA MarkDoneStep ==
  ASSUME CoinInv, ReachFinish \/ CannotAnswer
  PROVE  CoinInv'
<1> USE DEF CoinInv
<1>1. /\ coinDone' = TRUE /\ coinStep' = "live" /\ finish' = 0 /\ windows' = 0 /\ coinNext' = 0
      /\ UNCHANGED <<coinTop, coinBehind, coinFaults, coins, coinRows, coinCursor, coinLost>>
      /\ \/ skipped' = skipped \union Between /\ hidden' = hidden
         \/ hidden' = hidden \union Between /\ skipped' = skipped
  BY DEF ReachFinish, CannotAnswer, MarkDone, EndPass, coinEnv
<1>2. coinTop \in Nat /\ coinTop <= CoinHeight /\ coinCursor \in Nat /\ CoinLive \in -1..coinTop
  BY CoinLiveOf, CoinAssumption DEF CoinTypeOK
<1>3. CoinTypeOK'
  <2>1. Between \subseteq 0..CoinHeight
    BY <1>2, CoinAssumption DEF Between
  <2>2. hidden' \subseteq 0..CoinHeight /\ skipped' \subseteq 0..CoinHeight
    BY <1>1, <2>1 DEF CoinTypeOK
  <2>3. coinDone' \in BOOLEAN
    BY <1>1
  <2> QED BY <1>1, <2>2, <2>3, CoinAssumption DEF CoinTypeOK, CoinSteps
<1>4. \A x \in CoinTxs : Accounted(x) => Accounted(x)'
  BY <1>1, AccountsStay
<1>5. \A x \in CoinTxs : x[1] \in Nat
  BY CoinAssumption
<1>6. CoinWindowInv' /\ CoinWalkInv'
  BY <1>1, <1>4, <1>5 DEF CoinWindowInv, CoinWalkInv
<1>7. ASSUME NEW x \in CoinTxs, NEW y \in coinRows, 0 < x[1], x[1] <= y[1]
      PROVE  Accounted(x)'
  <2>1. y \in CoinTxs /\ y[1] <= CoinLive
    BY CoinLiveOf, CoinAssumption DEF CoinTypeOK
  <2>2. CASE x[1] <= coinCursor
    BY <1>4, <1>7, <2>2 DEF CoinWalkInv
  <2>3. CASE x[1] > coinCursor
    <3>1. x[1] \in Between
      BY <1>2, <1>5, <1>7, <2>1, <2>3 DEF Between
    <3> QED BY <1>1, <3>1 DEF Accounted, Excused, NotStored
  <2> QED BY <1>2, <1>5, <2>2, <2>3
<1>8. CoinLiveInv'
  BY <1>1, <1>7 DEF CoinLiveInv
<1> QED BY <1>3, <1>6, <1>8

\* The pass ends early: what is on record stays.
LEMMA EndPassStep ==
  ASSUME CoinInv, EndPass, coinFaults' \in 0..MaxCoinFaults,
         UNCHANGED <<coinEnv, coins, coinRows, coinCursor, coinDone, hidden, skipped, coinLost>>
  PROVE  CoinInv'
<1> USE DEF CoinInv, EndPass, coinEnv
<1>1. CoinTypeOK'
  BY CoinAssumption DEF CoinTypeOK, CoinSteps
<1>2. \A x \in CoinTxs : x[1] \in Nat
  BY CoinAssumption
<1>3. CoinWindowInv'
  BY <1>2 DEF CoinWindowInv
<1> QED BY <1>1, <1>3, CoinTablesStay

\* A window is answered: up to where it ends everything is in the ledger, or
\* failed to be written, or was not shown.
LEMMA WindowRowsStep ==
  ASSUME CoinInv, coinStep = "window", windows < WindowsPerPass, ~AtFinish,
         NEW t \in coinBehind..coinTop, NEW failed \in SUBSET CoinTxs, WindowRows(t, failed),
         coinFaults' \in 0..MaxCoinFaults,
         UNCHANGED <<coinEnv, coinRows, coinCursor, coinDone, skipped>>
  PROVE  CoinInv'
<1> USE DEF CoinInv
<1> DEFINE found == {x \in CoinTxs : coinCursor < x[1] /\ x[1] < Before /\ x[1] <= t}
           cut == FirstOf(CoinCap, found)
           got == IF cut = found THEN found ELSE DropTrailingHeight(cut)
<1>1. /\ coinTop \in Nat /\ coinTop <= CoinHeight /\ coinCursor \in Nat /\ finish \in Nat
      /\ finish <= coinTop /\ t \in Nat /\ t <= coinTop /\ coinCursor < finish
  BY CoinAssumption DEF CoinTypeOK, AtFinish
<1>2. Before \in Nat /\ Before > coinCursor /\ Before <= finish + 1
  BY <1>1, CoinAssumption DEF Before
<1>3. \A x \in CoinTxs : x[1] \in Nat
  BY CoinAssumption
<1>4. /\ found \subseteq CoinTxs /\ found \in SUBSET ((0..t) \X Nat) /\ IsFiniteSet(found)
      /\ found \in SUBSET (Nat \X Nat)
  <2>1. found \subseteq CoinTxs
    OBVIOUS
  <2> QED BY <1>1, <2>1, CoinAssumption, FS_Subset
<1>5. CoinCap \in Int
  BY CoinAssumption
<1>6. CASE got = {} /\ found # {}
  <2>1. EndPass /\ UNCHANGED <<coins, hidden, coinLost>>
    BY <1>6 DEF WindowRows
  <2> QED BY <2>1, EndPassStep
<1>7. CASE ~ (got = {} /\ found # {})
  <2>1. /\ coins' = coins \union (got \ failed)
        /\ coinLost' = coinLost \union (got \intersect failed)
        /\ hidden' = hidden \union {h \in coinCursor + 1 .. Before - 1 : h > t}
        /\ coinNext' = WindowEnd(found, got)
        /\ coinStep' = "save"
        /\ UNCHANGED <<finish, windows>>
    BY <1>7 DEF WindowRows
  <2>2. got \subseteq found /\ coinNext' \in 0..finish
        /\ \A x \in CoinTxs : coinCursor < x[1] /\ x[1] <= coinNext' =>
             x \in got \/ (x[1] > t /\ x[1] <= Before - 1)
    <3>1. CASE got = found
      <4>1. coinNext' = Before - 1
        BY <2>1, <3>1 DEF WindowEnd
      <4> QED BY <1>1, <1>2, <1>3, <3>1, <4>1
    <3>2. CASE got # found
      <4>1. got = DropTrailingHeight(cut) /\ got # {}
        BY <1>7, <3>2
      <4>2. coinNext' = Max(HeightsOf(got))
        BY <2>1, <3>2 DEF WindowEnd
      <4> HIDE DEF got, found
      <4>3. got \subseteq found /\ \A x \in found : x[1] <= Max(HeightsOf(got)) => x \in got
        BY <1>1, <1>4, <1>5, <4>1, CutIsWhole
      <4>4. coinNext' \in 0..t /\ \E y \in got : y[1] = coinNext'
        BY <1>1, <1>4, <4>1, <4>2, <4>3, MaxOfHeights
      <4>5. coinNext' < Before /\ coinNext' \in 0..finish
        BY <1>1, <1>2, <4>3, <4>4 DEF found
      <4>6. \A x \in CoinTxs : coinCursor < x[1] /\ x[1] <= coinNext' => x \in found
        BY <1>1, <1>2, <1>3, <4>4, <4>5 DEF found
      <4> QED BY <4>2, <4>3, <4>5, <4>6
    <3> QED BY <3>1, <3>2
  <2> HIDE DEF got, found
  <2>3. UNCHANGED <<coinTop, coinBehind, coinRows, coinCursor, coinDone, skipped>>
    BY DEF coinEnv
  <2>4. coins \subseteq coins' /\ hidden \subseteq hidden' /\ coinLost \subseteq coinLost'
    BY <2>1
  <2>5. CoinTypeOK'
    <3>1. coins' \subseteq CoinTxs /\ coinLost' \subseteq CoinTxs
      BY <1>4, <2>1, <2>2 DEF CoinTypeOK
    <3>2. hidden' \subseteq 0..CoinHeight
      <4>1. \A h \in coinCursor + 1 .. Before - 1 : h \in 0..CoinHeight
        BY <1>1, <1>2, CoinAssumption
      <4>2. hidden \subseteq 0..CoinHeight
        BY DEF CoinTypeOK
      <4> QED BY <2>1, <4>1, <4>2
    <3> QED BY <2>1, <2>2, <2>3, <3>1, <3>2 DEF CoinTypeOK, CoinSteps
  <2>6. \A x \in CoinTxs : Accounted(x) => Accounted(x)'
    BY <2>3, <2>4, AccountsStay
  <2>7. CoinWalkInv' /\ CoinLiveInv'
    BY <2>3, <2>6 DEF CoinWalkInv, CoinLiveInv
  <2>8. ASSUME NEW x \in CoinTxs, 0 < x[1], x[1] <= coinNext'
        PROVE  Accounted(x)'
    <3>1. CASE x[1] <= coinCursor
      BY <2>6, <2>8, <3>1 DEF CoinWalkInv
    <3>2. CASE x \in got
      BY <2>1, <3>2 DEF Accounted, Excused, NotStored
    <3>3. CASE x[1] > coinCursor /\ x[1] > t /\ x[1] <= Before - 1
      <4>1. x[1] \in coinCursor + 1 .. Before - 1
        BY <1>1, <1>2, <1>3, <3>3
      <4>2. x[1] \in hidden'
        BY <2>1, <3>3, <4>1
      <4> QED BY <4>2 DEF Accounted, Excused, NotStored
    <3> QED BY <1>1, <1>3, <2>2, <2>8, <3>1, <3>2, <3>3
  <2>9. CoinWindowInv'
    BY <2>1, <2>8 DEF CoinWindowInv
  <2> QED BY <2>5, <2>7, <2>9
<1> QED BY <1>6, <1>7

LEMMA WindowStep ==
  ASSUME CoinInv, WalkWindow \/ CoinInsertFails
  PROVE  CoinInv'
<1>1. CASE WalkWindow
  <2>1. PICK t \in coinBehind..coinTop : WindowRows(t, {})
    BY <1>1 DEF WalkWindow
  <2>2. coinFaults' \in 0..MaxCoinFaults
    BY <1>1 DEF WalkWindow, CoinInv, CoinTypeOK
  <2> QED BY <1>1, <2>1, <2>2, WindowRowsStep DEF WalkWindow
<1>2. CASE CoinInsertFails
  <2>1. PICK t \in coinBehind..coinTop, x \in CoinTxs : WindowRows(t, {x})
    BY <1>2 DEF CoinInsertFails
  <2>2. coinFaults' \in 0..MaxCoinFaults
    BY <1>2, CoinAssumption DEF CoinInsertFails, CoinFault, CoinInv, CoinTypeOK
  <2>3. {x} \in SUBSET CoinTxs
    OBVIOUS
  <2> QED BY <1>2, <2>1, <2>2, <2>3, WindowRowsStep DEF CoinInsertFails
<1> QED BY <1>1, <1>2

LEMMA SaveCursorStep ==
  ASSUME CoinInv, SaveCursor
  PROVE  CoinInv'
<1> USE DEF CoinInv, SaveCursor, coinEnv
<1>1. CoinTypeOK'
  BY CoinAssumption DEF CoinTypeOK, CoinSteps, CoinWindowInv
<1>2. \A x \in CoinTxs : x[1] \in Nat
  BY CoinAssumption
<1>3. CoinWindowInv' /\ CoinWalkInv' /\ CoinLiveInv'
  BY <1>2 DEF CoinWindowInv, CoinWalkInv, CoinLiveInv, Accounted, Excused, NotStored
<1> QED BY <1>1, <1>3

LEMMA PassEndsStep ==
  ASSUME CoinInv, BudgetSpent \/ CoinCallFails
  PROVE  CoinInv'
<1>1. coinFaults' \in 0..MaxCoinFaults
  BY CoinAssumption DEF BudgetSpent, CoinCallFails, CoinFault, CoinInv, CoinTypeOK
<1> QED BY <1>1, EndPassStep DEF BudgetSpent, CoinCallFails

LEMMA CoinInvKept ==
  ASSUME CoinInv, [CoinNextStep]_coinVars
  PROVE  CoinInv'
<1>1. CASE CoinNextStep
  BY <1>1, CoinChainStep, LiveCoinPassStep, LiveCoinsBreakStep, ReadFinishStep, MarkDoneStep,
     WindowStep, SaveCursorStep, PassEndsStep
     DEF CoinNextStep, CoinPass
<1>2. CASE UNCHANGED coinVars
  <2> USE <1>2 DEF CoinInv, coinVars, coinEnv, coinPass
  <2>1. CoinTypeOK'
    BY DEF CoinTypeOK
  <2>2. CoinWindowInv' /\ CoinWalkInv' /\ CoinLiveInv'
    BY DEF CoinWindowInv, CoinWalkInv, CoinLiveInv, Accounted, Excused, NotStored
  <2> QED BY <2>1, <2>2
<1> QED BY <1>1, <1>2

\* The invariant holds in every behaviour of the coin ledger.
THEOREM CoinInvHolds == CoinSafety => []CoinInv
<1>1. CoinInit => CoinInv
  BY CoinInitInv
<1>2. CoinInv /\ [CoinNextStep]_coinVars => CoinInv'
  BY CoinInvKept
<1> QED BY <1>1, <1>2, PTL DEF CoinSafety

\* The types of the coin walk, among them that no cursor is above the chain and
\* that a pass stays within its budget of windows.
THEOREM CoinTypes == CoinSafety => []CoinTypeOK
<1>1. CoinInv => CoinTypeOK
  BY DEF CoinInv
<1> QED BY <1>1, CoinInvHolds, PTL

\* backfillCoinTransfers and the live pass pass over no transfer that was shown and
\* written, whatever breaks off and whoever is first, but for the one stretch the
\* done marker may be set over.
THEOREM CoinLedgerComplete == CoinSafety => []CoinsComplete
<1>1. CoinInv => CoinsComplete
  <2>1. SUFFICES ASSUME CoinInv, NEW x \in CoinTxs, 0 < x[1],
                        x[1] <= coinCursor \/ (coinDone /\ x[1] <= CoinLive)
                 PROVE  x \in coins \/ Excused(x)
    BY DEF CoinsComplete, PassedBy
  <2>2. CASE x[1] <= coinCursor
    BY <2>1, <2>2 DEF CoinInv, CoinWalkInv, Accounted
  <2>3. CASE coinDone /\ x[1] <= CoinLive
    <3>1. PICK y \in coinRows : x[1] <= y[1]
      BY <2>1, <2>3, CoinLiveOf DEF CoinInv
    <3> QED BY <2>1, <2>3, <3>1 DEF CoinInv, CoinLiveInv, Accounted
  <2> QED BY <2>1, <2>2, <2>3
<1> QED BY <1>1, CoinInvHolds, PTL

\* The window in hand ends above the cursor.
WindowAhead == coinStep = "save" => coinCursor <= coinNext

\* A window that is answered ends above the cursor, cut or not.
LEMMA WindowGoesForward ==
  ASSUME CoinInv, coinStep = "window", ~AtFinish,
         NEW t \in coinBehind..coinTop, NEW failed, WindowRows(t, failed)
  PROVE  /\ coinStep' = "save" => coinCursor <= coinNext'
         /\ coins \subseteq coins' /\ hidden \subseteq hidden' /\ coinLost \subseteq coinLost'
<1> DEFINE found == {x \in CoinTxs : coinCursor < x[1] /\ x[1] < Before /\ x[1] <= t}
           cut == FirstOf(CoinCap, found)
           got == IF cut = found THEN found ELSE DropTrailingHeight(cut)
<1>1. /\ coinCursor \in Nat /\ finish \in Nat /\ coinCursor < finish /\ t \in Nat
  BY CoinAssumption DEF CoinInv, CoinTypeOK, AtFinish
<1>2. Before \in Nat /\ Before > coinCursor
  BY <1>1, CoinAssumption DEF Before
<1>3. CASE got = {} /\ found # {}
  <2>1. coinStep' = "live" /\ UNCHANGED <<coins, hidden, coinLost>>
    BY <1>3 DEF WindowRows, EndPass
  <2> QED BY <2>1
<1>4. CASE ~ (got = {} /\ found # {})
  <2>1. /\ coins \subseteq coins' /\ hidden \subseteq hidden' /\ coinLost \subseteq coinLost'
        /\ coinNext' = WindowEnd(found, got)
    BY <1>4 DEF WindowRows
  <2>2. CASE got = found
    BY <1>1, <1>2, <2>1, <2>2 DEF WindowEnd
  <2>3. CASE got # found
    <3>1. got = DropTrailingHeight(cut) /\ got # {} /\ coinNext' = Max(HeightsOf(got))
      BY <1>4, <2>1, <2>3 DEF WindowEnd
    <3>2. /\ found \in SUBSET ((0..t) \X Nat) /\ IsFiniteSet(found)
          /\ found \in SUBSET (Nat \X Nat) /\ CoinCap \in Int
      <4>1. found \subseteq CoinTxs
        OBVIOUS
      <4> QED BY <1>1, <4>1, CoinAssumption, FS_Subset
    <3> HIDE DEF got, found
    <3>3. got \subseteq found
      BY <1>1, <3>1, <3>2, CutIsWhole
    <3>4. \E y \in got : y[1] = coinNext'
      BY <1>1, <3>1, <3>2, <3>3, MaxOfHeights
    <3>5. \A y \in found : coinCursor < y[1] /\ y[1] \in Nat
      BY CoinAssumption DEF found
    <3> QED BY <1>1, <2>1, <3>3, <3>4, <3>5
  <2> QED BY <2>2, <2>3
<1> QED BY <1>3, <1>4

\* Rows, excuses, the done marker and the cursor only ever grow.
LEMMA CoinsGoForward ==
  ASSUME CoinInv, WindowAhead, [CoinNextStep]_coinVars
  PROVE  /\ WindowAhead'
         /\ coins \subseteq coins' /\ coinRows \subseteq coinRows'
         /\ hidden \subseteq hidden' /\ skipped \subseteq skipped' /\ coinLost \subseteq coinLost'
         /\ coinDone => coinDone'
         /\ coinCursor <= coinCursor'
<1>1. coinCursor \in Nat
  BY CoinAssumption DEF CoinInv, CoinTypeOK
<1>2. CASE WalkWindow \/ CoinInsertFails
  <2>1. PICK t \in coinBehind..coinTop, failed \in SUBSET CoinTxs : WindowRows(t, failed)
    BY <1>2 DEF WalkWindow, CoinInsertFails
  <2>2. coinStep = "window" /\ ~AtFinish /\ UNCHANGED <<coinRows, coinCursor, coinDone, skipped>>
    BY <1>2 DEF WalkWindow, CoinInsertFails
  <2> QED BY <1>1, <2>1, <2>2, WindowGoesForward DEF WindowAhead
<1>3. CASE SaveCursor
  <2>1. /\ coinStep = "save" /\ coinStep' = "window" /\ coinCursor' = coinNext
        /\ UNCHANGED <<coins, coinRows, hidden, skipped, coinLost, coinDone>>
    BY <1>3 DEF SaveCursor
  <2> QED BY <2>1 DEF WindowAhead
<1>4. CASE ReachFinish \/ CannotAnswer
  <2>1. /\ coinDone' = TRUE /\ coinStep' = "live" /\ hidden \subseteq hidden'
        /\ skipped \subseteq skipped'
        /\ UNCHANGED <<coins, coinRows, coinCursor, coinLost>>
    BY <1>4 DEF ReachFinish, CannotAnswer, MarkDone, EndPass
  <2> QED BY <1>1, <2>1 DEF WindowAhead
<1>5. CASE LiveCoinPass \/ LiveCoinsBreak \/ LiveInsertFails
  <2>1. coins \subseteq coins' /\ coinRows \subseteq coinRows' /\ hidden \subseteq hidden'
    BY <1>5 DEF LiveCoinPass, LiveCoinsBreak, LiveInsertFails, LiveCoins
  <2>2. /\ UNCHANGED <<coinCursor, coinDone, skipped>> /\ coinStep' # "save"
        /\ coinLost \subseteq coinLost'
    BY <1>5 DEF LiveCoinPass, LiveCoinsBreak, LiveInsertFails
  <2> QED BY <1>1, <2>1, <2>2 DEF WindowAhead
<1>6. CASE ReadFinish \/ BudgetSpent \/ CoinCallFails
  <2>1. /\ coinStep' # "save"
        /\ UNCHANGED <<coins, coinRows, hidden, skipped, coinLost, coinDone, coinCursor>>
    BY <1>6 DEF ReadFinish, BudgetSpent, CoinCallFails, EndPass
  <2> QED BY <1>1, <2>1 DEF WindowAhead
<1>7. CASE CoinGrow \/ CoinCatchUp \/ UNCHANGED coinVars
  <2>1. UNCHANGED <<coins, coinRows, hidden, skipped, coinLost, coinDone, coinCursor,
                   coinStep, coinNext>>
    BY <1>7 DEF CoinGrow, CoinCatchUp, coinVars, coinPass
  <2> QED BY <1>1, <2>1 DEF WindowAhead
<1> QED BY <1>2, <1>3, <1>4, <1>5, <1>6, <1>7 DEF CoinNextStep, CoinPass

\* The highest row rises with the rows.
LEMMA TopRises ==
  ASSUME NEW n \in Nat, NEW old \in SUBSET ((0..n) \X Nat), NEW new \in SUBSET ((0..n) \X Nat),
         old \subseteq new
  PROVE  LET Top(s) == IF s = {} THEN -1 ELSE Max(HeightsOf(s))
         IN  Top(old) <= Top(new) /\ Top(old) \in Int /\ Top(new) \in Int
<1>1. new # {} => /\ Max(HeightsOf(new)) \in 0..n
                  /\ \A x \in new : x[1] <= Max(HeightsOf(new))
  BY MaxOfHeights
<1>2. old # {} => /\ Max(HeightsOf(old)) \in 0..n
                  /\ \E x \in old : x[1] = Max(HeightsOf(old))
  BY MaxOfHeights
<1> QED BY <1>1, <1>2

\* A step of the walk, of the live pass or of the world is a step of Backfill.
LEMMA CoinStepKeeps ==
  ASSUME CoinInv, CoinInv', CoinsComplete', WindowAhead, [CoinNextStep]_coinVars
  PROVE  CoinPromise!BackfillStep
<1>1. /\ coins \subseteq coins' /\ coinRows \subseteq coinRows'
      /\ hidden \subseteq hidden' /\ skipped \subseteq skipped' /\ coinLost \subseteq coinLost'
      /\ coinDone => coinDone'
      /\ coinCursor <= coinCursor'
  BY CoinsGoForward
<1>2. /\ coinCursor \in Nat /\ coinCursor' \in Nat
      /\ \A x \in CoinTxs : x[1] \in Nat
  BY CoinAssumption DEF CoinInv, CoinTypeOK
<1>3. CoinLive <= CoinLive' /\ CoinLive \in Int /\ CoinLive' \in Int
  <2>1. coinRows \in SUBSET ((0..CoinHeight) \X Nat) /\ coinRows' \in SUBSET ((0..CoinHeight) \X Nat)
    BY CoinAssumption DEF CoinInv, CoinTypeOK
  <2>2. CoinHeight \in Nat
    BY CoinAssumption
  <2> QED BY <1>1, <2>1, <2>2, TopRises DEF CoinLive
<1>4. PassedCoins \subseteq PassedCoins'
  <2> SUFFICES ASSUME NEW x \in Passable, x[1] <= coinCursor \/ (coinDone /\ x[1] <= CoinLive)
               PROVE  x[1] <= coinCursor' \/ (coinDone' /\ x[1] <= CoinLive')
    BY DEF PassedCoins, PassedBy, Passable
  <2>1. x[1] \in Nat
    BY <1>2 DEF Passable
  <2> HIDE DEF CoinLive
  <2> QED BY <1>1, <1>2, <1>3, <2>1
<1>5. PassedCoins' \subseteq (coins' \intersect Passable) \union {x \in Passable : Excused(x)'}
  BY DEF CoinsComplete, PassedCoins, PassedBy, Passable
<1>6. \A x \in CoinTxs : Excused(x) => Excused(x)'
  BY <1>1 DEF Excused, NotStored
<1> QED BY <1>1, <1>4, <1>5, <1>6 DEF CoinPromise!BackfillStep, Passable

\* backfillCoinTransfers keeps the promise of Backfill, for any chain, windows, cap,
\* schemas, lag and number of faults.
THEOREM CoinsKeepTheirPromise == CoinSafety => CoinsKeepPromise
<1>1. CoinInit => CoinPromise!BackfillInit /\ WindowAhead
  BY CoinAssumption
     DEF CoinInit, CoinPromise!BackfillInit, PassedCoins, PassedBy, Passable, Excused,
         NotStored, WindowAhead
<1>2. CoinInv /\ WindowAhead /\ [CoinNextStep]_coinVars => WindowAhead'
  BY CoinsGoForward
<1>3. CoinInv /\ CoinInv' /\ CoinsComplete' /\ WindowAhead /\ [CoinNextStep]_coinVars =>
        [CoinPromise!BackfillStep]_(CoinPromise!backfillVars)
  BY CoinStepKeeps
<1> QED BY <1>1, <1>2, <1>3, CoinInvHolds, CoinLedgerComplete, PTL
        DEF CoinSafety, CoinsKeepPromise, CoinPromise!BackfillSpec

-----------------------------------------------------------------------------
(***************************************************************************)
(* UserRegistry: that a replay that went through leaves the table with the *)
(* registry's own names, whatever rows it started from.                    *)
(*                                                                         *)
(* UsersMatch speaks of the end of a replay. On the way there the table is *)
(* right about the addresses whose events have been replayed (ReplayInv),  *)
(* which needs to know that the log is the end of what the realm had       *)
(* emitted (LogInv), that between its two statements an event has its row  *)
(* (DemoteInv), and that no row gives a name to an address that never had  *)
(* it (Owned): an upsert would otherwise take a name from someone else.    *)
(***************************************************************************)

\* The current names of an address in table u.
Currents(u, a) == {n \in DOMAIN u : u[n].address = a /\ ~u[n].alias /\ ~u[n].deleted}

\* The rows are of names that the realm has given to their addresses.
Row == [address : {e.address : e \in Range(UserEvents)}, alias : BOOLEAN, deleted : BOOLEAN]
Owned(u) ==
  \A n \in DOMAIN u :
    /\ u[n] \in Row
    /\ \E e \in Range(UserEvents) :
         e.kind # "Deleted" /\ e.name = n /\ e.address = u[n].address

\* What the registry says of an address after its first p events.
EventsUpTo(a, p) == {i \in 1..p : UserEvents[i].address = a}
NameOf(e) == IF e.kind = "Deleted" THEN {} ELSE {e.name}
NameAfter(a, p) == NameOf(UserEvents[Max(EventsUpTo(a, p))])

\* What is left to replay is the end of what the realm had emitted, unless a
\* statement failed, and Done events of it have been replayed.
Done == Emitted(asOf) - Len(log)

LogInv ==
  userStep # "ask" =>
    /\ shown = -1
    /\ asOf >= 0 => /\ Len(log) <= Emitted(asOf)
                    /\ \A i \in 1..Len(log) : log[i] = UserEvents[Done + i]

\* Between its two statements an event has its row, and its address has possibly
\* another current name.
DemoteInv ==
  userStep = "demote" =>
    /\ log # <<>> /\ Head(log).kind # "Deleted" /\ Head(log).name \in DOMAIN users
    /\ users[Head(log).name] =
         [address |-> Head(log).address, alias |-> FALSE, deleted |-> FALSE]

\* The table is right about every address that the replay has met so far.
ReplayInv ==
  userStep # "ask" /\ asOf >= 0 =>
    \A i \in 1..Done :
      LET a == UserEvents[i].address
      IN  \/ a = Head(log).address /\ userStep = "demote"
          \/ Currents(users, a) = NameAfter(a, Done)

UserInv == UserTypeOK /\ LogInv /\ DemoteInv /\ ReplayInv /\ UsersMatch

-----------------------------------------------------------------------------
LEMMA EventsAre ==
  /\ UserEvents \in Seq(Range(UserEvents)) /\ Len(UserEvents) \in Nat
  /\ DOMAIN UserEvents = 1..Len(UserEvents)
  /\ \A i \in 1..Len(UserEvents) : UserEvents[i] \in Range(UserEvents) /\ UserEvents[i].at \in Int
  /\ \A e \in Range(UserEvents) : \E i \in 1..Len(UserEvents) : e = UserEvents[i]
<1>1. UserEvents \in Seq(Range(UserEvents))
  BY UserAssumption
<1>2. Len(UserEvents) \in Nat /\ DOMAIN UserEvents = 1..Len(UserEvents)
  BY <1>1, LenProperties
<1>3. \A i \in 1..Len(UserEvents) : UserEvents[i].at \in Int
  BY UserAssumption
<1> QED BY <1>1, <1>2, <1>3 DEF Range

\* The realm never gives a name to a second address.
LEMMA NamesAreKept ==
  \A e, f \in Range(UserEvents) :
    e.kind # "Deleted" /\ f.kind # "Deleted" /\ e.name = f.name => e.address = f.address
BY EventsAre, UserAssumption

\* An initial part of 1..n is an interval, and its cardinality is its end.
LEMMA InitialPart ==
  ASSUME NEW n \in Nat, NEW S \in SUBSET (1..n),
         \A i \in S, j \in 1..n : j < i => j \in S
  PROVE  Cardinality(S) \in 0..n /\ S = 1..Cardinality(S)
<1>1. CASE S = {}
  <2>1. Cardinality(S) = 0
    BY <1>1, FS_EmptySet
  <2> QED BY <1>1, <2>1
<1>2. CASE S # {}
  <2> DEFINE m == Max(S)
  <2>1. m \in S /\ \A y \in S : m >= y
    <3>1. S \in SUBSET (0..n)
      OBVIOUS
    <3> QED BY <1>2, <3>1, MaxOfBounded
  <2> HIDE DEF m
  <2>2. m \in 1..n /\ m \in Int /\ 1 \in Int
    BY <2>1
  <2>3. ASSUME NEW j \in 1..m PROVE j \in S
    <3>1. j \in 1..n /\ (j < m \/ j = m)
      BY <2>2
    <3> QED BY <2>1, <3>1
  <2>4. ASSUME NEW y \in S PROVE y \in 1..m
    <3>1. y \in 1..n /\ m >= y
      BY <2>1
    <3> QED BY <2>2, <3>1
  <2>5. S = 1..m
    BY <2>3, <2>4
  <2>6. Cardinality(1..m) = IF 1 > m THEN 0 ELSE m - 1 + 1
    BY <2>2, FS_Interval, Zenon
  <2>7. Cardinality(1..m) = m
    BY <2>2, <2>6
  <2> QED BY <2>2, <2>5, <2>7
<1> QED BY <1>1, <1>2

\* The events up to a height are the first ones.
LEMMA EmittedFirst ==
  ASSUME NEW h \in Int
  PROVE  /\ Emitted(h) \in 0..Len(UserEvents)
         /\ \A i \in 1..Len(UserEvents) : UserEvents[i].at <= h <=> i <= Emitted(h)
<1> DEFINE n == Len(UserEvents)
           S == {i \in 1..n : UserEvents[i].at <= h}
<1>1. Emitted(h) = Cardinality(S) /\ n \in Nat
  BY EventsAre DEF Emitted
<1>2. \A i \in S, j \in 1..n : j < i => j \in S
  <2>1. \A i, j \in 1..n : i < j => UserEvents[i].at <= UserEvents[j].at
    BY UserAssumption
  <2> QED BY <2>1, EventsAre
<1>3. Cardinality(S) \in 0..n /\ S = 1..Cardinality(S)
  <2> HIDE DEF n
  <2>1. S \in SUBSET (1..n)
    OBVIOUS
  <2> HIDE DEF S
  <2> QED BY <1>1, <1>2, <2>1, InitialPart
<1>4. \A i \in 1..n : UserEvents[i].at <= h <=> i \in S
  OBVIOUS
<1> HIDE DEF S
<1> QED BY <1>1, <1>3, <1>4

\* One event more changes what the registry says of its own address only.
LEMMA NameAfterNext ==
  ASSUME NEW p \in Nat, NEW a
  PROVE  /\ UserEvents[p + 1].address = a => NameAfter(a, p + 1) = NameOf(UserEvents[p + 1])
         /\ UserEvents[p + 1].address # a => NameAfter(a, p + 1) = NameAfter(a, p)
<1>1. ASSUME UserEvents[p + 1].address = a
      PROVE  Max(EventsUpTo(a, p + 1)) = p + 1
  <2> DEFINE S == EventsUpTo(a, p + 1)
  <2>1. S \in SUBSET (0..(p + 1)) /\ p + 1 \in S /\ p + 1 \in Nat
    BY <1>1 DEF EventsUpTo
  <2> HIDE DEF S
  <2>2. Max(S) \in S /\ \A y \in S : Max(S) >= y
    BY <2>1, MaxOfBounded
  <2> QED BY <2>1, <2>2 DEF S
<1>2. ASSUME UserEvents[p + 1].address # a
      PROVE  EventsUpTo(a, p + 1) = EventsUpTo(a, p)
  <2>1. 1..(p + 1) = 1..p \union {p + 1}
    OBVIOUS
  <2> QED BY <1>2, <2>1 DEF EventsUpTo
<1> QED BY <1>1, <1>2 DEF NameAfter

-----------------------------------------------------------------------------
LEMMA RowUpdates ==
  ASSUME NEW r \in Row
  PROVE  /\ [r EXCEPT !.deleted = TRUE] \in Row /\ [r EXCEPT !.deleted = TRUE].deleted
         /\ [r EXCEPT !.deleted = TRUE].address = r.address
         /\ [r EXCEPT !.alias = TRUE] \in Row /\ [r EXCEPT !.alias = TRUE].alias
         /\ [r EXCEPT !.alias = TRUE].address = r.address
BY DEF Row

LEMMA UpsertedOf ==
  ASSUME NEW e \in Range(UserEvents), e.kind # "Deleted", Owned(users)
  PROVE  /\ Owned(Upserted(e)) /\ e.name \in DOMAIN Upserted(e)
         /\ Upserted(e)[e.name] = [address |-> e.address, alias |-> FALSE, deleted |-> FALSE]
         /\ \A a : a # e.address => Currents(Upserted(e), a) = Currents(users, a)
<1> DEFINE row == [address |-> e.address, alias |-> FALSE, deleted |-> FALSE]
           u == Upserted(e)
<1>1. DOMAIN u = DOMAIN users \union {e.name} /\ u[e.name] = row
  BY DEF Upserted
<1>2. \A n \in DOMAIN u : n # e.name => n \in DOMAIN users /\ u[n] = users[n]
  BY DEF Upserted
<1>3. row \in Row /\ row.address = e.address
  BY DEF Row
<1>4. e.name \in DOMAIN users => users[e.name].address = e.address
  BY NamesAreKept DEF Owned
<1> HIDE DEF row, u
<1>5. Owned(u)
  BY <1>1, <1>2, <1>3 DEF Owned
<1>6. ASSUME NEW a, a # e.address
      PROVE  Currents(u, a) = Currents(users, a)
  <2>1. \A n : n \in DOMAIN u /\ u[n].address = a =>
                 n \in DOMAIN users /\ users[n] = u[n]
    BY <1>1, <1>2, <1>3, <1>6
  <2>2. \A n : n \in DOMAIN users /\ users[n].address = a =>
                 n \in DOMAIN u /\ users[n] = u[n]
    BY <1>1, <1>2, <1>4, <1>6
  <2> QED BY <2>1, <2>2 DEF Currents
<1> QED BY <1>1, <1>5, <1>6 DEF u, row

LEMMA TombstonedOf ==
  ASSUME NEW b, Owned(users)
  PROVE  /\ Owned(Tombstoned(b)) /\ Currents(Tombstoned(b), b) = {}
         /\ \A a : a # b => Currents(Tombstoned(b), a) = Currents(users, a)
<1> DEFINE u == Tombstoned(b)
<1>1. DOMAIN u = DOMAIN users
  BY DEF Tombstoned
<1>2. \A n \in DOMAIN users :
        u[n] = IF users[n].address = b THEN [users[n] EXCEPT !.deleted = TRUE] ELSE users[n]
  BY DEF Tombstoned, NamesOf
<1> HIDE DEF u
<1>3. \A n \in DOMAIN users :
        /\ u[n] \in Row /\ u[n].address = users[n].address
        /\ users[n].address = b => u[n].deleted
        /\ users[n].address # b => u[n] = users[n]
  <2>1. TAKE n \in DOMAIN users
  <2>2. users[n] \in Row
    BY DEF Owned
  <2> QED BY <1>2, <2>2, RowUpdates
<1>4. Owned(u)
  BY <1>1, <1>3 DEF Owned
<1>5. Currents(u, b) = {}
  BY <1>1, <1>3 DEF Currents
<1>6. \A a : a # b => Currents(u, a) = Currents(users, a)
  BY <1>1, <1>3 DEF Currents
<1> QED BY <1>4, <1>5, <1>6 DEF u

LEMMA DemotedOf ==
  ASSUME NEW b, NEW name \in DOMAIN users, Owned(users),
         users[name] = [address |-> b, alias |-> FALSE, deleted |-> FALSE]
  PROVE  /\ Owned(Demoted(b, name)) /\ Currents(Demoted(b, name), b) = {name}
         /\ \A a : a # b => Currents(Demoted(b, name), a) = Currents(users, a)
<1> DEFINE u == Demoted(b, name)
<1>1. DOMAIN u = DOMAIN users
  BY DEF Demoted
<1>2. \A n \in DOMAIN users :
        u[n] = IF users[n].address = b /\ n # name
               THEN [users[n] EXCEPT !.alias = TRUE] ELSE users[n]
  BY DEF Demoted, NamesOf
<1> HIDE DEF u
<1>3. \A n \in DOMAIN users :
        /\ u[n] \in Row /\ u[n].address = users[n].address
        /\ users[n].address = b /\ n # name => u[n].alias
        /\ users[n].address # b \/ n = name => u[n] = users[n]
  <2>1. TAKE n \in DOMAIN users
  <2>2. users[n] \in Row
    BY DEF Owned
  <2> QED BY <1>2, <2>2, RowUpdates
<1>4. Owned(u)
  BY <1>1, <1>3 DEF Owned
<1>5. Currents(u, b) = {name}
  BY <1>1, <1>3 DEF Currents
<1>6. \A a : a # b => Currents(u, a) = Currents(users, a)
  BY <1>1, <1>3 DEF Currents
<1> QED BY <1>4, <1>5, <1>6 DEF u

-----------------------------------------------------------------------------
LEMMA UserTypes ==
  UserTypeOK <=>
    /\ userTip \in 0..UserHeight /\ userSlow \in 0..userTip
    /\ userFaults \in 0..MaxUserFaults
    /\ Owned(users)
    /\ userStep \in {"ask", "event", "demote"}
    /\ asOf \in -1..userTip /\ shown \in -1..userTip
    /\ log \in Seq(Range(UserEvents)) /\ Len(log) <= Len(UserEvents)
BY DEF UserTypeOK, Owned, Row

LEMMA InitUserInv == UserInit => UserInv
<1> SUFFICES ASSUME UserInit PROVE UserInv
  OBVIOUS
<1>1. Owned(users)
  BY DEF UserInit, Owned
<1>2. log = <<>> /\ log \in Seq(Range(UserEvents)) /\ Len(log) = 0
  BY DEF UserInit
<1>3. UserTypeOK
  BY <1>1, <1>2, UserAssumption, EventsAre, UserTypes DEF UserInit
<1> QED BY <1>3 DEF UserInv, UserInit, LogInv, DemoteInv, ReplayInv, UsersMatch

\* The chain and its replicas.
LEMMA BlocksStep ==
  ASSUME UserInv, UserGrow \/ UserCatchUp
  PROVE  UserInv'
<1>1. /\ userTip' \in 0..UserHeight /\ userTip <= userTip' /\ userSlow' \in 0..userTip'
      /\ UNCHANGED <<userFaults, users, userStep, log, asOf, shown>>
  BY UserAssumption, UserTypes DEF UserInv, UserGrow, UserCatchUp
<1>2. UserTypeOK'
  <2>1. asOf' \in -1..userTip' /\ shown' \in -1..userTip'
    BY <1>1, UserAssumption, UserTypes DEF UserInv
  <2>2. Owned(users)'
    BY <1>1, UserTypes DEF UserInv, Owned
  <2>3. /\ userFaults' \in 0..MaxUserFaults /\ userStep' \in {"ask", "event", "demote"}
        /\ log' \in Seq(Range(UserEvents)) /\ Len(log') <= Len(UserEvents)
    BY <1>1, UserTypes DEF UserInv
  <2> QED BY <1>1, <2>1, <2>2, <2>3, UserTypes DEF UserTypeOK, Owned, Row
<1>3. LogInv' /\ DemoteInv' /\ ReplayInv'
  BY <1>1 DEF UserInv, LogInv, DemoteInv, ReplayInv, Done, Currents
<1>4. UsersMatch'
  BY <1>1 DEF UserInv, UsersMatch, NamesOf
<1> QED BY <1>2, <1>3, <1>4 DEF UserInv

\* The answer: all of it is left to replay, and nothing is claimed of the table.
LEMMA AskStep ==
  ASSUME UserInv, AskRegistry
  PROVE  UserInv'
<1>1. PICK t \in userSlow..userTip :
        asOf' = t /\ log' = ReplayOrder(SubSeq(UserEvents, 1, Emitted(t)))
  BY DEF AskRegistry
<1>2. /\ userStep' = "event" /\ shown' = -1
      /\ UNCHANGED <<userTip, userSlow, userFaults, users>>
  BY DEF AskRegistry
<1>3. t \in Int /\ t \in 0..userTip
  BY UserAssumption, UserTypes DEF UserInv
<1>4. Emitted(t) \in 0..Len(UserEvents) /\ Len(UserEvents) \in Nat
  BY <1>3, EmittedFirst, EventsAre
<1>5. /\ log' \in Seq(Range(UserEvents)) /\ Len(log') = Emitted(t)
      /\ \A i \in 1..Len(log') : log'[i] = UserEvents[i]
  <2>1. log' = SubSeq(UserEvents, 1, Emitted(t))
    BY <1>1 DEF ReplayOrder
  <2> DEFINE m == Emitted(t)
  <2> HIDE DEF m
  <2>2. /\ SubSeq(UserEvents, 1, m) \in Seq(Range(UserEvents))
        /\ Len(SubSeq(UserEvents, 1, m)) = m
        /\ \A i \in 1..m : SubSeq(UserEvents, 1, m)[i] = UserEvents[i]
    <3>1. m \in 0..Len(UserEvents)
      BY <1>4 DEF m
    <3> QED BY <1>4, <3>1, EventsAre
  <2> QED BY <2>1, <2>2 DEF m
<1>6. Done' = 0
  BY <1>1, <1>4, <1>5 DEF Done
<1>7. UserTypeOK'
  <2>1. Owned(users)'
    BY <1>2, UserTypes DEF UserInv, Owned
  <2>2. asOf' \in -1..userTip' /\ shown' \in -1..userTip'
    BY <1>1, <1>2, <1>3, UserAssumption, UserTypes DEF UserInv
  <2>3. /\ userTip' \in 0..UserHeight /\ userSlow' \in 0..userTip'
        /\ userFaults' \in 0..MaxUserFaults /\ userStep' \in {"ask", "event", "demote"}
    BY <1>2, UserTypes DEF UserInv
  <2> QED BY <1>4, <1>5, <2>1, <2>2, <2>3 DEF UserTypeOK, Owned, Row
<1>8. LogInv'
  <2>1. Emitted(asOf') = Emitted(t) /\ shown' = -1
    BY <1>1, <1>2
  <2>2. \A i \in 1..Len(log') : log'[i] = UserEvents[Done' + i]
    BY <1>4, <1>5, <1>6
  <2> QED BY <1>4, <1>5, <2>1, <2>2 DEF LogInv
<1> QED BY <1>2, <1>6, <1>7, <1>8 DEF UserInv, DemoteInv, ReplayInv, UsersMatch

\* One event has been replayed: what is left is the rest of the log.
LEMMA OneReplayed ==
  ASSUME UserInv, userStep # "ask", log # <<>>,
         log' = Tail(log), UNCHANGED <<asOf, shown>>
  PROVE  /\ log' \in Seq(Range(UserEvents)) /\ Len(log') <= Len(UserEvents)
         /\ LogInv' /\ Head(log) \in Range(UserEvents)
         /\ asOf >= 0 => /\ Done \in Nat /\ Done' = Done + 1
                         /\ Head(log) = UserEvents[Done + 1]
<1>1. log \in Seq(Range(UserEvents)) /\ Len(log) <= Len(UserEvents) /\ asOf \in Int
  BY UserAssumption, UserTypes DEF UserInv
<1>2. /\ Head(log) \in Range(UserEvents) /\ Head(log) = log[1]
      /\ log' \in Seq(Range(UserEvents)) /\ Len(log') = Len(log) - 1
      /\ Len(log) \in Nat /\ Len(log) >= 1
      /\ \A i \in 1..Len(log') : log'[i] = log[i + 1]
  BY <1>1, HeadTailProperties, EmptySeq, LenProperties
<1>3. Len(UserEvents) \in Nat
  BY EventsAre
<1>4. ASSUME asOf >= 0
      PROVE  /\ Done \in Nat /\ Done' = Done + 1 /\ Head(log) = UserEvents[Done + 1]
             /\ Len(log') <= Emitted(asOf')
             /\ \A i \in 1..Len(log') : log'[i] = UserEvents[Done' + i]
  <2>1. /\ Emitted(asOf) \in Nat /\ Len(log) <= Emitted(asOf)
        /\ \A i \in 1..Len(log) : log[i] = UserEvents[Done + i]
    BY <1>1, <1>3, <1>4, EmittedFirst DEF UserInv, LogInv
  <2>2. Emitted(asOf') = Emitted(asOf)
    OBVIOUS
  <2>3. Done \in Nat /\ Done' = Done + 1
    BY <1>2, <2>1, <2>2 DEF Done
  <2>4. \A i \in 1..Len(log') : log'[i] = UserEvents[Done' + i]
    <3>1. TAKE i \in 1..Len(log')
    <3>2. i + 1 \in 1..Len(log) /\ Done + (i + 1) = Done' + i
      BY <1>2, <2>3
    <3> QED BY <1>2, <2>1, <3>2
  <2>5. Head(log) = UserEvents[Done + 1] /\ Len(log') <= Emitted(asOf')
    BY <1>2, <2>1, <2>2
  <2> QED BY <2>3, <2>4, <2>5
<1>5. LogInv'
  BY <1>4 DEF UserInv, LogInv
<1> QED BY <1>1, <1>2, <1>3, <1>4, <1>5

\* The table is right again when the event's own address is.
LEMMA RightAgain ==
  ASSUME NEW u, NEW v, NEW p \in Nat,
         \A i \in 1..p : \/ UserEvents[i].address = UserEvents[p + 1].address
                         \/ Currents(u, UserEvents[i].address) = NameAfter(UserEvents[i].address, p),
         \A a : a # UserEvents[p + 1].address => Currents(v, a) = Currents(u, a),
         Currents(v, UserEvents[p + 1].address) = NameOf(UserEvents[p + 1])
  PROVE  \A i \in 1..(p + 1) :
           Currents(v, UserEvents[i].address) = NameAfter(UserEvents[i].address, p + 1)
<1>1. TAKE i \in 1..(p + 1)
<1>2. CASE UserEvents[i].address = UserEvents[p + 1].address
  BY <1>2, NameAfterNext
<1>3. CASE UserEvents[i].address # UserEvents[p + 1].address
  <2>1. i \in 1..p
    BY <1>3
  <2> QED BY <1>3, <2>1, NameAfterNext
<1> QED BY <1>2, <1>3

\* MarkUserDeleted ends its event.
LEMMA DeleteStep ==
  ASSUME UserInv, ReplayEvent, Head(log).kind = "Deleted"
  PROVE  UserInv'
<1> DEFINE e == Head(log)
<1>1. /\ userStep = "event" /\ userStep' = "event" /\ log # <<>> /\ log' = Tail(log)
      /\ users' = Tombstoned(e.address)
      /\ UNCHANGED <<userTip, userSlow, userFaults, asOf, shown>>
  BY DEF ReplayEvent
<1>2. /\ log' \in Seq(Range(UserEvents)) /\ Len(log') <= Len(UserEvents) /\ LogInv'
      /\ asOf >= 0 => Done \in Nat /\ Done' = Done + 1 /\ e = UserEvents[Done + 1]
  BY <1>1, OneReplayed
<1>3. /\ Owned(users') /\ Currents(users', e.address) = {}
      /\ \A a : a # e.address => Currents(users', a) = Currents(users, a)
  BY <1>1, TombstonedOf, UserTypes DEF UserInv
<1>4. UserTypeOK'
  <2>1. /\ userTip' \in 0..UserHeight /\ userSlow' \in 0..userTip' /\ userFaults' \in 0..MaxUserFaults
        /\ userStep' \in {"ask", "event", "demote"} /\ asOf' \in -1..userTip' /\ shown' \in -1..userTip'
    BY <1>1, UserTypes DEF UserInv
  <2> QED BY <1>2, <1>3, <2>1 DEF UserTypeOK, Owned, Row
<1>5. ReplayInv'
  <2>1. SUFFICES ASSUME asOf >= 0
                 PROVE  \A i \in 1..(Done + 1) :
                          Currents(users', UserEvents[i].address) =
                            NameAfter(UserEvents[i].address, Done + 1)
    BY <1>1, <1>2 DEF ReplayInv
  <2>2. \A i \in 1..Done : Currents(users, UserEvents[i].address) = NameAfter(UserEvents[i].address, Done)
    BY <1>1, <2>1 DEF UserInv, ReplayInv
  <2>3. Done \in Nat /\ e = UserEvents[Done + 1]
    BY <1>2, <2>1
  <2>4. Currents(users', e.address) = NameOf(e)
    BY <1>3 DEF NameOf
  <2> HIDE DEF e
  <2> QED BY <1>3, <2>2, <2>3, <2>4, RightAgain
<1>6. DemoteInv' /\ UsersMatch'
  BY <1>1 DEF UserInv, DemoteInv, UsersMatch, LogInv
<1> QED BY <1>2, <1>4, <1>5, <1>6 DEF UserInv

\* UpsertUser leaves the names of other addresses as they were.
LEMMA UpsertStep ==
  ASSUME UserInv, ReplayEvent, Head(log).kind # "Deleted"
  PROVE  UserInv'
<1> DEFINE e == Head(log)
<1>1. /\ userStep = "event" /\ userStep' = "demote" /\ log # <<>> /\ users' = Upserted(e)
      /\ UNCHANGED <<log, userTip, userSlow, userFaults, asOf, shown>>
  BY DEF ReplayEvent
<1>2. e \in Range(UserEvents)
  BY <1>1, HeadTailProperties, UserTypes DEF UserInv
<1>3. /\ Owned(users') /\ e.name \in DOMAIN users'
      /\ users'[e.name] = [address |-> e.address, alias |-> FALSE, deleted |-> FALSE]
      /\ \A a : a # e.address => Currents(users', a) = Currents(users, a)
  BY <1>1, <1>2, UpsertedOf, UserTypes DEF UserInv
<1>4. UserTypeOK'
  <2>1. /\ userTip' \in 0..UserHeight /\ userSlow' \in 0..userTip' /\ userFaults' \in 0..MaxUserFaults
        /\ userStep' \in {"ask", "event", "demote"} /\ asOf' \in -1..userTip' /\ shown' \in -1..userTip'
        /\ log' \in Seq(Range(UserEvents)) /\ Len(log') <= Len(UserEvents)
    BY <1>1, UserTypes DEF UserInv
  <2> QED BY <1>3, <2>1 DEF UserTypeOK, Owned, Row
<1>5. LogInv' /\ UsersMatch'
  BY <1>1 DEF UserInv, LogInv, UsersMatch, Done
<1>6. DemoteInv'
  BY <1>1, <1>3 DEF DemoteInv
<1>7. ReplayInv'
  <2>1. Done' = Done /\ Head(log') = e
    BY <1>1 DEF Done
  <2>2. asOf >= 0 => \A i \in 1..Done : Currents(users, UserEvents[i].address) =
                                          NameAfter(UserEvents[i].address, Done)
    BY <1>1 DEF UserInv, ReplayInv
  <2> QED BY <1>1, <1>3, <2>1, <2>2 DEF ReplayInv
<1> QED BY <1>4, <1>5, <1>6, <1>7 DEF UserInv

\* DemoteUserAliases makes the event's name the only current one of its address.
LEMMA DemoteStep ==
  ASSUME UserInv, Demote
  PROVE  UserInv'
<1> DEFINE e == Head(log)
<1>1. /\ userStep = "demote" /\ userStep' = "event" /\ log' = Tail(log)
      /\ users' = Demoted(e.address, e.name)
      /\ UNCHANGED <<userTip, userSlow, userFaults, asOf, shown>>
  BY DEF Demote
<1>2. /\ log # <<>> /\ e.kind # "Deleted" /\ e.name \in DOMAIN users
      /\ users[e.name] = [address |-> e.address, alias |-> FALSE, deleted |-> FALSE]
  BY <1>1 DEF UserInv, DemoteInv
<1>3. /\ log' \in Seq(Range(UserEvents)) /\ Len(log') <= Len(UserEvents) /\ LogInv'
      /\ asOf >= 0 => Done \in Nat /\ Done' = Done + 1 /\ e = UserEvents[Done + 1]
  BY <1>1, <1>2, OneReplayed
<1>4. /\ Owned(users') /\ Currents(users', e.address) = {e.name}
      /\ \A a : a # e.address => Currents(users', a) = Currents(users, a)
  BY <1>1, <1>2, DemotedOf, UserTypes DEF UserInv
<1>5. UserTypeOK'
  <2>1. /\ userTip' \in 0..UserHeight /\ userSlow' \in 0..userTip' /\ userFaults' \in 0..MaxUserFaults
        /\ userStep' \in {"ask", "event", "demote"} /\ asOf' \in -1..userTip' /\ shown' \in -1..userTip'
    BY <1>1, UserTypes DEF UserInv
  <2> QED BY <1>3, <1>4, <2>1 DEF UserTypeOK, Owned, Row
<1>6. ReplayInv'
  <2>1. SUFFICES ASSUME asOf >= 0
                 PROVE  \A i \in 1..(Done + 1) :
                          Currents(users', UserEvents[i].address) =
                            NameAfter(UserEvents[i].address, Done + 1)
    BY <1>1, <1>3 DEF ReplayInv
  <2>2. \A i \in 1..Done : \/ UserEvents[i].address = e.address
                           \/ Currents(users, UserEvents[i].address) = NameAfter(UserEvents[i].address, Done)
    BY <1>1, <2>1 DEF UserInv, ReplayInv
  <2>3. Done \in Nat /\ e = UserEvents[Done + 1]
    BY <1>3, <2>1
  <2>4. Currents(users', e.address) = NameOf(e)
    BY <1>2, <1>4 DEF NameOf
  <2> HIDE DEF e
  <2> QED BY <1>4, <2>2, <2>3, <2>4, RightAgain
<1>7. DemoteInv' /\ UsersMatch'
  BY <1>1 DEF UserInv, DemoteInv, UsersMatch, LogInv
<1> QED BY <1>3, <1>5, <1>6, <1>7 DEF UserInv

\* The replay has met every event of the answer, so the table is the answer's.
LEMMA ReplayedStep ==
  ASSUME UserInv, Replayed
  PROVE  UserInv'
<1>1. /\ userStep = "event" /\ log = <<>> /\ userStep' = "ask" /\ shown' = asOf
      /\ UNCHANGED <<userTip, userSlow, userFaults, users, log, asOf>>
  BY DEF Replayed
<1>2. UserTypeOK'
  <2>1. Owned(users)'
    BY <1>1, UserTypes DEF UserInv, Owned
  <2>2. /\ userTip' \in 0..UserHeight /\ userSlow' \in 0..userTip' /\ userFaults' \in 0..MaxUserFaults
        /\ userStep' \in {"ask", "event", "demote"} /\ asOf' \in -1..userTip' /\ shown' \in -1..userTip'
        /\ log' \in Seq(Range(UserEvents)) /\ Len(log') <= Len(UserEvents)
    BY <1>1, UserTypes DEF UserInv
  <2> QED BY <2>1, <2>2 DEF UserTypeOK, Owned, Row
<1>3. UsersMatch'
  <2>1. SUFFICES ASSUME asOf >= 0, NEW i \in 1..Len(UserEvents), UserEvents[i].at <= asOf
                 PROVE  Currents(users, UserEvents[i].address) = CurrentName(UserEvents[i].address, asOf)
    BY <1>1, EventsAre DEF UsersMatch, Currents, NamesOf
  <2>2. asOf \in Int
    BY UserAssumption, UserTypes DEF UserInv
  <2>3. /\ Emitted(asOf) \in 0..Len(UserEvents) /\ Len(UserEvents) \in Nat
        /\ \A j \in 1..Len(UserEvents) : UserEvents[j].at <= asOf <=> j <= Emitted(asOf)
    BY <2>2, EmittedFirst, EventsAre
  <2>4. Done = Emitted(asOf)
    BY <1>1, <2>3 DEF Done
  <2>5. i \in 1..Done
    BY <2>1, <2>3, <2>4
  <2>6. Currents(users, UserEvents[i].address) = NameAfter(UserEvents[i].address, Done)
    BY <1>1, <2>1, <2>5 DEF UserInv, ReplayInv
  <2>7. EventsUpTo(UserEvents[i].address, Done) = EventsOf(UserEvents[i].address, asOf)
    BY <2>3, <2>4, EventsAre DEF EventsUpTo, EventsOf
  <2> QED BY <2>6, <2>7 DEF NameAfter, NameOf, CurrentName
<1> QED BY <1>1, <1>2, <1>3 DEF UserInv, LogInv, DemoteInv, ReplayInv

\* A replay that breaks off claims nothing, and one that had ended stands.
LEMMA EndsStep ==
  ASSUME UserInv, ReplayEnds
  PROVE  UserInv'
<1>1. /\ userFaults < MaxUserFaults /\ userFaults' = userFaults + 1 /\ userStep' = "ask" /\ log' = <<>>
      /\ UNCHANGED <<userTip, userSlow, users, asOf, shown>>
  BY DEF ReplayEnds
<1>2. UserTypeOK'
  <2>1. Owned(users)'
    BY <1>1, UserTypes DEF UserInv, Owned
  <2>2. /\ userTip' \in 0..UserHeight /\ userSlow' \in 0..userTip' /\ userStep' \in {"ask", "event", "demote"}
        /\ asOf' \in -1..userTip' /\ shown' \in -1..userTip'
    BY <1>1, UserTypes DEF UserInv
  <2>3. log' \in Seq(Range(UserEvents)) /\ Len(log') <= Len(UserEvents)
    BY <1>1, EventsAre
  <2>4. userFaults' \in 0..MaxUserFaults
    BY <1>1, UserAssumption, UserTypes DEF UserInv
  <2> QED BY <2>1, <2>2, <2>3, <2>4 DEF UserTypeOK, Owned, Row
<1>3. UsersMatch'
  BY <1>1 DEF UserInv, UsersMatch, NamesOf
<1> QED BY <1>1, <1>2, <1>3 DEF UserInv, LogInv, DemoteInv, ReplayInv

\* After a statement that failed nothing is claimed of the table.
LEMMA FailsStep ==
  ASSUME UserInv, StatementFails
  PROVE  UserInv'
<1>1. /\ userFaults < MaxUserFaults /\ userFaults' = userFaults + 1 /\ userStep' = "event"
      /\ log' = Tail(log) /\ asOf' = -1 /\ userStep # "ask"
      /\ UNCHANGED <<userTip, userSlow, users, shown>>
  BY DEF StatementFails
<1>2. log # <<>>
  BY DEF StatementFails, UserInv, DemoteInv
<1>3. log' \in Seq(Range(UserEvents)) /\ Len(log') <= Len(UserEvents)
  <2>1. log \in Seq(Range(UserEvents)) /\ Len(log) <= Len(UserEvents)
    BY UserTypes DEF UserInv
  <2>2. /\ Tail(log) \in Seq(Range(UserEvents)) /\ Len(Tail(log)) = Len(log) - 1
        /\ Len(log) \in Nat /\ Len(UserEvents) \in Nat
    BY <1>2, <2>1, HeadTailProperties, LenProperties, EventsAre
  <2> QED BY <1>1, <2>1, <2>2
<1>4. shown' = -1
  BY <1>1 DEF UserInv, LogInv
<1>5. UserTypeOK'
  <2>1. Owned(users)'
    BY <1>1, UserTypes DEF UserInv, Owned
  <2>2. userTip' \in 0..UserHeight /\ userSlow' \in 0..userTip' /\ userStep' \in {"ask", "event", "demote"}
    BY <1>1, UserTypes DEF UserInv
  <2>3. asOf' \in -1..userTip' /\ shown' \in -1..userTip'
    BY <1>1, <1>4, <2>2, UserAssumption
  <2>4. userFaults' \in 0..MaxUserFaults
    BY <1>1, UserAssumption, UserTypes DEF UserInv
  <2> QED BY <1>3, <2>1, <2>2, <2>3, <2>4 DEF UserTypeOK, Owned, Row
<1>6. ~ (asOf' >= 0) /\ ~ (shown' >= 0)
  BY <1>1, <1>4
<1> QED BY <1>1, <1>4, <1>5, <1>6 DEF UserInv, LogInv, DemoteInv, ReplayInv, UsersMatch

LEMMA NextUserInv == UserInv /\ [UserNext]_userVars => UserInv'
<1> SUFFICES ASSUME UserInv, [UserNext]_userVars PROVE UserInv'
  OBVIOUS
<1>1. CASE UserGrow \/ UserCatchUp
  BY <1>1, BlocksStep
<1>2. CASE AskRegistry
  BY <1>2, AskStep
<1>3. CASE ReplayEvent
  BY <1>3, DeleteStep, UpsertStep
<1>4. CASE Demote
  BY <1>4, DemoteStep
<1>5. CASE Replayed
  BY <1>5, ReplayedStep
<1>6. CASE ReplayEnds
  BY <1>6, EndsStep
<1>7. CASE StatementFails
  BY <1>7, FailsStep
<1>8. CASE UNCHANGED userVars
  <2>1. UNCHANGED <<userTip, userSlow, userFaults, users, userStep, log, asOf, shown>>
    BY <1>8 DEF userVars
  <2> QED BY <2>1 DEF UserInv, UserTypeOK, LogInv, DemoteInv, ReplayInv, UsersMatch,
                      Done, Currents, NamesOf
<1> QED BY <1>1, <1>2, <1>3, <1>4, <1>5, <1>6, <1>7, <1>8 DEF UserNext, UserPass

\* The invariant holds in every behaviour of syncUsers.
THEOREM UserInvHolds == UserSafety => []UserInv
BY InitUserInv, NextUserInv, PTL DEF UserSafety

\* Every row of the users table is of a name that the realm gave to the address of
\* the row (recordUserEvent, UpsertUser).
THEOREM UserTyped == UserSafety => []UserTypeOK
<1>1. UserInv => UserTypeOK
  BY DEF UserInv
<1> QED BY <1>1, UserInvHolds, PTL

\* A replay of which every statement went through leaves the table with the
\* current names that the registry had at the height of the answer (syncUsers).
THEOREM RegistryMatches == UserSafety => []UsersMatch
<1>1. UserInv => UsersMatch
  BY DEF UserInv
<1> QED BY <1>1, UserInvHolds, PTL

-----------------------------------------------------------------------------
(***************************************************************************)
(* Walks: what holds of each walk holds of them together. A step of one is *)
(* a stutter of the other seven, so that a behaviour of SyncAll is one of  *)
(* every walk, and what is proved of a walk carries over.                  *)
(***************************************************************************)
LEMMA OneWalkMoves ==
  ASSUME [WalksNext]_walksVars
  PROVE  /\ [BlockNext]_blockVars /\ [ChainNext]_chainVars
         /\ [TxNext]_txVars /\ [LedgerNext]_ledgerVars /\ [SessionNext]_sessionVars
         /\ [CoinNextStep]_coinVars /\ [UserNext]_userVars /\ [RepairNext]_repairVars
<1>1. CASE OnlyBlocks /\ BlockNext
  BY <1>1, Zenon DEF OnlyBlocks
<1>2. CASE OnlyReset /\ ChainNext
  BY <1>2, Zenon DEF OnlyReset
<1>3. CASE OnlyTx /\ TxNext
  BY <1>3, Zenon DEF OnlyTx
<1>4. CASE OnlyLedger /\ LedgerNext
  BY <1>4, Zenon DEF OnlyLedger
<1>5. CASE OnlySessions /\ SessionNext
  BY <1>5, Zenon DEF OnlySessions
<1>6. CASE OnlyCoins /\ CoinNextStep
  BY <1>6, Zenon DEF OnlyCoins
<1>7. CASE OnlyUsers /\ UserNext
  BY <1>7, Zenon DEF OnlyUsers
<1>8. CASE OnlyRepairs /\ RepairNext
  BY <1>8, Zenon DEF OnlyRepairs
<1>9. CASE UNCHANGED walksVars
  BY <1>9 DEF walksVars
<1> QED BY <1>1, <1>2, <1>3, <1>4, <1>5, <1>6, <1>7, <1>8, <1>9, Zenon DEF WalksNext

\* A behaviour of SyncAll is, of each of its walks, a behaviour of that walk.
THEOREM EachWalkIsItsOwn ==
  WalksSpec => /\ BlockSafety /\ ChainSafety
               /\ TxSafety /\ LedgerSafety /\ SessionSafety
               /\ CoinSafety /\ UserSafety /\ RepairSafety
<1>1. WalksInit => /\ BlockInit /\ ChainInit
                   /\ TxInit /\ LedgerInit /\ SessionInit
                   /\ CoinInit /\ UserInit /\ RepairInit
  BY DEF WalksInit
<1>2. [WalksNext]_walksVars =>
        /\ [BlockNext]_blockVars /\ [ChainNext]_chainVars
        /\ [TxNext]_txVars /\ [LedgerNext]_ledgerVars /\ [SessionNext]_sessionVars
        /\ [CoinNextStep]_coinVars /\ [UserNext]_userVars /\ [RepairNext]_repairVars
  BY OneWalkMoves
<1> QED BY <1>1, <1>2, PTL DEF WalksSpec, BlockSafety, ChainSafety, TxSafety, LedgerSafety,
                                SessionSafety, CoinSafety, UserSafety, RepairSafety

\* The types of the six walks hold of SyncAll, for any chain, batches, windows,
\* lags and number of faults.
THEOREM WalksTyped == WalksSpec => []WalksTypeOK
<1>1. TxTypeOK /\ LedgerTypeOK /\ SessionTypeOK /\ CoinTypeOK /\ UserTypeOK /\ RepairTypeOK =>
        WalksTypeOK
  BY DEF WalksTypeOK
<1> QED BY <1>1, EachWalkIsItsOwn, TxTypes, LedgerTypes, SessionTypes, CoinTypes, UserTyped,
           RepairTypes, PTL

\* The four walks over old history (backfillTokenTransfers, backfillSessions,
\* backfillCoinTransfers, backfillMessageArgs) keep the promise of Backfill in
\* every behaviour of SyncAll.
THEOREM WalksKeepPromise == WalksSpec => BackfillsKeepPromise
BY EachWalkIsItsOwn, LedgerKeepsItsPromise, SweepKeepsItsPromise, CoinsKeepTheirPromise,
   ArgsKeepTheirPromise, PTL DEF BackfillsKeepPromise
=============================================================================
