----------------------------- MODULE TokenLedger ------------------------------
(***************************************************************************)
(* The token ledger of one network and the walk over the history it never  *)
(* saw (pkg/syncer: backfillTokenTransfers, recordTokenTransfers; pkg/     *)
(* store: TokenBackfillRange).  syncCalls records the transfers of every   *)
(* transaction it fetches, but a database older than the feature resumes   *)
(* above its history, so a bounded batch per pass walks from the lowest    *)
(* stored block up to the first height the ledger has recorded.            *)
(*                                                                         *)
(* A transfer is the height it happened at: the ledger is the set of       *)
(* heights whose transfers are stored.  Inserts ignore what is already     *)
(* there, and one that fails is logged and left out: both passes go on.    *)
(* The blocks table and the call cursor belong to other passes and move as *)
(* those passes may move them: blocks at both ends of their range, calls   *)
(* upwards to wherever the answering replica stands.                       *)
(***************************************************************************)
EXTENDS Integers, FiniteSetsExt, Heights

CONSTANTS
  Transfers,      \* the heights that carry a token transfer
  WalkBatch,      \* backfillTxBatch
  LedgerLag,      \* how many blocks a replica may trail the chain
  LedgerHeight,   \* bound: the chain stops growing here
  MaxLedgerFaults \* bound: failed calls, failed inserts and restarts together

ASSUME TokenLedgerAssumption ==
  /\ Transfers \subseteq 1..LedgerHeight
  /\ WalkBatch \in Nat \ {0}
  /\ LedgerLag \in Nat
  /\ LedgerHeight \in Nat
  /\ MaxLedgerFaults \in Nat

VARIABLES
  ledgerTip,    \* height of the chain
  ledgerSlow,   \* height of the slowest replica
  ledgerFaults, \* faults so far
  low,          \* durable: MIN(height) over blocks, 0 when there are none
  high,         \* durable: MAX(height) over blocks
  calls,        \* durable: the height syncCalls has reached
  ledger,       \* durable: heights in token_transfers
  walkCursor,   \* durable: sync_state token_backfill_cursor, 0 for ""
  ledgerStep,   \* the step of SyncAll that comes next
  from,         \* the batch of this pass
  to,
  walkDone,     \* up to where it answered
  walkStart,    \* history: where the walk began, 0 before
  missed,       \* history: heights a replica answered for without having them
  unstored      \* history: heights whose insert has failed or was never reached

ledgerEnv     == <<ledgerTip, ledgerSlow>>
ledgerDurable == <<low, high, calls, ledger, walkCursor>>
walkBatch     == <<from, to, walkDone>>
ledgerHist    == <<walkStart, missed, unstored>>
ledgerVars    == <<ledgerEnv, ledgerFaults, ledgerDurable, ledgerStep, walkBatch, ledgerHist>>

LedgerSteps == {"blocks", "range", "walk", "cursor", "calls"}

LedgerReplies == ledgerSlow..ledgerTip

\* Mutant: a pass begins at the lowest block again.
RangeFromLowest == low

\* TokenBackfillRange: from the lowest block or the cursor, up to the lowest
\* ledger row, or to the top of the blocks when there is no row.
RangeFrom == Larger(low, walkCursor)
RangeStop == IF ledger = {} THEN high + 1 ELSE Min(ledger)
RangeLeft == low > 0 /\ RangeFrom < RangeStop

\* The transfers of a..b that a replica at top t returns.
Returned(a, b, t) == {h \in Transfers : a <= h /\ h <= b /\ h <= t}

\* recordTokenTransfers: what is there already is ignored, and an insert that
\* fails is skipped.
RecordTransfers(found, failed) ==
  /\ ledger' = ledger \union (found \ failed)
  /\ unstored' = unstored \union (found \intersect failed)

-----------------------------------------------------------------------------
\* A new database, or one that stored blocks and calls before the ledger
\* existed.
LedgerInit ==
  /\ ledgerTip \in 0..LedgerHeight
  /\ ledgerSlow \in 0..ledgerTip
  /\ ledgerTip - ledgerSlow <= LedgerLag
  /\ ledgerFaults = 0
  /\ high \in 0..ledgerTip
  /\ low \in 0..high
  /\ low = 0 <=> high = 0
  /\ calls \in 0..ledgerTip
  /\ ledger = {}
  /\ walkCursor = 0
  /\ ledgerStep = "blocks"
  /\ from = 0 /\ to = 0 /\ walkDone = 0
  /\ walkStart = 0
  /\ missed = {} /\ unstored = {}

LedgerGrow ==
  /\ ledgerTip < LedgerHeight
  /\ ledgerTip + 1 - ledgerSlow <= LedgerLag
  /\ ledgerTip' = ledgerTip + 1
  /\ UNCHANGED <<ledgerSlow, ledgerFaults, ledgerDurable, ledgerStep, walkBatch, ledgerHist>>

LedgerCatchUp ==
  /\ ledgerSlow < ledgerTip
  /\ ledgerSlow' = ledgerSlow + 1
  /\ UNCHANGED <<ledgerTip, ledgerFaults, ledgerDurable, ledgerStep, walkBatch, ledgerHist>>

\* syncBlocks: the range of stored blocks opens anywhere or grows at its ends
\* (BlockRange), by as much as this pass gets.
SyncBlocks ==
  /\ ledgerStep = "blocks"
  /\ \E t \in LedgerReplies :
       \/ high' = Larger(high, t) /\ low' \in (IF low = 0 THEN 1..t ELSE 1..low)
       \/ UNCHANGED <<low, high>>
  /\ ledgerStep' = "range"
  /\ UNCHANGED <<ledgerEnv, ledgerFaults, calls, ledger, walkCursor, walkBatch, ledgerHist>>

NextBatch ==
  /\ ledgerStep = "range"
  /\ IF RangeLeft
     THEN /\ from' = RangeFrom
          /\ to' = Smaller(RangeFrom + WalkBatch, RangeStop)
          /\ walkDone' = RangeFrom
          /\ walkStart' = IF walkStart = 0 THEN RangeFrom ELSE walkStart
          /\ ledgerStep' = "walk"
     ELSE /\ ledgerStep' = "calls"
          /\ UNCHANGED <<walkBatch, walkStart>>
  /\ UNCHANGED <<ledgerEnv, ledgerFaults, ledgerDurable, missed, unstored>>

\* One query per height of the batch, up to the first that is not answered; a
\* replica without the height answers with nothing. The transfers of the answers
\* are recorded but for those in failed, and the cursor is to move if anything
\* was answered.
WalkTo(end, t, failed) ==
  /\ ledgerStep = "walk"
  /\ walkDone' = end
  /\ RecordTransfers(Returned(from, end - 1, t), failed)
  /\ missed' = missed \union {h \in from..end - 1 : h > t}
  /\ ledgerStep' = IF end = from THEN "calls" ELSE "cursor"
  /\ UNCHANGED <<ledgerEnv, low, high, calls, walkCursor, from, to, walkStart>>

Walk == UNCHANGED ledgerFaults /\ \E t \in LedgerReplies : WalkTo(to, t, {})

\* Mutant: the cursor goes to the end of the batch whatever was answered.
CursorToEnd ==
  /\ ledgerStep = "cursor"
  /\ walkCursor' = to
  /\ ledgerStep' = "calls"
  /\ UNCHANGED <<ledgerEnv, ledgerFaults, low, high, calls, ledger, walkBatch, ledgerHist>>

\* Mutant: the cursor goes back to where the batch began.
CursorStays ==
  /\ ledgerStep = "cursor"
  /\ walkCursor' = from
  /\ ledgerStep' = "calls"
  /\ UNCHANGED <<ledgerEnv, ledgerFaults, low, high, calls, ledger, walkBatch, ledgerHist>>

\* SetTokenBackfillCursor.
SetCursor ==
  /\ ledgerStep = "cursor"
  /\ walkCursor' = walkDone
  /\ ledgerStep' = "calls"
  /\ UNCHANGED <<ledgerEnv, ledgerFaults, low, high, calls, ledger, walkBatch, ledgerHist>>

\* syncCalls up to height t, which records the transfers above its own cursor but
\* for those in failed.
CallsTo(t, failed) ==
  /\ ledgerStep = "calls"
  /\ calls' = Larger(calls, t)
  /\ RecordTransfers(Returned(calls + 1, t, t), failed)
  /\ ledgerStep' = "blocks"
  /\ UNCHANGED <<ledgerEnv, low, high, walkCursor, walkBatch, walkStart, missed>>

SyncCalls == UNCHANGED ledgerFaults /\ \E t \in LedgerReplies : CallsTo(t, {})

\* ---- Failures ----

LedgerFault == ledgerFaults < MaxLedgerFaults /\ ledgerFaults' = ledgerFaults + 1

\* A height of the batch is not answered.
WalkBreaks ==
  LedgerFault /\ \E end \in from..to - 1, t \in LedgerReplies : WalkTo(end, t, {})

\* An insert fails: it is logged, and the cursor moves on all the same.
WalkInsertFails ==
  LedgerFault /\ \E t \in LedgerReplies, h \in Transfers : WalkTo(to, t, {h})

\* An insert of the live pass fails, or the process stops inside block t and the
\* rows of t that are stored carry the call cursor over the rest.
CallsFallShort ==
  LedgerFault /\ \E t \in calls..ledgerTip, h \in Transfers : CallsTo(t, {h})

\* The cursor cannot be written, or the range cannot be read.
CallFails ==
  /\ LedgerFault
  /\ ledgerStep \in {"range", "cursor"}
  /\ ledgerStep' = "calls"
  /\ UNCHANGED <<ledgerEnv, ledgerDurable, walkBatch, ledgerHist>>

\* The process stops between two steps.
LedgerRestart ==
  /\ LedgerFault
  /\ ledgerStep' = "blocks"
  /\ from' = 0 /\ to' = 0 /\ walkDone' = 0
  /\ UNCHANGED <<ledgerEnv, ledgerDurable, ledgerHist>>

-----------------------------------------------------------------------------
LedgerPass == SyncBlocks \/ NextBatch \/ Walk \/ SetCursor \/ SyncCalls

LedgerNext ==
  \/ LedgerGrow \/ LedgerCatchUp \/ LedgerPass
  \/ WalkBreaks \/ WalkInsertFails \/ CallsFallShort \/ CallFails \/ LedgerRestart

LedgerSafety == LedgerInit /\ [][LedgerNext]_ledgerVars

\* A pass every 30 seconds, every call returns, replicas keep replaying.
LedgerSpec == LedgerSafety /\ WF_ledgerVars(LedgerPass) /\ WF_ledgerVars(LedgerCatchUp)
-----------------------------------------------------------------------------
(***************************************************************************)
(* Properties.                                                             *)
(***************************************************************************)
LedgerTypeOK ==
  /\ ledgerTip \in 0..LedgerHeight
  /\ ledgerSlow \in 0..ledgerTip
  /\ ledgerFaults \in 0..MaxLedgerFaults
  /\ high \in 0..ledgerTip
  /\ low \in 0..high
  /\ calls \in 0..ledgerTip
  /\ ledger \subseteq Transfers \intersect (1..ledgerTip)
  /\ walkCursor \in 0..ledgerTip + 1
  /\ ledgerStep \in LedgerSteps
  /\ from \in 0..ledgerTip /\ to \in 0..ledgerTip + 1 /\ walkDone \in from..to
  /\ walkStart \in 0..ledgerTip
  /\ missed \subseteq 1..ledgerTip /\ unstored \subseteq Transfers

\* What a pass over a height may leave behind it without a row.
GivenUp == missed \union unstored

\* The cursor passes over no height that did not answer: between where the walk
\* began and the cursor the ledger lacks only what a lagging replica hid and what
\* an insert failed to store. Those are holes nobody comes back for: "never a
\* silent hole", as the comment in backfillTokenTransfers has it, is true of the
\* queries alone.
CursorHonest ==
  walkCursor > 0 => \A h \in Transfers :
                  walkStart <= h /\ h < walkCursor => h \in ledger \union GivenUp

\* What the walk comes to: no batch is walked for ever, whatever part of it
\* failed before.
WalkEnded == ~RangeLeft

\* A walk that has nothing left has been over everything: from where it began
\* to the height syncCalls has reached the ledger lacks no transfer, as the
\* comments on backfillTokenTransfers and TokenBackfillRange say. It is not so:
\* the first row the walk itself records becomes the boundary it stops at.
WalkComplete ==
  ledgerStep = "calls" /\ walkStart > 0 /\ ~RangeLeft =>
    \A h \in Transfers : walkStart <= h /\ h <= calls => h \in ledger \union GivenUp
-----------------------------------------------------------------------------
\* The walk as a backfill: the cursor has passed the transfers from where the
\* walk began up to it, and those a lagging replica hid or an insert failed to
\* store are excused.
PassedTransfers ==
  {h \in Transfers : walkCursor > 0 /\ walkStart <= h /\ h < walkCursor}

LedgerPromise == INSTANCE Backfill WITH
  Items <- Transfers, recorded <- ledger, excused <- GivenUp \intersect Transfers,
  passed <- PassedTransfers

\* backfillTokenTransfers keeps the promise of Backfill: with the live pass and
\* the restarts beside it, its cursor never goes back, and leaves nothing behind
\* that is not accounted for.
LedgerKeepsPromise == LedgerPromise!BackfillSpec
=============================================================================
