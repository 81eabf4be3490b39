----------------------------- MODULE CoinBackfill -----------------------------
(***************************************************************************)
(* The native coin ledger of one network and the walk over the history the *)
(* live pass never saw (pkg/syncer: backfillCoinTransfers,                 *)
(* recordCoinTransfers, markCoinBackfillDone; pkg/indexer:                 *)
(* CoinTransferWindow, SupportsTransferEvents).                            *)
(*                                                                         *)
(* The walk goes up from height 0 in windows, a few per pass, until it     *)
(* reaches the tip one replica has reported in this pass; then it is done, *)
(* once and for all.  A window the element cap cuts gives up its last      *)
(* block, and the walk goes on from the one before.  The live pass records *)
(* the transfers of what it fetches above its own rows.  An endpoint whose *)
(* schema has no transfer events ends the walk, and hides the transfers    *)
(* from the live pass.  An insert that fails is logged, and either pass    *)
(* goes on without the row.                                                *)
(*                                                                         *)
(* A transaction is <<height, index>>, successful, and moves a coin.       *)
(***************************************************************************)
EXTENDS Integers, FiniteSetsExt, TxOrder

CONSTANTS
  CoinTxs,       \* the transactions that move a coin
  Rowed,         \* those that also leave a row in calls or bank_sends
  CoinWindow,    \* coinBackfillWindowBlocks
  WindowsPerPass,\* coinBackfillWindowsPerPass
  CoinCap,       \* ElementCap
  Schemas,       \* what SupportsTransferEvents may answer
  CoinLag,       \* how many blocks a replica may trail the chain
  CoinHeight,    \* bound: the chain stops growing here
  MaxCoinFaults  \* bound: failed calls, failed writes and restarts together

ASSUME CoinAssumption ==
  /\ CoinTxs \subseteq (0..CoinHeight) \X Nat /\ IsFiniteSet(CoinTxs)
  /\ Rowed \subseteq CoinTxs
  /\ CoinWindow \in Nat \ {0} /\ WindowsPerPass \in Nat \ {0}
  /\ CoinCap \in Nat \ {0}
  /\ Schemas \subseteq BOOLEAN
  /\ CoinLag \in Nat /\ CoinHeight \in Nat /\ MaxCoinFaults \in Nat

VARIABLES
  coinTop,    \* height of the chain
  coinBehind, \* height of the slowest replica
  coinFaults, \* faults so far
  coins,      \* durable: transactions in coin_transfers
  coinRows,   \* durable: transactions in calls and bank_sends
  coinCursor, \* durable: the height the walk has reached
  coinDone,   \* durable: the done marker
  coinStep,   \* the step that comes next
  finish,     \* the tip this pass reads
  windows,    \* windows of this pass
  coinNext,   \* where the window in hand ends
  hidden,     \* history: heights an endpoint did not show, or could not
  skipped,    \* history: heights that fell between a finished walk and the live pass
  coinLost    \* history: transactions whose insert has failed or was never reached

coinEnv  == <<coinTop, coinBehind>>
coinPass == <<finish, windows, coinNext>>
coinVars == <<coinEnv, coinFaults, coins, coinRows, coinCursor, coinDone,
              coinStep, coinPass, hidden, skipped, coinLost>>

CoinSteps == {"live", "tip", "window", "save"}

\* LastCallOrSendHeight: -1 lets genesis in.
CoinLive == IF coinRows = {} THEN -1 ELSE Max(HeightsOf(coinRows))

-----------------------------------------------------------------------------
\* A new database, or one that stored calls before the coin ledger existed.
CoinInit ==
  /\ coinTop \in 1..CoinHeight
  /\ coinBehind \in 1..coinTop
  /\ coinTop - coinBehind <= CoinLag
  /\ coinFaults = 0
  /\ coins = {}
  /\ \E h \in -1..coinTop : coinRows = {x \in Rowed : x[1] <= h}
  /\ coinCursor = 0 /\ coinDone = FALSE
  /\ coinStep = "live"
  /\ finish = 0 /\ windows = 0 /\ coinNext = 0
  /\ hidden = {} /\ skipped = {} /\ coinLost = {}

CoinGrow ==
  /\ coinTop < CoinHeight
  /\ coinTop + 1 - coinBehind <= CoinLag
  /\ coinTop' = coinTop + 1
  /\ UNCHANGED <<coinBehind, coinFaults, coins, coinRows, coinCursor, coinDone,
                 coinStep, coinPass, hidden, skipped, coinLost>>

CoinCatchUp ==
  /\ coinBehind < coinTop
  /\ coinBehind' = coinBehind + 1
  /\ UNCHANGED <<coinTop, coinFaults, coins, coinRows, coinCursor, coinDone,
                 coinStep, coinPass, hidden, skipped, coinLost>>

\* What syncCalls has not seen of a replica of height t.
NewCoins(t) == {x \in CoinTxs : CoinLive < x[1] /\ x[1] <= t}

\* syncCalls up to the transaction limit, at a replica of height t: the pages
\* it walks are those of TxSync. Without the fragment no transfer is seen.
LiveCoins(n, t, schema, failed) ==
  LET new == FirstOf(n, NewCoins(t))
  IN  /\ coins' = IF schema THEN coins \union (new \ failed) ELSE coins
      /\ coinRows' = coinRows \union (new \intersect Rowed)
      /\ hidden' = IF schema THEN hidden ELSE hidden \union HeightsOf(new)

LiveCoinPass ==
  /\ coinStep = "live"
  /\ \E t \in coinBehind..coinTop, schema \in Schemas :
       LiveCoins(Cardinality(CoinTxs), t, schema, {})
  /\ coinStep' = "tip"
  /\ UNCHANGED <<coinEnv, coinFaults, coinCursor, coinDone, coinPass, skipped, coinLost>>

\* A walk that is done asks nothing; the others read the tip of a replica.
ReadFinish ==
  /\ coinStep = "tip"
  /\ IF coinDone
     THEN coinStep' = "live" /\ UNCHANGED finish
     ELSE coinStep' = "window" /\ finish' \in coinBehind..coinTop
  /\ windows' = 0
  /\ UNCHANGED <<coinEnv, coinFaults, coins, coinRows, coinCursor, coinDone,
                 coinNext, hidden, skipped, coinLost>>

EndPass == coinStep' = "live" /\ finish' = 0 /\ windows' = 0 /\ coinNext' = 0

\* markCoinBackfillDone: from here on nobody looks below the live pass. What is
\* above the cursor and not above the rows of the live pass is left to neither.
MarkDone ==
  /\ coinDone' = TRUE
  /\ EndPass

Between == coinCursor + 1 .. CoinLive

\* Mutant: the walk is done a window before the tip.
AtFinishEarly == coinCursor + CoinWindow > finish

AtFinish == coinCursor >= finish

ReachFinish ==
  /\ coinStep = "window"
  /\ windows < WindowsPerPass
  /\ AtFinish
  /\ MarkDone
  /\ skipped' = skipped \union Between
  /\ UNCHANGED <<coinEnv, coinFaults, coins, coinRows, coinCursor, hidden, coinLost>>

\* ErrNoTransferEvents.
CannotAnswer ==
  /\ coinStep = "window"
  /\ windows < WindowsPerPass /\ ~AtFinish
  /\ FALSE \in Schemas
  /\ MarkDone
  /\ hidden' = hidden \union Between
  /\ UNCHANGED <<coinEnv, coinFaults, coins, coinRows, coinCursor, skipped, coinLost>>

Before == IF coinCursor + CoinWindow < finish THEN coinCursor + CoinWindow + 1 ELSE finish + 1

\* Mutant: a window that was cut is left for the next one.
WindowEndUncut(found, got) == Before - 1

\* A window that was cut ends at the last block that is whole.
WindowEnd(found, got) == IF got = found THEN Before - 1 ELSE Max(HeightsOf(got))

\* One window, answered by one replica, but for the inserts in failed. A cut
\* inside the first block is an error, and the pass ends.
WindowRows(t, failed) ==
  LET found == {x \in CoinTxs : coinCursor < x[1] /\ x[1] < Before /\ x[1] <= t}
      cut   == FirstOf(CoinCap, found)
      got   == IF cut = found THEN found ELSE DropTrailingHeight(cut)
  IN  IF got = {} /\ found # {}
      THEN EndPass /\ UNCHANGED <<coins, hidden, coinLost>>
      ELSE /\ coins' = coins \union (got \ failed)
           /\ coinLost' = coinLost \union (got \intersect failed)
           /\ hidden' = hidden \union {h \in coinCursor + 1 .. Before - 1 : h > t}
           /\ coinNext' = WindowEnd(found, got)
           /\ coinStep' = "save"
           /\ UNCHANGED <<finish, windows>>

WalkWindow ==
  /\ coinStep = "window"
  /\ windows < WindowsPerPass /\ ~AtFinish
  /\ TRUE \in Schemas
  /\ \E t \in coinBehind..coinTop : WindowRows(t, {})
  /\ UNCHANGED <<coinEnv, coinFaults, coinRows, coinCursor, coinDone, skipped>>

\* Mutant: the cursor is left where the window began.
SaveNothing ==
  /\ coinStep = "save"
  /\ coinNext' = 0
  /\ windows' = windows + 1
  /\ coinStep' = "window"
  /\ UNCHANGED <<coinEnv, coinFaults, coins, coinRows, coinCursor, coinDone, finish, hidden, skipped, coinLost>>

\* The cursor is saved window by window.
SaveCursor ==
  /\ coinStep = "save"
  /\ coinCursor' = coinNext
  /\ coinNext' = 0
  /\ windows' = windows + 1
  /\ coinStep' = "window"
  /\ UNCHANGED <<coinEnv, coinFaults, coins, coinRows, coinDone, finish, hidden, skipped, coinLost>>

\* The budget of the pass is spent.
BudgetSpent ==
  /\ coinStep = "window"
  /\ windows = WindowsPerPass
  /\ EndPass
  /\ UNCHANGED <<coinEnv, coinFaults, coins, coinRows, coinCursor, coinDone, hidden, skipped, coinLost>>

\* ---- Failures ----

CoinFault == coinFaults < MaxCoinFaults /\ coinFaults' = coinFaults + 1

\* The tip, a window or a marker cannot be read or written, the live walk
\* cannot begin, or the process stops: the pass ends.
CoinCallFails ==
  /\ CoinFault
  /\ EndPass
  /\ UNCHANGED <<coinEnv, coins, coinRows, coinCursor, coinDone, hidden, skipped, coinLost>>

\* The process stops in the live walk, after n transactions. What is left of
\* the last block is passed over if a row of that block is stored.
LiveCoinsBreak ==
  /\ CoinFault
  /\ coinStep = "live"
  /\ \E n \in 1..Cardinality(CoinTxs), t \in coinBehind..coinTop, schema \in Schemas :
       LiveCoins(n, t, schema, {})
  /\ coinLost' = coinLost \union
       {x \in CoinTxs \ coins' : CoinLive < x[1] /\ x[1] \in HeightsOf(coinRows')}
  /\ UNCHANGED <<coinEnv, coinCursor, coinDone, coinStep, coinPass, skipped>>

\* An insert of the live pass fails: it is logged, and the pass goes on.
LiveInsertFails ==
  /\ CoinFault
  /\ coinStep = "live"
  /\ TRUE \in Schemas
  /\ \E t \in coinBehind..coinTop : \E x \in NewCoins(t) :
       /\ LiveCoins(Cardinality(CoinTxs), t, TRUE, {x})
       /\ coinLost' = coinLost \union {x}
  /\ coinStep' = "tip"
  /\ UNCHANGED <<coinEnv, coinCursor, coinDone, coinPass, skipped>>

\* An insert of the walk fails: it is logged, and the window is walked on.
CoinInsertFails ==
  /\ CoinFault
  /\ coinStep = "window"
  /\ windows < WindowsPerPass /\ ~AtFinish
  /\ TRUE \in Schemas
  /\ \E t \in coinBehind..coinTop, x \in CoinTxs : WindowRows(t, {x})
  /\ UNCHANGED <<coinEnv, coinRows, coinCursor, coinDone, skipped>>

-----------------------------------------------------------------------------
CoinPass ==
  \/ LiveCoinPass \/ ReadFinish \/ ReachFinish \/ CannotAnswer
  \/ WalkWindow \/ SaveCursor \/ BudgetSpent

CoinNextStep ==
  \/ CoinGrow \/ CoinCatchUp \/ CoinPass
  \/ CoinCallFails \/ LiveCoinsBreak \/ LiveInsertFails \/ CoinInsertFails

CoinSafety == CoinInit /\ [][CoinNextStep]_coinVars

\* A pass every 30 seconds, every call returns, replicas keep replaying.
CoinSpec == CoinSafety /\ WF_coinVars(CoinPass) /\ WF_coinVars(CoinCatchUp)
-----------------------------------------------------------------------------
(***************************************************************************)
(* Properties.                                                             *)
(***************************************************************************)
CoinTypeOK ==
  /\ coinTop \in 1..CoinHeight /\ coinBehind \in 1..coinTop
  /\ coinFaults \in 0..MaxCoinFaults
  /\ coins \subseteq CoinTxs /\ coinRows \subseteq Rowed
  /\ coinCursor \in 0..coinTop /\ coinDone \in BOOLEAN
  /\ coinStep \in CoinSteps
  /\ finish \in 0..coinTop /\ windows \in 0..WindowsPerPass /\ coinNext \in 0..finish
  /\ {hidden, skipped} \subseteq SUBSET (0..CoinHeight) /\ coinLost \subseteq CoinTxs

\* No answer has shown x, or its insert has failed.
NotStored(x) == x[1] \in hidden \/ x \in coinLost

Excused(x) == NotStored(x) \/ x[1] \in skipped

\* Passed by the walk or by the live pass, which between them have all of history
\* above genesis: below the cursor, and once the walk is done up to the last
\* stored row.
PassedBy(x) == 0 < x[1] /\ (x[1] <= coinCursor \/ (coinDone /\ x[1] <= CoinLive))

\* Every transfer the two have passed is in the ledger, whichever of them was
\* first and wherever either broke off, but for those no answer has shown, those
\* whose insert failed, and those of one stretch: what was above the cursor and
\* below rows already stored when the walk was marked done.
CoinsComplete == \A x \in CoinTxs : PassedBy(x) => x \in coins \/ Excused(x)

\* "Their union has no gap at any interleaving", as the comment on
\* backfillCoinTransfers says of the walk and the live pass. There is one: the
\* finish line is what one replica says is the tip, and rows stored by a build
\* older than the ledger, or before the endpoint had transfer events, may reach
\* higher. The walk is done below them, and the live pass begins above them.
CoinsNoGap == \A x \in CoinTxs : PassedBy(x) => x \in coins \/ NotStored(x)

\* What the walk comes to: it is done, or stands before a block that no answer
\* holds together with what follows it: a block as large as the cap is enough.
CoinsEnded ==
  coinDone \/ \E h \in HeightsOf(CoinTxs) :
    Cardinality({x \in CoinTxs : x[1] = h}) >= CoinCap
-----------------------------------------------------------------------------
\* The walk as a backfill. Done, it leaves what is above its cursor to the live
\* pass, and what is below the live pass's own rows is passed too.
Passable == {x \in CoinTxs : x[1] > 0}
PassedCoins == {x \in Passable : PassedBy(x)}

CoinPromise == INSTANCE Backfill WITH
  Items <- Passable, recorded <- coins \intersect Passable,
  excused <- {x \in Passable : Excused(x)}, passed <- PassedCoins

\* backfillCoinTransfers keeps the promise of Backfill: the cursor never goes
\* back, no window is taken for more than it showed, and the done marker is set
\* for good. Where it leaves a gap to the live pass (CoinsNoGap), the gap is what
\* the marker was set over, and no later step adds to it.
CoinsKeepPromise == CoinPromise!BackfillSpec
=============================================================================
