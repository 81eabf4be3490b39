-------------------------------- MODULE TxSync --------------------------------
(***************************************************************************)
(* The transaction walk of one network and what is folded from it          *)
(* (pkg/syncer: syncCalls through walkTransactions, backfillBlockTimes,    *)
(* syncTransferEdges, syncCallerEdges; pkg/indexer: transactionsFromHeight *)
(* and dropTrailingHeight).                                                *)
(*                                                                         *)
(* The indexer cuts an answer at its element cap, so the cap is the page   *)
(* size, and a page that was cut gives up its last block, which may not be *)
(* whole.  Within a walk the cursor is the last height of the page before; *)
(* the first page starts above the highest stored row.  Rows are written   *)
(* one by one, and a row that cannot be written is logged and passed over. *)
(* The edge tables then fold the rows above their own newest edge, but     *)
(* only rows that have a block time, which another pass may have to supply.*)
(*                                                                         *)
(* A transaction is <<height, index>>; height 0 is genesis, for which no   *)
(* block, and so no time, can be had.  It leaves a row in the calls table, *)
(* in bank_sends, or in neither ("other"); one message per transaction.    *)
(***************************************************************************)
EXTENDS Integers, FiniteSetsExt, TxOrder

CONSTANTS
  Txs,         \* the transactions of the chain
  Kind,        \* what each leaves: "call", "send" or "other"
  Succeeded,   \* those that succeeded; the others are stored but not folded
  ElementCap,  \* how many transactions one answer holds
  RepairBatch, \* backfillBatch: heights repaired in one pass
  TxLag,       \* how many blocks a replica may trail the chain
  TxHeight,    \* bound: the chain stops growing here
  MaxTxFaults  \* bound: failed calls, failed inserts and restarts together

ASSUME TxSyncAssumption ==
  /\ Txs \subseteq (0..TxHeight) \X Nat /\ IsFiniteSet(Txs)
  /\ Kind \in [Txs -> {"call", "send", "other"}]
  /\ Succeeded \subseteq Txs
  /\ ElementCap \in Nat \ {0}
  /\ RepairBatch \in Nat \ {0}
  /\ TxLag \in Nat
  /\ TxHeight \in Nat
  /\ MaxTxFaults \in Nat

VARIABLES
  txTip,    \* height of the chain
  txSlow,   \* height of the slowest replica
  txFaults, \* faults so far
  rows,     \* durable: transactions with a row in calls or bank_sends
  dated,    \* durable: those whose row has a block_time
  folded,   \* durable: how often each row was added to its edge table
  txStep,   \* the step of SyncAll that comes next
  txCursor, \* where the walk's next page starts; NoCursor before genesis
  page,     \* what is left of the page in hand
  more,     \* the page was cut at the cap
  timed,    \* heights of the page whose block time is known
  txLost,   \* history: events the walk has passed without storing them
  late      \* history: events a fold has met before they had a time

txEnv     == <<txTip, txSlow>>
txDurable == <<rows, dated, folded>>
txWalk    == <<txCursor, page, more, timed>>
txHist    == <<txLost, late>>
txVars    == <<txEnv, txFaults, txDurable, txStep, txWalk, txHist>>

NoCursor == -1

TxSteps == {"idle", "repair", "fetch", "times", "store", "folding"}

Events == {x \in Txs : Kind[x] # "other"}

\* LastCallOrSendHeight and edgesLastHeight.
RowCursor == IF rows = {} THEN NoCursor ELSE Max(HeightsOf(rows))
EdgeCursor(kind) ==
  Max({0} \union {x[1] : x \in {y \in rows : Kind[y] = kind /\ folded[y] > 0}})

TxReplies == txSlow..txTip

-----------------------------------------------------------------------------
TxInit ==
  /\ txTip \in 0..TxHeight
  /\ txSlow \in 0..txTip
  /\ txTip - txSlow <= TxLag
  /\ txFaults = 0
  /\ rows = {} /\ dated = {}
  /\ folded = [x \in Events |-> 0]
  /\ txStep = "idle"
  /\ txCursor = NoCursor /\ page = {} /\ more = FALSE /\ timed = {}
  /\ txLost = {} /\ late = {}

\* ---- The chain and its replicas ----

TxGrow ==
  /\ txTip < TxHeight
  /\ txTip + 1 - txSlow <= TxLag
  /\ txTip' = txTip + 1
  /\ UNCHANGED <<txSlow, txFaults, txDurable, txStep, txWalk, txHist>>

TxCatchUp ==
  /\ txSlow < txTip
  /\ txSlow' = txSlow + 1
  /\ UNCHANGED <<txTip, txFaults, txDurable, txStep, txWalk, txHist>>

\* ---- backfillBlockTimes ----

\* SetBlockTimes, one SQL transaction: rows that have a time keep it.
Timed(heights) == dated \union {x \in rows : x[1] \in heights}

\* The highest heights with an undated row, genesis excepted. A replica that
\* does not have a block yet leaves it for a later pass.
Repair ==
  /\ txStep = "idle"
  /\ LET missing == HeightsOf({x \in rows \ dated : x[1] > 0})
         asked   == {h \in missing :
                       Cardinality({g \in missing : g > h}) < RepairBatch}
     IN  \E unknown \in SUBSET {h \in asked : h > txSlow} :
           dated' = Timed(asked \ unknown)
  /\ txStep' = "fetch"
  /\ txCursor' = RowCursor
  /\ UNCHANGED <<txEnv, txFaults, rows, folded, page, more, timed, txHist>>

\* ---- syncCalls and walkTransactions ----

\* Mutant: every page starts above the stored rows instead of the page before.
FetchFromRows ==
  /\ txStep = "fetch"
  /\ \E t \in TxReplies :
       LET above == {x \in Txs : RowCursor < x[1] /\ x[1] <= t}
           cut   == Cardinality(above) > ElementCap
           got   == IF cut THEN DropTrailingHeight(FirstOf(ElementCap, above)) ELSE above
       IN  /\ page' = got
           /\ more' = cut
           /\ txStep' = IF got # {} THEN "times" ELSE IF cut THEN "idle" ELSE "folding"
           /\ txCursor' = IF got = {} THEN txCursor ELSE Max(HeightsOf(got))
  /\ UNCHANGED <<txEnv, txFaults, txDurable, timed, txHist>>

\* One query from the cursor, answered by one replica. Nothing is left of a
\* page when the cap falls inside its first block: that is an error, and the
\* pass ends there. An empty answer ends the walk.
Fetch ==
  /\ txStep = "fetch"
  /\ \E t \in TxReplies :
       LET above == {x \in Txs : txCursor < x[1] /\ x[1] <= t}
           cut   == Cardinality(above) > ElementCap
           got   == IF cut THEN DropTrailingHeight(FirstOf(ElementCap, above)) ELSE above
       IN  /\ page' = got
           /\ more' = cut
           /\ txStep' = IF got # {} THEN "times" ELSE IF cut THEN "idle" ELSE "folding"
           /\ txCursor' = IF got = {} THEN txCursor ELSE Max(HeightsOf(got))
  /\ UNCHANGED <<txEnv, txFaults, txDurable, timed, txHist>>

\* fetchBlockTimes: one GetBlock per height, each answered by some replica.
FetchTimes ==
  /\ txStep = "times"
  /\ \E unknown \in SUBSET {h \in HeightsOf(page) : h > txSlow} :
       timed' = {h \in HeightsOf(page) : h > 0} \ unknown
  /\ txStep' = "store"
  /\ UNCHANGED <<txEnv, txFaults, txDurable, txCursor, page, more, txHist>>

\* Mutant: every transaction leaves a row, whatever its messages are.
StoreAny ==
  /\ txStep = "store" /\ page # {}
  /\ LET x == Earliest(page)
     IN  /\ page' = page \ {x}
         /\ rows' = rows \union {x}
         /\ dated' = IF x[1] \in timed THEN dated \union {x} ELSE dated
  /\ UNCHANGED <<txEnv, txFaults, folded, txStep, txCursor, more, timed, txHist>>

\* The next transaction of the page, in order.
StoreRow ==
  /\ txStep = "store" /\ page # {}
  /\ LET x == Earliest(page)
     IN  /\ page' = page \ {x}
         /\ rows' = IF x \in Events THEN rows \union {x} ELSE rows
         /\ dated' = IF x \in Events /\ x[1] \in timed
                     THEN dated \union {x} ELSE dated
  /\ UNCHANGED <<txEnv, txFaults, folded, txStep, txCursor, more, timed, txHist>>

PageDone ==
  /\ txStep = "store" /\ page = {}
  /\ txStep' = IF more THEN "fetch" ELSE "folding"
  /\ timed' = {}
  /\ UNCHANGED <<txEnv, txFaults, txDurable, txCursor, page, more, txHist>>

\* ---- syncTransferEdges, then syncCallerEdges ----

\* Mutant: the fold starts at its newest edge instead of above it.
UnfoldedFrom(kind) ==
  {x \in rows \intersect Succeeded : Kind[x] = kind /\ x[1] >= EdgeCursor(kind)}

\* Mutant: the fold takes the rows of the walk's last page only.
UnfoldedOfPage(kind) ==
  {x \in rows \intersect Succeeded : Kind[x] = kind /\ x[1] >= txCursor}

\* RollupBankSendsSince, RollupCallsSince, before a time is asked of the rows.
Unfolded(kind) ==
  {x \in rows \intersect Succeeded : Kind[x] = kind /\ x[1] > EdgeCursor(kind)}

\* Both folds read local rows only; each is one upsert in one SQL transaction.
\* The second is skipped when the first fails.
AddEdges(kinds) ==
  LET new == UNION {Unfolded(k) : k \in kinds}
  IN  /\ folded' = [x \in Events |-> folded[x] + (IF x \in new \intersect dated THEN 1 ELSE 0)]
      /\ late' = late \union (new \ dated)

Fold ==
  /\ txStep = "folding"
  /\ AddEdges({"send", "call"})
  /\ txStep' = "idle"
  /\ UNCHANGED <<txEnv, txFaults, rows, dated, txWalk, txLost>>

\* ---- Failures ----

\* The block times cannot be read or written: the rows stay as they are.
RepairFails ==
  /\ txFaults < MaxTxFaults
  /\ txFaults' = txFaults + 1
  /\ txStep = "idle"
  /\ txStep' = "fetch"
  /\ txCursor' = RowCursor
  /\ UNCHANGED <<txEnv, txDurable, page, more, timed, txHist>>

\* The transfer fold fails and ends the pass, or it is done and the caller fold
\* fails or never starts.
FoldFails ==
  /\ txFaults < MaxTxFaults
  /\ txFaults' = txFaults + 1
  /\ txStep = "folding"
  /\ \E kinds \in {{}, {"send"}} : AddEdges(kinds)
  /\ txStep' = "idle"
  /\ UNCHANGED <<txEnv, rows, dated, txWalk, txLost>>

\* A page cannot be fetched: the walk's error ends the pass.
FetchFails ==
  /\ txFaults < MaxTxFaults
  /\ txFaults' = txFaults + 1
  /\ txStep = "fetch"
  /\ txStep' = "idle"
  /\ UNCHANGED <<txEnv, txDurable, txWalk, txHist>>

\* Some of the times cannot be fetched: the rows are stored without.
TimesFail ==
  /\ txFaults < MaxTxFaults
  /\ txFaults' = txFaults + 1
  /\ txStep = "times"
  /\ \E known \in SUBSET {h \in HeightsOf(page) : h > 0} : timed' = known
  /\ txStep' = "store"
  /\ UNCHANGED <<txEnv, txDurable, txCursor, page, more, txHist>>

\* One insert fails: it is logged and the walk goes on.
StoreFails ==
  /\ txFaults < MaxTxFaults
  /\ txFaults' = txFaults + 1
  /\ txStep = "store" /\ page # {}
  /\ Earliest(page) \in Events
  /\ page' = page \ {Earliest(page)}
  /\ txLost' = txLost \union {Earliest(page)}
  /\ UNCHANGED <<txEnv, txDurable, txStep, txCursor, more, timed, late>>

\* The process stops. What is left of the page at or below the highest stored
\* row is passed over by every later walk.
TxRestart ==
  /\ txFaults < MaxTxFaults
  /\ txFaults' = txFaults + 1
  /\ txStep' = "idle"
  /\ txLost' = txLost \union {x \in page \intersect Events : x[1] <= RowCursor}
  /\ txCursor' = NoCursor /\ page' = {} /\ more' = FALSE /\ timed' = {}
  /\ UNCHANGED <<txEnv, txDurable, late>>

-----------------------------------------------------------------------------
TxPass == Repair \/ Fetch \/ FetchTimes \/ StoreRow \/ PageDone \/ Fold

TxFault == RepairFails \/ FoldFails \/ FetchFails \/ TimesFail \/ StoreFails \/ TxRestart

TxNext == TxGrow \/ TxCatchUp \/ TxPass \/ TxFault

TxSafety == TxInit /\ [][TxNext]_txVars

\* A pass every 30 seconds, every call returns, replicas keep replaying.
TxSpec == TxSafety /\ WF_txVars(TxPass) /\ WF_txVars(TxCatchUp)
-----------------------------------------------------------------------------
(***************************************************************************)
(* Properties.                                                             *)
(***************************************************************************)
TxTypeOK ==
  /\ txTip \in 0..TxHeight
  /\ txSlow \in 0..txTip
  /\ txFaults \in 0..MaxTxFaults
  /\ rows \subseteq Events
  /\ dated \subseteq rows
  /\ folded \in [Events -> Nat]
  /\ txStep \in TxSteps
  /\ txCursor \in NoCursor..txTip
  /\ page \subseteq Txs
  /\ more \in BOOLEAN
  /\ timed \subseteq 1..TxHeight
  /\ txLost \subseteq Events
  /\ late \subseteq Events

\* The walk skips nothing: an event at or below the highest stored row, where
\* no later walk looks, is stored, or in the page in hand, or its own insert
\* failed, or the process stopped in the middle of its block.
NoHoles ==
  \A x \in Events : x[1] <= RowCursor => x \in rows \union page \union txLost

\* A row is added to its edge at most once, over any number of passes, failed
\* folds and restarts.
FoldedOnce == \A x \in Events : folded[x] <= 1

\* Below its newest edge the rollup misses nothing but rows a fold has already
\* met without a time; those it never takes up again.
EdgesComplete ==
  \A x \in rows \intersect Succeeded :
    x[1] <= EdgeCursor(Kind[x]) /\ x[1] > 0 => folded[x] = 1 \/ x \in late

\* What the walk comes to when the failures end: every event is stored or lost,
\* every row after genesis has its time, and every row is folded that no fold
\* met undated.
TxSettled ==
  /\ \A x \in Events : x[1] <= txTip => x \in rows \union txLost
  /\ \A x \in rows : x[1] > 0 => x \in dated
  /\ \A x \in rows \intersect Succeeded :
       x[1] > 0 => folded[x] = 1 \/ x \in late
=============================================================================
