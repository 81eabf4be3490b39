----------------------------- MODULE SessionSweep -----------------------------
(***************************************************************************)
(* The session grants of one network and the sweep over the history the    *)
(* live pass never saw (pkg/syncer/sessions.go: backfillSessions,          *)
(* fetchSessionRange, recordSessions; pkg/store/sessions.go: the grants    *)
(* table, the pinned boundary, the cursor).                                *)
(*                                                                         *)
(* The sweep goes down from a boundary pinned once, a batch per pass, and  *)
(* asks for a batch with one query.  A range that holds more than one      *)
(* answer may is halved, the upper half first; whatever was answered before*)
(* the first failure is recorded, in the order it was answered, and the    *)
(* cursor comes down to where the answers reach.  Inside an answer, and in *)
(* the live pass, transactions come in chain order.                        *)
(*                                                                         *)
(* A transaction is <<height, index>> and does one thing: it creates a     *)
(* session for a key, revokes a key, revokes all keys of a master, or      *)
(* neither ("plain": a call signed with a session key, with a memo).       *)
(* Failed transactions, which recordSessions ignores, are not among them.  *)
(***************************************************************************)
EXTENDS Integers, SequencesExt, TxOrder

CONSTANTS
  SessionTxs,    \* the transactions of the chain
  What,          \* what each does: "create", "revoke", "revoke_all", "plain"
  KeyOf,         \* the session key it names
  MasterOf,      \* the account each key signs for
  Shapes,        \* of the answers: "typed", or "raw" as JSON of the message
  SweepBatch,    \* sessionBackfillBatch
  RowLimit,      \* how many transactions one answer holds
  SweepLag,      \* how many blocks a replica may trail the chain
  SweepHeight,   \* bound: the chain stops growing here
  MaxSweepFaults \* bound: failed calls, failed writes and restarts together

ASSUME SessionAssumption ==
  /\ SessionTxs \subseteq (1..SweepHeight) \X Nat /\ IsFiniteSet(SessionTxs)
  /\ What \in [SessionTxs -> {"create", "revoke", "revoke_all", "plain"}]
  /\ KeyOf \in [SessionTxs -> DOMAIN MasterOf]
  /\ Shapes \subseteq {"typed", "raw"}
  /\ SweepBatch \in Nat \ {0}
  /\ RowLimit \in Nat \ {0}
  /\ SweepLag \in Nat
  /\ SweepHeight \in Nat
  /\ MaxSweepFaults \in Nat

VARIABLES
  top,         \* height of the chain
  behind,      \* height of the slowest replica
  sweepFaults, \* faults so far
  blocks,      \* durable: <<MIN(height), MAX(height)>> of blocks, 0 for none
  grants,      \* durable: (key, granted height) to revoked height, 0 for NULL
  signed,      \* durable: transactions in session_txs
  memos,       \* durable: transactions in tx_memos
  callRows,    \* durable: transactions in calls, which give the live cursor
  pinned,      \* durable: the boundary of the sweep, 0 for ""
  swept,       \* durable: the lowest height swept, 0 for ""
  step,        \* the step of SyncAll that comes next
  left,        \* the ranges still to ask for, the next one first
  upTo,        \* the exclusive end of this pass's batch
  floor,       \* the lowest height answered for so far
  answered,    \* what is left to record: transactions and their shape
  noted,       \* transactions of the batch that carry a memo
  unseen,      \* history: heights a replica answered for without having them
  unwritten    \* history: transactions a write of which has failed

sweepEnv   == <<top, behind>>
tables     == <<grants, signed, memos, callRows>>
sweepMarks == <<pinned, swept>>
sweepPass  == <<left, upTo, floor, answered, noted>>
sweepHist  == <<unseen, unwritten>>
sessionVars ==
  <<sweepEnv, sweepFaults, blocks, tables, sweepMarks, step, sweepPass, sweepHist>>

SweepSteps == {"blocks", "pin", "range", "query", "record", "memos", "cursor", "live", "store"}

Lowest == blocks[1]
Highest == blocks[2]

\* The transactions of heights a..b-1 a replica at height t knows.
Known(a, b, t) == {x \in SessionTxs : a <= x[1] /\ x[1] < b /\ x[1] <= t}

-----------------------------------------------------------------------------
\* ---- recordSessions ----

GrantOf(x) == <<KeyOf[x], x[1]>>

\* Mutant: the row is written anew, its revocation with it.
GrantedAnew(g, x) ==
  [r \in DOMAIN g \union {GrantOf(x)} |-> IF r = GrantOf(x) THEN 0 ELSE g[r]]

\* UpsertSessionGrant: one row per key and height, its revocation left alone.
Granted(g, x) ==
  [r \in DOMAIN g \union {GrantOf(x)} |-> IF r \in DOMAIN g THEN g[r] ELSE 0]

\* Mutant: the grants of the named keys, whenever they were made.
OpenAtAnyHeight(g, x) ==
  {r \in DOMAIN g :
     /\ g[r] = 0
     /\ IF What[x] = "revoke" THEN r[1] = KeyOf[x]
        ELSE MasterOf[r[1]] = MasterOf[KeyOf[x]]}

\* The rows a revocation closes: of its key, or of its master, granted at its
\* height or below and not closed yet.
OpenAt(g, x) ==
  {r \in DOMAIN g :
     /\ g[r] = 0
     /\ r[2] <= x[1]
     /\ IF What[x] = "revoke" THEN r[1] = KeyOf[x]
        ELSE MasterOf[r[1]] = MasterOf[KeyOf[x]]}

Revoked(g, x) == [r \in DOMAIN g |-> IF r \in OpenAt(g, x) THEN x[1] ELSE g[r]]

\* decodeSessionMsg: a raw message without a session key is not understood.
Decodes(x, shape) == shape = "raw" => What[x] # "revoke_all"

\* The grants after the auth message of x, in the shape it came in.
AfterMessage(g, x, shape) ==
  IF What[x] = "create" THEN Granted(g, x)
  ELSE IF What[x] = "plain" \/ ~Decodes(x, shape) THEN g
  ELSE Revoked(g, x)

\* recordSessionTx: only an indexer that models signatures names the signer.
PlainOf(x) == IF What[x] = "plain" THEN {x} ELSE {}
SignedBy(x, shape) == IF shape = "typed" THEN PlainOf(x) ELSE {}

-----------------------------------------------------------------------------
\* A new database, or one that synced calls before sessions were recorded.
SessionInit ==
  /\ top \in 0..SweepHeight
  /\ behind \in 0..top
  /\ top - behind <= SweepLag
  /\ sweepFaults = 0
  /\ blocks = <<0, 0>>
  /\ grants = <<>>
  /\ signed = {} /\ memos = {}
  /\ \E h \in 0..top :
       callRows = {x \in SessionTxs : What[x] = "plain" /\ x[1] <= h}
  /\ pinned = 0 /\ swept = 0
  /\ step = "blocks"
  /\ left = <<>> /\ upTo = 0 /\ floor = 0 /\ answered = <<>> /\ noted = {}
  /\ unseen = {} /\ unwritten = {}

SweepGrow ==
  /\ top < SweepHeight
  /\ top + 1 - behind <= SweepLag
  /\ top' = top + 1
  /\ UNCHANGED <<behind, sweepFaults, blocks, tables, sweepMarks, step, sweepPass, sweepHist>>

SweepCatchUp ==
  /\ behind < top
  /\ behind' = behind + 1
  /\ UNCHANGED <<top, sweepFaults, blocks, tables, sweepMarks, step, sweepPass, sweepHist>>

\* syncBlocks: the stored range opens or grows at its ends, by as much as this
\* pass gets.
SweepBlocks ==
  /\ step = "blocks"
  /\ \/ \E t \in behind..top :
          /\ t >= Highest /\ t > 0
          /\ \E lo \in IF Lowest = 0 THEN 1..t ELSE 1..Lowest : blocks' = <<lo, t>>
     \/ UNCHANGED blocks
  /\ step' = "pin"
  /\ UNCHANGED <<sweepEnv, sweepFaults, tables, sweepMarks, sweepPass, sweepHist>>

\* PinSessionBackfillStop: once, and not before there is a block.
PinStop ==
  /\ step = "pin"
  /\ pinned' = IF pinned = 0 THEN Highest ELSE pinned
  /\ step' = "range"
  /\ UNCHANGED <<sweepEnv, sweepFaults, blocks, tables, swept, sweepPass, sweepHist>>

\* SessionBackfillRange: the batch below the cursor, or below the boundary.
SweepTo == IF swept > 0 /\ swept < pinned + 1 THEN swept ELSE pinned + 1
SweepLeft == Lowest > 0 /\ pinned > 0 /\ SweepTo > Lowest

NextRange ==
  /\ step = "range"
  /\ IF SweepLeft
     THEN /\ LET a == IF SweepTo - SweepBatch < Lowest THEN Lowest ELSE SweepTo - SweepBatch
             IN  left' = <<<<a, SweepTo>>>>
          /\ upTo' = SweepTo /\ floor' = SweepTo
          /\ step' = "query"
     ELSE /\ step' = "live"
          /\ UNCHANGED <<left, upTo, floor>>
  /\ UNCHANGED <<sweepEnv, sweepFaults, blocks, tables, sweepMarks, answered, noted, sweepHist>>

TooLarge(found) == Cardinality(found) > RowLimit

\* Mutant: the lower half is asked for first.
LowerFirst(a, b) == LET mid == a + (b - a) \div 2 IN <<<<a, mid>>, <<mid, b>>>>

\* The halves of a range that is too large, the upper one first.
Halves(a, b) == LET mid == a + (b - a) \div 2 IN <<<<mid, b>>, <<a, mid>>>>

\* Transactions with the shape they came in.
Shaped(page, shape) == [i \in DOMAIN page |-> <<page[i], shape>>]

\* fetchSessionRange: one query, answered by one replica. A range that fits is
\* appended to what is there; one that does not is halved; a single block that
\* does not ends the recursion.
QueryRange ==
  /\ step = "query"
  /\ \E t \in behind..top, shape \in Shapes :
       LET a     == left[1][1]
           b     == left[1][2]
           found == Known(a, b, t)
       IN  IF TooLarge(found)
           THEN /\ left' = IF b - a > 1 THEN Halves(a, b) \o Tail(left) ELSE <<>>
                /\ UNCHANGED <<floor, answered, noted, unseen>>
           ELSE /\ left' = Tail(left)
                /\ floor' = a
                /\ answered' = answered \o Shaped(InOrder(found), shape)
                /\ noted' = noted \union {x \in found : What[x] = "plain"}
                /\ unseen' = unseen \union {h \in a..b - 1 : h > t}
  /\ step' = IF left' = <<>> THEN "record" ELSE "query"
  /\ UNCHANGED <<sweepEnv, sweepFaults, blocks, tables, sweepMarks, upTo, unwritten>>

\* recordSessions of the next transaction of what was answered.
RecordFirst ==
  LET x == answered[1][1]
      shape == answered[1][2]
  IN  /\ grants' = AfterMessage(grants, x, shape)
      /\ signed' = signed \union SignedBy(x, shape)
      /\ answered' = Tail(answered)

RecordNext ==
  /\ step = "record"
  /\ IF answered = <<>>
     THEN step' = "memos" /\ UNCHANGED <<grants, signed, answered>>
     ELSE RecordFirst /\ UNCHANGED step
  /\ UNCHANGED <<sweepEnv, sweepFaults, blocks, memos, callRows, sweepMarks,
                 left, upTo, floor, noted, sweepHist>>

\* UpsertTxMemos, in one SQL transaction.
StoreMemos ==
  /\ step = "memos"
  /\ memos' = memos \union noted
  /\ noted' = {}
  /\ step' = "cursor"
  /\ UNCHANGED <<sweepEnv, sweepFaults, blocks, grants, signed, callRows, sweepMarks,
                 left, upTo, floor, answered, sweepHist>>

\* Mutant: the cursor stays at the end of the batch it came from.
SweptNothing == upTo

SweptTo == floor

\* SetSessionBackfillCursor, if anything was answered for.
SetSwept ==
  /\ step = "cursor"
  /\ swept' = IF floor < upTo THEN SweptTo ELSE swept
  /\ step' = "live"
  /\ upTo' = 0 /\ floor' = 0
  /\ UNCHANGED <<sweepEnv, sweepFaults, blocks, tables, pinned, left, answered, noted, sweepHist>>

\* syncCalls: everything above the highest row of calls, in chain order.
LiveCursor == IF callRows = {} THEN 0 ELSE Max({x[1] : x \in callRows})

\* What a replica has above it, in chain order. The pages of the walk are those
\* of TxSync.
LiveFetch ==
  /\ step = "live"
  /\ \E t \in behind..top, shape \in Shapes :
       answered' = Shaped(InOrder(Known(LiveCursor + 1, t + 1, t)), shape)
  /\ step' = "store"
  /\ UNCHANGED <<sweepEnv, sweepFaults, blocks, tables, sweepMarks,
                 left, upTo, floor, noted, sweepHist>>

\* One transaction of the walk: its memo, its session, its call.
LiveStore ==
  /\ step = "store"
  /\ IF answered = <<>>
     THEN step' = "blocks" /\ UNCHANGED <<tables, answered>>
     ELSE /\ RecordFirst
          /\ memos' = memos \union PlainOf(answered[1][1])
          /\ callRows' = callRows \union PlainOf(answered[1][1])
          /\ UNCHANGED step
  /\ UNCHANGED <<sweepEnv, sweepFaults, blocks, sweepMarks, left, upTo, floor, noted, sweepHist>>

\* ---- Failures ----

SweepFault == sweepFaults < MaxSweepFaults /\ sweepFaults' = sweepFaults + 1

\* The boundary cannot be pinned: logged. The range cannot be read, or the
\* cursor not be written: the pass goes on without the sweep. The walk fails: the pass ends.
SweepCallFails ==
  /\ SweepFault
  /\ \/ step = "pin" /\ step' = "range"
     \/ step \in {"range", "cursor"} /\ step' = "live"
     \/ step = "live" /\ step' = "blocks"
  /\ upTo' = 0 /\ floor' = 0
  /\ UNCHANGED <<sweepEnv, blocks, tables, sweepMarks, left, answered, noted, sweepHist>>

\* A range is not answered: what is above it is all the sweep gets.
QueryFails ==
  /\ SweepFault
  /\ step = "query"
  /\ left' = <<>>
  /\ step' = "record"
  /\ UNCHANGED <<sweepEnv, blocks, tables, sweepMarks, upTo, floor, answered, noted, sweepHist>>

\* A session row cannot be written: logged, and the loop goes on. The live pass
\* still stores the call.
RecordFails ==
  /\ SweepFault
  /\ step \in {"record", "store"} /\ answered # <<>>
  /\ LET x == answered[1][1]
         live == IF step = "store" THEN PlainOf(x) ELSE {}
     IN  /\ unwritten' = unwritten \union {x}
         /\ memos' = memos \union live
         /\ callRows' = callRows \union live
  /\ answered' = Tail(answered)
  /\ UNCHANGED <<sweepEnv, blocks, grants, signed, sweepMarks, step,
                 left, upTo, floor, noted, unseen>>

\* The memos cannot be written: deliberately no reason to hold the cursor.
MemosFail ==
  /\ SweepFault
  /\ step = "memos"
  /\ noted' = {}
  /\ step' = "cursor"
  /\ UNCHANGED <<sweepEnv, blocks, tables, sweepMarks, left, upTo, floor, answered, sweepHist>>

\* The process stops between two steps.
SweepRestart ==
  /\ SweepFault
  /\ step' = "blocks"
  /\ left' = <<>> /\ upTo' = 0 /\ floor' = 0 /\ answered' = <<>> /\ noted' = {}
  /\ UNCHANGED <<sweepEnv, blocks, tables, sweepMarks, sweepHist>>

-----------------------------------------------------------------------------
SweepPass ==
  \/ SweepBlocks \/ PinStop \/ NextRange \/ QueryRange \/ RecordNext
  \/ StoreMemos \/ SetSwept \/ LiveFetch \/ LiveStore

SessionNext ==
  \/ SweepGrow \/ SweepCatchUp \/ SweepPass
  \/ SweepCallFails \/ QueryFails \/ RecordFails \/ MemosFail \/ SweepRestart

SessionSafety == SessionInit /\ [][SessionNext]_sessionVars

\* A pass every 30 seconds, every call returns, replicas keep replaying.
SessionSpec == SessionSafety /\ WF_sessionVars(SweepPass) /\ WF_sessionVars(SweepCatchUp)
-----------------------------------------------------------------------------
(***************************************************************************)
(* Properties.                                                             *)
(***************************************************************************)
SessionTypeOK ==
  /\ top \in 0..SweepHeight /\ behind \in 0..top
  /\ blocks[2] \in 0..top /\ blocks[1] \in 0..blocks[2]
  /\ DOMAIN grants \subseteq (DOMAIN MasterOf) \X (1..SweepHeight)
  /\ \A r \in DOMAIN grants : grants[r] \in 0..SweepHeight
  /\ memos \union callRows \union signed \subseteq {x \in SessionTxs : What[x] = "plain"}
  /\ pinned \in 0..Highest /\ swept \in 0..pinned
  /\ step \in SweepSteps
  /\ floor \in 0..upTo
  /\ Len(left) <= SweepBatch

Revocations == {x \in SessionTxs : What[x] \in {"revoke", "revoke_all"}}
Names(x, key) ==
  IF What[x] = "revoke" THEN KeyOf[x] = key ELSE MasterOf[KeyOf[x]] = MasterOf[key]

\* The cursor passes over nothing that did not answer: between it and the
\* boundary every grant has its row, but for those a lagging replica hid and
\* those whose write failed, however often ranges were halved or broke off.
SweepHonest ==
  swept > 0 =>
    \A x \in SessionTxs :
      What[x] = "create" /\ swept <= x[1] /\ x[1] <= pinned =>
        GrantOf(x) \in DOMAIN grants \/ x[1] \in unseen \/ x \in unwritten

\* No grant is closed by a revocation that is older than it, in whatever order
\* the sweep, a repeated batch and the live pass bring the two.
RevokedRightly ==
  \A r \in DOMAIN grants : grants[r] # 0 =>
    \E x \in Revocations : x[1] = grants[r] /\ x[1] >= r[2] /\ Names(x, r[1])

\* A revocation once recorded stays as it is, however often its grant or
\* another revocation is walked again.
RevocationKept ==
  [][\A r \in DOMAIN grants :
       r \in DOMAIN grants' /\ (grants[r] # 0 => grants'[r] = grants[r])]_sessionVars

\* What the sweep comes to: it has reached the oldest stored block, whatever part
\* of it failed before.
SweepEnded == Highest > 0 => pinned > 0 /\ ~SweepLeft

\* A grant that is not marked revoked still stands on chain, as the comment on
\* SessionGrant says. It is not so: the sweep goes downward, so a revocation
\* meets no row when its grant lies in a lower batch.
KeysStand ==
  step = "blocks" /\ pinned > 0 /\ ~SweepLeft /\ unseen = {} /\ unwritten = {} =>
    \A r \in DOMAIN grants : grants[r] = 0 =>
      ~\E x \in Revocations :
         /\ Names(x, r[1])
         /\ r[2] < x[1] /\ x[1] <= pinned
-----------------------------------------------------------------------------
\* The sweep as a backfill: its cursor comes down from the boundary, and has
\* passed the grants between the two.
Creations == {x \in SessionTxs : What[x] = "create"}
PassedGrants == {x \in Creations : swept > 0 /\ swept <= x[1] /\ x[1] <= pinned}

SweepPromise == INSTANCE Backfill WITH
  Items <- Creations,
  recorded <- {x \in Creations : GrantOf(x) \in DOMAIN grants},
  excused <- {x \in Creations : x[1] \in unseen \/ x \in unwritten},
  passed <- PassedGrants

\* backfillSessions keeps the promise of Backfill: the boundary is pinned once,
\* the cursor never goes up again, and no grant that was passed loses its row.
SweepKeepsPromise == SweepPromise!BackfillSpec
=============================================================================
