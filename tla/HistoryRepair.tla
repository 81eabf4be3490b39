---------------------------- MODULE HistoryRepair -----------------------------
(***************************************************************************)
(* Three repairs of rows that an older build stored incomplete (pkg/syncer:*)
(* backfillTransactions, backfillValopers, backfillMessageArgs; pkg/store: *)
(* HeightsMissingTransactions, ValoperCallsMissingRegistration,            *)
(* ArgsBackfillHeights).  Each asks the tables what is missing, newest     *)
(* first, takes a batch, fetches it, and stops at the first call that      *)
(* fails.  The first two find their work by its absence; the third walks   *)
(* down behind a cursor, because an empty column is not always a gap.      *)
(*                                                                         *)
(* A row is the height it stands at, one transaction per height.           *)
(***************************************************************************)
EXTENDS Integers, FiniteSetsExt

CONSTANTS
  OldRows,       \* heights of the rows the older build stored
  ValoperRows,   \* those that call the valopers realm
  RepairSize,    \* backfillTxBatch, backfillValoperBatch, backfillArgsBatch
  RepairLag,     \* how many blocks a replica may trail the chain
  RepairHeight,  \* height of the chain
  MaxRepairFaults\* bound: failed calls, failed writes and restarts together

ASSUME RepairAssumption ==
  /\ OldRows \subseteq 0..RepairHeight
  /\ ValoperRows \subseteq OldRows
  /\ RepairSize \in Nat \ {0}
  /\ RepairLag \in Nat /\ RepairHeight \in Nat /\ MaxRepairFaults \in Nat

VARIABLES
  repairSlow,   \* height of the slowest replica
  repairFaults, \* faults so far
  gas,          \* durable: rows with a row in transactions
  monikers,     \* durable: rows with a row in valoper_registrations
  args,         \* durable: rows whose args are filled
  argsCursor,   \* durable: everything from here up is done
  repairStep,   \* the repair that comes next
  notSeen,      \* history: heights a replica answered for without having them
  notFilled     \* history: rows whose update has failed

repairVars == <<repairSlow, repairFaults, gas, monikers, args, argsCursor,
                repairStep, notSeen, notFilled>>

\* Newest first, capped.
Newest(s) == {h \in s : Cardinality({g \in s : g > h}) < RepairSize}

\* Mutant: rows of genesis are missing a transaction too.
MissingWithGenesis == OldRows \ gas

\* No transaction ever exists for a row of genesis.
HeightsMissing == {h \in OldRows \ gas : h > 0}

RegistrationsMissing == ValoperRows \ monikers

ArgsLeft == {h \in OldRows \ args : h < argsCursor}

-----------------------------------------------------------------------------
RepairInit ==
  /\ repairSlow \in 0..RepairHeight
  /\ RepairHeight - repairSlow <= RepairLag
  /\ repairFaults = 0
  /\ gas \in SUBSET OldRows /\ 0 \notin gas
  /\ monikers = {}
  /\ args = {}
  /\ argsCursor = RepairHeight + 1
  /\ repairStep = "gas"
  /\ notSeen = {} /\ notFilled = {}

RepairCatchUp ==
  /\ repairSlow < RepairHeight
  /\ repairSlow' = repairSlow + 1
  /\ UNCHANGED <<repairFaults, gas, monikers, args, argsCursor, repairStep,
                 notSeen, notFilled>>

\* The heights of a batch some replica answers for without having them.
Hidden(asked) == SUBSET {h \in asked : h > repairSlow}

\* The heights above a, which answered before the call that failed.
Answering(asked, a) == {h \in asked : h > a}

\* backfillTransactions, up to the first height that is not answered, stored in
\* one SQL transaction. Genesis has nothing to store.
FillGas(a) ==
  /\ repairStep = "gas"
  /\ \E unknown \in Hidden(Newest(HeightsMissing)) :
       gas' = gas \union (Answering(Newest(HeightsMissing), a) \ (unknown \union {0}))
  /\ repairStep' = "valopers"
  /\ UNCHANGED <<repairSlow, monikers, args, argsCursor, notSeen, notFilled>>

\* backfillValopers: one call and one row at a time; a replica that does not
\* have the transaction is passed over.
FillMonikers(a) ==
  /\ repairStep = "valopers"
  /\ \E unknown \in Hidden(Newest(RegistrationsMissing)) :
       monikers' = monikers \union (Answering(Newest(RegistrationsMissing), a) \ unknown)
  /\ repairStep' = "args"
  /\ UNCHANGED <<repairSlow, gas, args, argsCursor, notSeen, notFilled>>

\* Mutant: the cursor goes to the end of the batch, whatever answered.
CursorOfBatch(done) == Min(Newest(ArgsLeft))

CursorOf(done) == Min(done)

\* backfillMessageArgs: the updates, then the cursor if it can be written.
FillArgs(a, failed, saved) ==
  /\ repairStep = "args"
  /\ LET done == Answering(Newest(ArgsLeft), a)
     IN  \E unknown \in Hidden(done) :
           /\ args' = args \union (done \ (unknown \union failed))
           /\ notSeen' = notSeen \union unknown
           /\ notFilled' = notFilled \union (done \intersect failed)
           /\ argsCursor' = IF done = {} \/ ~saved THEN argsCursor ELSE CursorOf(done)
  /\ repairStep' = "gas"
  /\ UNCHANGED <<repairSlow, gas, monikers>>

\* ---- Failures ----

\* A call fails at height a: what came before it is kept. An update fails and
\* is logged. The cursor or the rows cannot be written.
WriteFails ==
  /\ repairFaults < MaxRepairFaults
  /\ repairFaults' = repairFaults + 1
  /\ \E a \in 0..RepairHeight : FillGas(a) \/ FillMonikers(a)
       \/ \E saved \in BOOLEAN : FillArgs(a, {a + 1}, saved)

\* The process stops before a repair.
RepairRestart ==
  /\ repairFaults < MaxRepairFaults
  /\ repairFaults' = repairFaults + 1
  /\ repairStep' = "gas"
  /\ UNCHANGED <<repairSlow, gas, monikers, args, argsCursor, notSeen, notFilled>>

-----------------------------------------------------------------------------
RepairPass ==
  /\ FillGas(-1) \/ FillMonikers(-1) \/ FillArgs(-1, {}, TRUE)
  /\ UNCHANGED repairFaults

RepairNext == RepairCatchUp \/ RepairPass \/ WriteFails \/ RepairRestart

RepairSafety == RepairInit /\ [][RepairNext]_repairVars

\* A pass every 30 seconds, every call returns, replicas keep replaying.
RepairSpec == RepairSafety /\ WF_repairVars(RepairPass) /\ WF_repairVars(RepairCatchUp)
-----------------------------------------------------------------------------
(***************************************************************************)
(* Properties.                                                             *)
(***************************************************************************)
RepairTypeOK ==
  /\ repairSlow \in 0..RepairHeight
  /\ repairFaults \in 0..MaxRepairFaults
  /\ gas \subseteq OldRows \ {0}
  /\ monikers \subseteq ValoperRows
  /\ args \subseteq OldRows
  /\ argsCursor \in 0..RepairHeight + 1
  /\ repairStep \in {"gas", "valopers", "args"}
  /\ notSeen \union notFilled \subseteq OldRows

\* The cursor passes over no row that a call has not answered for: a failure
\* halfway leaves the older half to the next pass.
ArgsHonest ==
  \A h \in OldRows : h >= argsCursor => h \in args \union notSeen \union notFilled

\* What the repairs come to: nothing is missing, and nothing is asked for again
\* every pass.
RepairsClosed == HeightsMissing = {} /\ RegistrationsMissing = {} /\ ArgsLeft = {}
-----------------------------------------------------------------------------
\* The repair of the arguments as a backfill: its cursor comes down, and has
\* passed the rows from it up.
ArgsPromise == INSTANCE Backfill WITH
  Items <- OldRows, recorded <- args, excused <- notSeen \union notFilled,
  passed <- {h \in OldRows : h >= argsCursor}

\* backfillMessageArgs keeps the promise of Backfill: the cursor never goes up
\* again, wherever a call, an update or the write of the cursor fails.
ArgsKeepPromise == ArgsPromise!BackfillSpec
=============================================================================
