------------------------------ MODULE ChainReset ------------------------------
(***************************************************************************)
(* Chain resets of one network (pkg/syncer, checkChainReset, and the       *)
(* store's DeleteNetworkData).  A testnet is restarted from a new genesis  *)
(* under the same name, and the indexer serves the new chain from then on. *)
(* Every sync cursor is read back from stored rows, so rows of the old     *)
(* chain that stay behind put a cursor above the new tip.  Each pass first *)
(* compares the fingerprint of block 1 with the one on record and, when    *)
(* they differ, deletes the network's rows before it syncs anything.       *)
(*                                                                         *)
(* The chains a network goes through are numbered from 1; 0 stands for no  *)
(* fingerprint.  A row is <<chain, height>>.  Every block carries one      *)
(* package submission, one call and one bank send, which is what separates *)
(* the tables here: the passes differ in the tables they write and in the  *)
(* table their cursor comes from.  syncMsgRuns has the shape of            *)
(* syncPackages with "msg_runs" as both, and is left out.                  *)
(***************************************************************************)
EXTENDS Integers, FiniteSetsExt

CONSTANTS
  MaxChain,      \* bound: how many chains the network goes through
  ChainHeight,   \* bound: a chain stops growing here
  ChainLag,      \* how many blocks a replica may trail the chain
  MaxChainFaults \* bound: failed calls and restarts together

ASSUME ChainResetAssumption ==
  /\ MaxChain \in Nat \ {0}
  /\ ChainHeight \in Nat
  /\ ChainLag \in Nat
  /\ MaxChainFaults \in Nat

VARIABLES
  chain,         \* the chain the indexer serves
  chainTip,      \* its height
  chainSlow,     \* height of its slowest replica
  chainFaults,   \* faults so far
  tableRows,     \* durable: the rows of each table
  fp,            \* durable: sync_state chain_fingerprint, 0 for ""
  chainStep,     \* the step of SyncAll that comes next
  current,       \* the fingerprint this pass read
  orphans        \* history: chains whose rows were stored with no fingerprint on
                 \* record, and are not of the chain recorded since

chainEnv  == <<chain, chainTip, chainSlow>>
chainVars == <<chainEnv, chainFaults, tableRows, fp, chainStep, current, orphans>>

Tables == {"packages", "package_submissions", "calls", "bank_sends",
           "transfer_edges"}

ChainSteps == {"idle", "compare", "wipe", "record", "packages", "calls", "edges"}

\* Mutant: the list forgets the calls table, one half of syncCalls' cursor.
ScopedWithoutCalls == {"packages", "bank_sends", "transfer_edges"}

\* Mutant: the list forgets the edge rollup.
ScopedWithoutEdges == {"packages", "calls", "bank_sends"}

\* The tables DeleteNetworkData empties, of those modelled here.
NetworkScopedTables == {"packages", "calls", "bank_sends", "transfer_edges"}

\* LastBlockHeight, LastCallOrSendHeight, edgesLastHeight: the cursors.
NewestRow(stored) == Max({r[2] : r \in stored} \union {0})

\* What a replica at top t returns above the cursor.
RowsAbove(cursor, t) == {chain} \X (cursor + 1..t)

ChainReplies == chainSlow..chainTip

-----------------------------------------------------------------------------
ChainInit ==
  /\ chain = 1
  /\ chainTip \in 0..ChainHeight
  /\ chainSlow \in 0..chainTip
  /\ chainTip - chainSlow <= ChainLag
  /\ chainFaults = 0
  /\ tableRows = [t \in Tables |-> {}]
  /\ fp = 0
  /\ chainStep = "idle"
  /\ current = 0
  /\ orphans = {}

\* ---- The chain and its replicas ----

ChainGrow ==
  /\ chainTip < ChainHeight
  /\ chainTip + 1 - chainSlow <= ChainLag
  /\ chainTip' = chainTip + 1
  /\ UNCHANGED <<chain, chainSlow, chainFaults, tableRows, fp, chainStep, current, orphans>>

ChainCatchUp ==
  /\ chainSlow < chainTip
  /\ chainSlow' = chainSlow + 1
  /\ UNCHANGED <<chain, chainTip, chainFaults, tableRows, fp, chainStep, current, orphans>>

\* The network restarts from a new genesis, at any point of a pass.
Reset ==
  /\ chain < MaxChain
  /\ chain' = chain + 1
  /\ chainTip' = 0 /\ chainSlow' = 0
  /\ UNCHANGED <<chainFaults, tableRows, fp, chainStep, current, orphans>>

\* ---- checkChainReset ----

\* Mutant: a missing block 1 yields an empty fingerprint instead of an error.
FingerprintOfNothing ==
  /\ chainStep = "idle"
  /\ \E t \in ChainReplies : current' = IF t >= 1 THEN chain ELSE 0
  /\ chainStep' = "compare"
  /\ UNCHANGED <<chainEnv, chainFaults, tableRows, fp, orphans>>

\* chainFingerprint: block 1 of whatever chain answers. A replica that has no
\* block 1 is no evidence of anything and the check is skipped.
Fingerprint ==
  /\ chainStep = "idle"
  /\ \E t \in ChainReplies :
       IF t >= 1
       THEN current' = chain /\ chainStep' = "compare"
       ELSE current' = 0 /\ chainStep' = "packages"
  /\ UNCHANGED <<chainEnv, chainFaults, tableRows, fp, orphans>>

\* Mutant: the new fingerprint is on record before the old rows are gone.
CompareRecordingFirst ==
  /\ chainStep = "compare"
  /\ fp' = current
  /\ chainStep' = IF fp \in {0, current} THEN "packages" ELSE "wipe"
  /\ orphans' = IF fp = 0 THEN orphans \ {current} ELSE orphans
  /\ UNCHANGED <<chainEnv, chainFaults, tableRows, current>>

\* Mutant: a tip below the stored height counts as a reset.
CompareHeights ==
  /\ chainStep = "compare"
  /\ fp' = current
  /\ chainStep' = IF \E t \in ChainReplies : t < NewestRow(tableRows["calls"])
           THEN "wipe" ELSE "packages"
  /\ orphans' = IF fp = 0 THEN orphans \ {current} ELSE orphans
  /\ UNCHANGED <<chainEnv, chainFaults, tableRows, current>>

\* The switch on the stored fingerprint: none is adopted, the same one passes.
Compare ==
  /\ chainStep = "compare"
  /\ fp' = IF fp = 0 THEN current ELSE fp
  /\ chainStep' = IF fp \in {0, current} THEN "packages" ELSE "wipe"
  /\ orphans' = IF fp = 0 THEN orphans \ {current} ELSE orphans
  /\ UNCHANGED <<chainEnv, chainFaults, tableRows, current>>

\* DeleteNetworkData: one transaction over the listed tables.
Wipe ==
  /\ chainStep = "wipe"
  /\ tableRows' = [t \in Tables |-> IF t \in NetworkScopedTables THEN {} ELSE tableRows[t]]
  /\ orphans' = {}
  /\ chainStep' = "record"
  /\ UNCHANGED <<chainEnv, chainFaults, fp, current>>

Record ==
  /\ chainStep = "record"
  /\ fp' = current
  /\ chainStep' = "packages"
  /\ UNCHANGED <<chainEnv, chainFaults, tableRows, current, orphans>>

\* ---- The walks that follow, each from the cursor its own rows give ----

\* What a walk stores into the tables it writes.
Store(written, new) ==
  /\ tableRows' = [t \in Tables |->
                IF t \in written THEN tableRows[t] \union new ELSE tableRows[t]]
  /\ orphans' = IF fp = 0 /\ new # {} THEN orphans \union {chain} ELSE orphans

SyncPackages ==
  /\ chainStep = "packages"
  /\ \E t \in ChainReplies :
       Store({"packages", "package_submissions"},
             RowsAbove(NewestRow(tableRows["package_submissions"]), t))
  /\ chainStep' = "calls"
  /\ UNCHANGED <<chainEnv, chainFaults, fp, current>>

SyncCallsAndSends ==
  /\ chainStep = "calls"
  /\ \E t \in ChainReplies :
       Store({"calls", "bank_sends"},
             RowsAbove(NewestRow(tableRows["calls"] \union tableRows["bank_sends"]), t))
  /\ chainStep' = "edges"
  /\ UNCHANGED <<chainEnv, chainFaults, fp, current>>

\* syncTransferEdges folds local rows; its cursor is its own newest edge.
SyncTransferEdges ==
  /\ chainStep = "edges"
  /\ tableRows' = [tableRows EXCEPT !["transfer_edges"] = @ \union
                {r \in tableRows["bank_sends"] : r[2] > NewestRow(@)}]
  /\ chainStep' = "idle"
  /\ UNCHANGED <<chainEnv, chainFaults, fp, current, orphans>>

\* ---- Failures ----

\* A failed query or write. Only a fingerprint that cannot be read lets the
\* pass go on; every other failure ends it.
ChainCallFails ==
  /\ chainFaults < MaxChainFaults
  /\ chainFaults' = chainFaults + 1
  /\ chainStep' = IF chainStep = "idle" THEN "packages" ELSE "idle"
  /\ current' = 0
  /\ UNCHANGED <<chainEnv, tableRows, fp, orphans>>

\* The process stops between two steps; only the database survives.
ChainRestart ==
  /\ chainFaults < MaxChainFaults
  /\ chainFaults' = chainFaults + 1
  /\ chainStep' = "idle"
  /\ current' = 0
  /\ UNCHANGED <<chainEnv, tableRows, fp, orphans>>

-----------------------------------------------------------------------------
ChainPass == Fingerprint \/ Compare \/ Wipe \/ Record
          \/ SyncPackages \/ SyncCallsAndSends \/ SyncTransferEdges

ChainNext == ChainGrow \/ ChainCatchUp \/ Reset \/ ChainPass \/ ChainCallFails \/ ChainRestart

ChainSafety == ChainInit /\ [][ChainNext]_chainVars

\* A pass every 30 seconds, every call returns, replicas keep replaying.
ChainSpec == ChainSafety /\ WF_chainVars(ChainPass) /\ WF_chainVars(ChainCatchUp)
-----------------------------------------------------------------------------
(***************************************************************************)
(* Properties.                                                             *)
(***************************************************************************)
ChainTypeOK ==
  /\ chain \in 1..MaxChain
  /\ chainTip \in 0..ChainHeight
  /\ chainSlow \in 0..chainTip
  /\ chainFaults \in 0..MaxChainFaults
  /\ tableRows \in [Tables -> SUBSET ((1..chain) \X (1..ChainHeight))]
  /\ fp \in 0..chain
  /\ chainStep \in ChainSteps
  /\ current \in 0..chain
  /\ chainStep \in {"compare", "wipe", "record"} => current # 0
  /\ orphans \subseteq 1..chain

\* Once a fingerprint is on record, no wiped table holds a row of a chain
\* before it, whatever crashed and whenever the chain was reset, except rows
\* stored before there was any fingerprint to compare.
NoDeadRows ==
  fp # 0 => \A t \in NetworkScopedTables : \A r \in tableRows[t] :
              r[1] < fp => r[1] \in orphans

\* The rollup never outlives the transfers it was folded from.
EdgesHaveSends == tableRows["transfer_edges"] \subseteq tableRows["bank_sends"]

\* While the chain on record is the one being served, nothing is deleted: not
\* for a lagging replica, a pruned block 1, or a failure half way.
KeepsLiveRows ==
  [][fp = chain => \A t \in Tables : tableRows[t] \subseteq tableRows'[t]]_chainVars

\* The table holds the whole of the chain being served.
Fresh(t) == {r[2] : r \in {q \in tableRows[t] : q[1] = chain}} = 1..chainTip

\* After the last reset the walks whose cursor tables are wiped start over and
\* catch up with the new chain.
WalksResync ==
  <>[](orphans = {} =>
         \A t \in NetworkScopedTables \ {"packages"} : Fresh(t))

\* The same of the packages of the new chain, as checkChainReset's comment
\* promises of every cursor. It is not so: package_submissions is not wiped.
PackagesResync == <>[](orphans = {} => Fresh("packages"))
=============================================================================
