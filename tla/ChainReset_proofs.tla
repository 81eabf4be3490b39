--------------------------- MODULE ChainReset_proofs --------------------------
(***************************************************************************)
(* Proofs about ChainReset, for every number of chains, every height and   *)
(* lag, and every number of faults.                                        *)
(***************************************************************************)
EXTENDS ChainReset, OrderLemmas

\* Rows stored with no fingerprint on record are of chains in orphans.
OrphanInv ==
  fp = 0 => \A t \in NetworkScopedTables : \A r \in tableRows[t] : r[1] \in orphans

\* What checkChainReset has read and decided agrees with what is on record.
CheckInv ==
  /\ chainStep \in {"compare", "wipe", "record"} => fp <= current
  /\ chainStep = "wipe" => fp < current
  /\ chainStep = "record" => \A t \in NetworkScopedTables : tableRows[t] = {}

IInv ==
  /\ ChainTypeOK
  /\ OrphanInv
  /\ CheckInv
  /\ NoDeadRows
  /\ EdgesHaveSends

-----------------------------------------------------------------------------
\* The cursor of any table is a natural number.
LEMMA NewestType ==
  ASSUME NEW c \in Nat, NEW n \in Nat, NEW s \in SUBSET ((1..c) \X (1..n))
  PROVE  NewestRow(s) \in 0..n
<1> DEFINE H == {r[2] : r \in s} \union {0}
<1>1. H \in SUBSET (0..n) /\ H # {}
  OBVIOUS
<1>2. Max(H) \in H
  BY <1>1, MaxOfBounded
<1>3. QED
  BY <1>1, <1>2 DEF NewestRow

\* What a replica returns above a cursor is typed as rows are.
LEMMA AboveType ==
  ASSUME ChainTypeOK, NEW k \in Nat, NEW t \in ChainReplies
  PROVE  /\ RowsAbove(k, t) \subseteq (1..chain) \X (1..ChainHeight)
         /\ \A r \in RowsAbove(k, t) : r[1] = chain
BY ChainResetAssumption DEF ChainTypeOK, RowsAbove, ChainReplies

-----------------------------------------------------------------------------
LEMMA InitIInv ==
  ASSUME ChainInit
  PROVE  IInv
<1>1. ChainTypeOK
  BY ChainResetAssumption DEF ChainInit, ChainTypeOK, ChainSteps, Tables
<1>2. OrphanInv /\ NoDeadRows /\ EdgesHaveSends
  BY DEF ChainInit, OrphanInv, NoDeadRows, EdgesHaveSends, NetworkScopedTables, Tables
<1>3. CheckInv
  BY DEF ChainInit, CheckInv
<1>4. QED
  BY <1>1, <1>2, <1>3 DEF IInv

\* A step that leaves rows, fp and orphans alone has only the pass to answer for.
LEMMA RowsAlone ==
  ASSUME IInv, UNCHANGED <<tableRows, fp, orphans>>
  PROVE  OrphanInv' /\ NoDeadRows' /\ EdgesHaveSends'
BY DEF IInv, OrphanInv, NoDeadRows, EdgesHaveSends

\* The chain grows, a replica catches up or the network is reset.
LEMMA EnvStep ==
  ASSUME IInv, ChainGrow \/ ChainCatchUp \/ Reset
  PROVE  IInv'
<1>1. UNCHANGED <<tableRows, fp, orphans>>
  BY DEF ChainGrow, ChainCatchUp, Reset
<1>2. ChainTypeOK'
  <2>1. CASE ChainGrow
    BY <2>1, ChainResetAssumption DEF IInv, ChainTypeOK, ChainGrow
  <2>2. CASE ChainCatchUp
    BY <2>2, ChainResetAssumption DEF IInv, ChainTypeOK, ChainCatchUp
  <2>3. CASE Reset
    <3>1. 1..chain \subseteq 1..chain' /\ chain' \in 1..MaxChain
      BY <2>3, ChainResetAssumption DEF IInv, ChainTypeOK, Reset
    <3>2. (1..chain) \X (1..ChainHeight) \subseteq (1..chain') \X (1..ChainHeight)
      BY <3>1
    <3>3. tableRows' \in [Tables -> SUBSET ((1..chain') \X (1..ChainHeight))]
      BY <1>1, <3>2 DEF IInv, ChainTypeOK
    <3>4. fp' \in 0..chain' /\ current' \in 0..chain' /\ orphans' \subseteq 1..chain'
      BY <2>3, <3>1, ChainResetAssumption DEF IInv, ChainTypeOK, Reset
    <3>5. QED
      BY <2>3, <3>1, <3>3, <3>4, ChainResetAssumption DEF IInv, ChainTypeOK, Reset
  <2>4. QED
    BY <2>1, <2>2, <2>3
<1>3. CheckInv'
  BY <1>1 DEF IInv, CheckInv, ChainGrow, ChainCatchUp, Reset
<1>4. QED
  BY <1>1, <1>2, <1>3, RowsAlone DEF IInv

LEMMA FingerprintStep ==
  ASSUME IInv, Fingerprint
  PROVE  IInv'
<1>1. UNCHANGED <<tableRows, fp, orphans>> /\ UNCHANGED <<chain, chainTip, chainSlow, chainFaults>>
  BY DEF Fingerprint, chainEnv
<1>2. \/ current' = chain /\ chainStep' = "compare"
      \/ current' = 0 /\ chainStep' = "packages"
  BY DEF Fingerprint
<1>3. ChainTypeOK'
  BY <1>1, <1>2, ChainResetAssumption DEF IInv, ChainTypeOK, ChainSteps
<1>4. CheckInv'
  BY <1>1, <1>2 DEF IInv, ChainTypeOK, CheckInv
<1>5. QED
  BY <1>1, <1>3, <1>4, RowsAlone DEF IInv

\* The first fingerprint is adopted with the rows stored before it.
LEMMA CompareStep ==
  ASSUME IInv, Compare
  PROVE  IInv'
<1>1. UNCHANGED tableRows /\ UNCHANGED <<chain, chainTip, chainSlow, chainFaults, current>>
  BY DEF Compare, chainEnv
<1>2. current \in 1..chain /\ fp \in 0..chain /\ fp <= current
  BY DEF IInv, ChainTypeOK, CheckInv, Compare
<1>3. ChainTypeOK'
  BY <1>1, <1>2 DEF IInv, ChainTypeOK, ChainSteps, Compare
<1>4. fp' # 0
  BY <1>2 DEF Compare
<1>5. NoDeadRows'
  <2>1. SUFFICES ASSUME NEW t \in NetworkScopedTables, NEW r \in tableRows[t], r[1] < fp'
                 PROVE  r[1] \in orphans'
    BY <1>1 DEF NoDeadRows
  <2>2. CASE fp = 0
    <3>1. r[1] \in orphans
      BY <2>2 DEF IInv, OrphanInv
    <3>2. fp' = current /\ orphans' = orphans \ {current}
      BY <2>2 DEF Compare
    <3>3. r[1] # current
      BY <1>2, <2>1, <3>2
    <3>4. QED
      BY <3>1, <3>2, <3>3
  <2>3. CASE fp # 0
    <3>1. fp' = fp /\ orphans' = orphans
      BY <2>3 DEF Compare
    <3>2. QED
      BY <2>1, <2>3, <3>1 DEF IInv, NoDeadRows
  <2>4. QED
    BY <2>2, <2>3
<1>6. CheckInv'
  BY <1>1, <1>2 DEF CheckInv, Compare
<1>7. OrphanInv' /\ EdgesHaveSends'
  BY <1>1, <1>4 DEF IInv, OrphanInv, EdgesHaveSends
<1>8. QED
  BY <1>3, <1>5, <1>6, <1>7 DEF IInv

LEMMA WipeStep ==
  ASSUME IInv, Wipe
  PROVE  IInv'
<1>1. UNCHANGED <<chain, chainTip, chainSlow, chainFaults, fp, current>>
      /\ chainStep = "wipe" /\ chainStep' = "record" /\ orphans' = {}
  BY DEF Wipe, chainEnv
<1>2. /\ \A t \in NetworkScopedTables : tableRows'[t] = {}
      /\ \A t \in Tables \ NetworkScopedTables : tableRows'[t] = tableRows[t]
      /\ tableRows' \in [Tables -> SUBSET ((1..chain) \X (1..ChainHeight))]
  BY DEF IInv, ChainTypeOK, Wipe, NetworkScopedTables, Tables
<1>3. ChainTypeOK'
  BY <1>1, <1>2 DEF IInv, ChainTypeOK, ChainSteps
<1>4. OrphanInv' /\ NoDeadRows' /\ EdgesHaveSends'
  BY <1>2 DEF OrphanInv, NoDeadRows, EdgesHaveSends, NetworkScopedTables
<1>5. CheckInv'
  BY <1>1, <1>2 DEF IInv, CheckInv
<1>6. QED
  BY <1>3, <1>4, <1>5 DEF IInv

LEMMA RecordStep ==
  ASSUME IInv, Record
  PROVE  IInv'
<1>1. UNCHANGED <<chain, chainTip, chainSlow, chainFaults, tableRows, current, orphans>>
      /\ fp' = current /\ chainStep' = "packages"
  BY DEF Record, chainEnv
<1>2. current # 0 /\ \A t \in NetworkScopedTables : tableRows[t] = {}
  BY DEF IInv, ChainTypeOK, CheckInv, Record
<1>3. ChainTypeOK'
  BY <1>1, <1>2 DEF IInv, ChainTypeOK, ChainSteps
<1>4. OrphanInv' /\ NoDeadRows' /\ EdgesHaveSends'
  BY <1>1, <1>2 DEF IInv, OrphanInv, NoDeadRows, EdgesHaveSends
<1>5. CheckInv'
  BY <1>1 DEF CheckInv
<1>6. QED
  BY <1>3, <1>4, <1>5 DEF IInv

\* A walk stores rows of the chain being served, never into the rollup.
LEMMA StoreKeeps ==
  ASSUME IInv, NEW written \in SUBSET (Tables \ {"transfer_edges"}),
         NEW new \in SUBSET ((1..chain) \X (1..ChainHeight)),
         \A r \in new : r[1] = chain,
         Store(written, new), UNCHANGED <<chain, fp>>
  PROVE  /\ tableRows' \in [Tables -> SUBSET ((1..chain) \X (1..ChainHeight))]
         /\ orphans' \subseteq 1..chain
         /\ \A t \in Tables : tableRows[t] \subseteq tableRows'[t]
         /\ OrphanInv' /\ NoDeadRows' /\ EdgesHaveSends'
<1>1. tableRows \in [Tables -> SUBSET ((1..chain) \X (1..ChainHeight))]
      /\ orphans \subseteq 1..chain /\ chain \in 1..MaxChain /\ fp \in 0..chain
  BY DEF IInv, ChainTypeOK
<1>2. \A t \in Tables :
        tableRows'[t] = IF t \in written THEN tableRows[t] \union new ELSE tableRows[t]
  BY DEF Store
<1>3. tableRows' \in [Tables -> SUBSET ((1..chain) \X (1..ChainHeight))]
  BY <1>1 DEF Store
<1>4. orphans \subseteq orphans' /\ orphans' \subseteq 1..chain
  BY <1>1, ChainResetAssumption DEF Store
<1>5. \A t \in Tables : tableRows[t] \subseteq tableRows'[t]
  BY <1>2
<1>6. NetworkScopedTables \subseteq Tables
  BY DEF NetworkScopedTables, Tables
<1>7. \A t \in Tables : \A r \in tableRows'[t] :
        r \in tableRows[t] \/ (r[1] = chain /\ new # {})
  BY <1>2
<1>8. OrphanInv'
  <2>1. SUFFICES ASSUME fp = 0, NEW t \in NetworkScopedTables, NEW r \in tableRows'[t]
                 PROVE  r[1] \in orphans'
    BY DEF OrphanInv
  <2>2. CASE r \in tableRows[t]
    BY <1>4, <2>1, <2>2 DEF IInv, OrphanInv
  <2>3. CASE r[1] = chain /\ new # {}
    BY <2>1, <2>3 DEF Store
  <2>4. QED
    BY <1>6, <1>7, <2>2, <2>3
<1>9. NoDeadRows'
  <2>1. SUFFICES ASSUME fp # 0, NEW t \in NetworkScopedTables, NEW r \in tableRows'[t],
                        r[1] < fp
                 PROVE  r[1] \in orphans'
    BY DEF NoDeadRows
  <2>2. r[1] # chain
    BY <1>1, <2>1
  <2>3. r \in tableRows[t]
    BY <1>6, <1>7, <2>2
  <2>4. QED
    BY <1>4, <2>1, <2>3 DEF IInv, NoDeadRows
<1>10. EdgesHaveSends'
  <2>1. tableRows'["transfer_edges"] = tableRows["transfer_edges"]
    BY <1>2 DEF Tables
  <2>2. tableRows["bank_sends"] \subseteq tableRows'["bank_sends"]
    BY <1>5 DEF Tables
  <2>3. QED
    BY <2>1, <2>2 DEF IInv, EdgesHaveSends
<1>11. QED
  BY <1>3, <1>4, <1>5, <1>8, <1>9, <1>10

\* Any set of stored rows gives a cursor.
LEMMA CursorOf ==
  ASSUME ChainTypeOK, NEW a \in Tables, NEW b \in Tables
  PROVE  NewestRow(tableRows[a]) \in Nat /\ NewestRow(tableRows[a] \union tableRows[b]) \in Nat
<1>1. /\ tableRows[a] \in SUBSET ((1..chain) \X (1..ChainHeight))
      /\ tableRows[a] \union tableRows[b] \in SUBSET ((1..chain) \X (1..ChainHeight))
      /\ chain \in Nat /\ ChainHeight \in Nat
  BY ChainResetAssumption DEF ChainTypeOK
<1>2. NewestRow(tableRows[a]) \in 0..ChainHeight /\ NewestRow(tableRows[a] \union tableRows[b]) \in 0..ChainHeight
  BY <1>1, NewestType
<1>3. QED
  BY <1>2, ChainResetAssumption

LEMMA SyncPackagesStep ==
  ASSUME IInv, SyncPackages
  PROVE  IInv' /\ \A t \in Tables : tableRows[t] \subseteq tableRows'[t]
<1> DEFINE cursor == NewestRow(tableRows["package_submissions"])
<1>1. UNCHANGED <<chain, chainTip, chainSlow, chainFaults, fp, current>> /\ chainStep' = "calls"
  BY DEF SyncPackages, chainEnv
<1>2. ChainTypeOK /\ cursor \in Nat
  BY CursorOf DEF IInv, Tables
<1>3. PICK t \in ChainReplies : Store({"packages", "package_submissions"}, RowsAbove(cursor, t))
  BY DEF SyncPackages
<1>4. /\ RowsAbove(cursor, t) \subseteq (1..chain) \X (1..ChainHeight)
      /\ \A r \in RowsAbove(cursor, t) : r[1] = chain
  BY <1>2, AboveType
<1>5. {"packages", "package_submissions"} \in SUBSET (Tables \ {"transfer_edges"})
  BY DEF Tables
<1> HIDE DEF cursor
<1>6. /\ tableRows' \in [Tables -> SUBSET ((1..chain) \X (1..ChainHeight))]
      /\ orphans' \subseteq 1..chain
      /\ \A x \in Tables : tableRows[x] \subseteq tableRows'[x]
      /\ OrphanInv' /\ NoDeadRows' /\ EdgesHaveSends'
  BY <1>1, <1>3, <1>4, <1>5, StoreKeeps
<1>7. ChainTypeOK'
  BY <1>1, <1>2, <1>6 DEF ChainTypeOK, ChainSteps
<1>8. CheckInv'
  BY <1>1 DEF CheckInv
<1>9. QED
  BY <1>6, <1>7, <1>8 DEF IInv

LEMMA SyncCallsStep ==
  ASSUME IInv, SyncCallsAndSends
  PROVE  IInv' /\ \A t \in Tables : tableRows[t] \subseteq tableRows'[t]
<1> DEFINE cursor == NewestRow(tableRows["calls"] \union tableRows["bank_sends"])
<1>1. UNCHANGED <<chain, chainTip, chainSlow, chainFaults, fp, current>> /\ chainStep' = "edges"
  BY DEF SyncCallsAndSends, chainEnv
<1>2. ChainTypeOK /\ cursor \in Nat
  BY CursorOf DEF IInv, Tables
<1>3. PICK t \in ChainReplies : Store({"calls", "bank_sends"}, RowsAbove(cursor, t))
  BY DEF SyncCallsAndSends
<1>4. /\ RowsAbove(cursor, t) \subseteq (1..chain) \X (1..ChainHeight)
      /\ \A r \in RowsAbove(cursor, t) : r[1] = chain
  BY <1>2, AboveType
<1>5. {"calls", "bank_sends"} \in SUBSET (Tables \ {"transfer_edges"})
  BY DEF Tables
<1> HIDE DEF cursor
<1>6. /\ tableRows' \in [Tables -> SUBSET ((1..chain) \X (1..ChainHeight))]
      /\ orphans' \subseteq 1..chain
      /\ \A x \in Tables : tableRows[x] \subseteq tableRows'[x]
      /\ OrphanInv' /\ NoDeadRows' /\ EdgesHaveSends'
  BY <1>1, <1>3, <1>4, <1>5, StoreKeeps
<1>7. ChainTypeOK'
  BY <1>1, <1>2, <1>6 DEF ChainTypeOK, ChainSteps
<1>8. CheckInv'
  BY <1>1 DEF CheckInv
<1>9. QED
  BY <1>6, <1>7, <1>8 DEF IInv

\* The rollup takes rows of bank_sends, which are what the invariant says they are.
LEMMA SyncTransferEdgesStep ==
  ASSUME IInv, SyncTransferEdges
  PROVE  IInv' /\ \A t \in Tables : tableRows[t] \subseteq tableRows'[t]
<1>1. UNCHANGED <<chain, chainTip, chainSlow, chainFaults, fp, current, orphans>> /\ chainStep' = "idle"
  BY DEF SyncTransferEdges, chainEnv
<1>2. tableRows \in [Tables -> SUBSET ((1..chain) \X (1..ChainHeight))]
      /\ "transfer_edges" \in Tables /\ "bank_sends" \in Tables
  BY DEF IInv, ChainTypeOK, Tables
<1>3. /\ tableRows' \in [Tables -> SUBSET ((1..chain) \X (1..ChainHeight))]
      /\ \A t \in Tables \ {"transfer_edges"} : tableRows'[t] = tableRows[t]
      /\ tableRows["transfer_edges"] \subseteq tableRows'["transfer_edges"]
      /\ tableRows'["transfer_edges"] \subseteq
           tableRows["transfer_edges"] \union tableRows["bank_sends"]
  BY <1>2 DEF SyncTransferEdges
<1>4. tableRows'["transfer_edges"] \subseteq tableRows["bank_sends"]
  BY <1>3 DEF IInv, EdgesHaveSends
<1>5. ChainTypeOK'
  BY <1>1, <1>3 DEF IInv, ChainTypeOK, ChainSteps
<1>6. EdgesHaveSends'
  BY <1>2, <1>3, <1>4 DEF EdgesHaveSends
<1>7. \A t \in NetworkScopedTables : \A r \in tableRows'[t] :
        \E s \in NetworkScopedTables : r \in tableRows[s]
  BY <1>3, <1>4 DEF NetworkScopedTables, Tables
<1>8. OrphanInv' /\ NoDeadRows'
  BY <1>1, <1>7 DEF IInv, OrphanInv, NoDeadRows
<1>9. CheckInv'
  BY <1>1 DEF CheckInv
<1>10. QED
  BY <1>3, <1>5, <1>6, <1>8, <1>9 DEF IInv

LEMMA FaultStep ==
  ASSUME IInv, ChainCallFails \/ ChainRestart
  PROVE  IInv'
<1>1. UNCHANGED <<chain, chainTip, chainSlow, tableRows, fp, orphans>>
      /\ current' = 0 /\ chainStep' \in {"idle", "packages"}
      /\ chainFaults < MaxChainFaults /\ chainFaults' = chainFaults + 1
  BY DEF ChainCallFails, ChainRestart, chainEnv
<1>2. ChainTypeOK'
  BY <1>1, ChainResetAssumption DEF IInv, ChainTypeOK, ChainSteps
<1>3. CheckInv'
  BY <1>1 DEF CheckInv
<1>4. QED
  BY <1>1, <1>2, <1>3, RowsAlone DEF IInv

-----------------------------------------------------------------------------
LEMMA NextIInv ==
  ASSUME IInv, [ChainNext]_chainVars
  PROVE  IInv'
<1>1. CASE ChainGrow \/ ChainCatchUp \/ Reset   BY <1>1, EnvStep
<1>2. CASE ChainPass
  BY <1>2, FingerprintStep, CompareStep, WipeStep, RecordStep, SyncPackagesStep,
     SyncCallsStep, SyncTransferEdgesStep DEF ChainPass
<1>3. CASE ChainCallFails \/ ChainRestart       BY <1>3, FaultStep
<1>4. CASE UNCHANGED chainVars
  BY <1>4 DEF chainVars, chainEnv, IInv, ChainTypeOK, OrphanInv, CheckInv, NoDeadRows, EdgesHaveSends
<1>5. QED
  BY <1>1, <1>2, <1>3, <1>4 DEF ChainNext

LEMMA InvariantHolds == ChainSafety => []IInv
<1>1. ChainInit => IInv
  BY InitIInv
<1>2. IInv /\ [ChainNext]_chainVars => IInv'
  BY NextIInv
<1>3. QED
  BY <1>1, <1>2, PTL DEF ChainSafety

\* Variables stay in their types; a verdict of checkChainReset is never about
\* a block 1 that was not there.
THEOREM TypesHold == ChainSafety => []ChainTypeOK
<1>1. IInv => ChainTypeOK
  BY DEF IInv
<1>2. QED
  BY <1>1, InvariantHolds, PTL

\* Whatever crashes between the wipe and the record, and whenever the chain is
\* reset, no wiped table keeps a row of a chain before the one on record, except
\* rows that were stored before checkChainReset had a fingerprint to compare.
THEOREM NoDeadRowsSurvive == ChainSafety => []NoDeadRows
<1>1. IInv => NoDeadRows
  BY DEF IInv
<1>2. QED
  BY <1>1, InvariantHolds, PTL

\* syncTransferEdges and DeleteNetworkData together never leave an edge without
\* the transfer it was folded from.
THEOREM RollupHasItsTransfers == ChainSafety => []EdgesHaveSends
<1>1. IInv => EdgesHaveSends
  BY DEF IInv
<1>2. QED
  BY <1>1, InvariantHolds, PTL

\* checkChainReset deletes only when the chain on record is not the one served.
LEMMA LiveRowsStep ==
  ASSUME IInv, [ChainNext]_chainVars, fp = chain
  PROVE  \A t \in Tables : tableRows[t] \subseteq tableRows'[t]
<1>1. CASE Wipe
  BY <1>1 DEF IInv, ChainTypeOK, CheckInv, Wipe
<1>2. CASE SyncPackages \/ SyncCallsAndSends \/ SyncTransferEdges
  BY <1>2, SyncPackagesStep, SyncCallsStep, SyncTransferEdgesStep
<1>3. CASE \/ ChainGrow \/ ChainCatchUp \/ Reset \/ Fingerprint \/ Compare \/ Record
           \/ ChainCallFails \/ ChainRestart \/ UNCHANGED chainVars
  <2>1. tableRows' = tableRows
    BY <1>3 DEF ChainGrow, ChainCatchUp, Reset, Fingerprint, Compare, Record, ChainCallFails,
                ChainRestart, chainVars
  <2>2. QED
    BY <2>1
<1>4. QED
  BY <1>1, <1>2, <1>3 DEF ChainNext, ChainPass

\* While the chain on record is the one being served no row is ever deleted:
\* no lagging replica, missing block 1, failure or restart costs a live chain.
THEOREM LiveRowsAreKept == ChainSafety => KeepsLiveRows
<1>1. IInv /\ [ChainNext]_chainVars =>
        [fp = chain => \A t \in Tables : tableRows[t] \subseteq tableRows'[t]]_chainVars
  BY LiveRowsStep
<1>2. QED
  BY <1>1, InvariantHolds, PTL DEF ChainSafety, KeepsLiveRows
=============================================================================
