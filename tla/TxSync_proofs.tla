---------------------------- MODULE TxSync_proofs ----------------------------
(***************************************************************************)
(* Proofs about TxSync, for every chain, kinds of transactions, cap, lag,  *)
(* repair batch and number of faults.                                      *)
(***************************************************************************)
EXTENDS TxSync, OrderLemmas

\* Rows come from the chain, and what is folded has a row.
TablesInv ==
  /\ \A x \in rows : x[1] <= txTip
  /\ \A x \in Events : folded[x] > 0 => x \in rows

\* A page is in hand only while it is stored, at or below the walk's cursor, and
\* above every row that is folded.
PageInv ==
  /\ page # {} => txStep \in {"times", "store"}
  /\ \A x \in page : x[1] <= txCursor
  /\ \A x \in page, y \in rows : folded[y] > 0 => y[1] < x[1]

\* While the walk is under way its cursor is at or above every row, and it has
\* passed over nothing.
TxWalkInv ==
  txStep \in {"fetch", "times", "store"} =>
    /\ \A x \in rows : x[1] <= txCursor
    /\ \A x \in Events : x[1] <= txCursor => x \in rows \union page \union txLost

\* NoHoles, without its cursor.
HolesInv ==
  \A x \in Events, y \in rows : x[1] <= y[1] => x \in rows \union page \union txLost

\* EdgesComplete, without its cursor.
EdgesInv ==
  \A x \in rows \intersect Succeeded, y \in rows :
    Kind[y] = Kind[x] /\ folded[y] > 0 /\ 0 < x[1] /\ x[1] <= y[1] =>
      folded[x] = 1 \/ x \in late

TxInv ==
  TxTypeOK /\ TablesInv /\ PageInv /\ TxWalkInv /\ HolesInv /\ FoldedOnce /\ EdgesInv

-----------------------------------------------------------------------------
\* The heights and the kinds of events.
LEMMA RowsAreEvents ==
  /\ Events \subseteq Txs
  /\ Events \subseteq (0..TxHeight) \X Nat
  /\ \A x \in Txs : x[1] \in Nat /\ x[1] <= TxHeight
  /\ \A x \in Events : Kind[x] \in {"send", "call"}
BY TxSyncAssumption DEF Events

\* The cursor of the tables is at or above what has a row, and nothing else.
LEMMA RowCursorOf ==
  ASSUME TxTypeOK, TablesInv
  PROVE  /\ RowCursor \in NoCursor..txTip
         /\ \A y \in rows : y[1] <= RowCursor
         /\ \A x \in Events : x[1] <= RowCursor => \E y \in rows : x[1] <= y[1]
<1>1. rows \subseteq (0..txTip) \X Nat /\ txTip \in Nat
  BY RowsAreEvents, TxSyncAssumption DEF TxTypeOK, TablesInv
<1>2. CASE rows = {}
  BY <1>1, <1>2, RowsAreEvents DEF RowCursor, NoCursor
<1>3. CASE rows # {}
  <2>1. RowCursor = Max(HeightsOf(rows))
    BY <1>3 DEF RowCursor
  <2>2. RowCursor \in 0..txTip /\ \E y \in rows : y[1] = RowCursor
    BY <1>1, <1>3, <2>1, MaxOfHeights
  <2>3. \A y \in rows : y[1] <= RowCursor
    BY <1>1, <1>3, <2>1, MaxOfHeights
  <2> QED BY <1>1, <2>2, <2>3 DEF NoCursor
<1> QED BY <1>2, <1>3

\* The cursor of an edge table is the highest folded row of its kind.
LEMMA EdgeCursorOf ==
  ASSUME TxTypeOK, NEW k
  PROVE  /\ EdgeCursor(k) \in Nat
         /\ \A y \in rows : Kind[y] = k /\ folded[y] > 0 => y[1] <= EdgeCursor(k)
         /\ EdgeCursor(k) > 0 =>
              \E y \in rows : Kind[y] = k /\ folded[y] > 0 /\ y[1] = EdgeCursor(k)
<1> DEFINE H == {x[1] : x \in {y \in rows : Kind[y] = k /\ folded[y] > 0}}
           S == {0} \union H
<1>1. S \in SUBSET (0..TxHeight) /\ S # {} /\ TxHeight \in Nat
  BY RowsAreEvents, TxSyncAssumption DEF TxTypeOK
<1>2. EdgeCursor(k) = Max(S)
  BY DEF EdgeCursor
<1>3. EdgeCursor(k) \in S /\ \A h \in S : EdgeCursor(k) >= h
  BY <1>1, <1>2, MaxOfBounded
<1>4. EdgeCursor(k) \in Nat
  BY <1>1, <1>3
<1>5. ASSUME NEW y \in rows, Kind[y] = k, folded[y] > 0
      PROVE  y[1] <= EdgeCursor(k)
  <2>1. y[1] \in S
    BY <1>5
  <2> QED BY <1>1, <1>3, <1>4, <2>1
<1>6. EdgeCursor(k) > 0 => EdgeCursor(k) \in H
  BY <1>3
<1> QED BY <1>4, <1>5, <1>6

\* ---- What one query brings ----

Above(c, t) == {x \in Txs : c < x[1] /\ x[1] <= t}
Cut(c, t) == Cardinality(Above(c, t)) > ElementCap
Got(c, t) ==
  IF Cut(c, t) THEN DropTrailingHeight(FirstOf(ElementCap, Above(c, t))) ELSE Above(c, t)

\* A page is a stretch of the chain: whole blocks from the cursor up to its
\* last height, with nothing left out.
LEMMA PageIsWhole ==
  ASSUME NEW c \in Int, NEW t \in 0..TxHeight, Got(c, t) # {}
  PROVE  /\ Got(c, t) \subseteq Above(c, t)
         /\ Max(HeightsOf(Got(c, t))) \in 0..t
         /\ c < Max(HeightsOf(Got(c, t)))
         /\ \A x \in Got(c, t) : x[1] <= Max(HeightsOf(Got(c, t)))
         /\ \A x \in Above(c, t) : x[1] <= Max(HeightsOf(Got(c, t))) => x \in Got(c, t)
<1> DEFINE above == Above(c, t)
           first == FirstOf(ElementCap, above)
           got == Got(c, t)
           last == Max(HeightsOf(got))
<1>1. above \in SUBSET ((0..t) \X Nat) /\ above \in SUBSET (Nat \X Nat) /\ IsFiniteSet(above)
  <2>1. above \subseteq Txs
    BY DEF Above
  <2> QED BY <2>1, TxSyncAssumption, FS_Subset DEF Above
<1>2. t \in Nat /\ ElementCap \in Int
  BY TxSyncAssumption
<1>3. got \subseteq above /\ \A x \in above : x[1] <= last => x \in got
  <2>1. CASE ~ Cut(c, t)
    BY <2>1 DEF Got
  <2>2. CASE Cut(c, t)
    <3>1. got = DropTrailingHeight(first) /\ got # {}
      BY <2>2 DEF Got
    <3> HIDE DEF above, got
    <3> QED BY <1>1, <1>2, <3>1, CutIsWhole
  <2> QED BY <2>1, <2>2
<1>4. last \in 0..t /\ (\E y \in got : y[1] = last) /\ \A y \in got : y[1] <= last
  <2>1. got \in SUBSET ((0..t) \X Nat)
    BY <1>1, <1>3
  <2> QED BY <1>2, <2>1, MaxOfHeights
<1>5. c < last
  BY <1>3, <1>4 DEF Above
<1> QED BY <1>3, <1>4, <1>5

-----------------------------------------------------------------------------
\* The invariant holds of an empty database.
LEMMA TxInitInv ==
  ASSUME TxInit
  PROVE  TxInv
<1>1. TxTypeOK
  <2>1. more \in BOOLEAN
    BY DEF TxInit
  <2>2. folded \in [Events -> Nat]
    BY DEF TxInit
  <2> QED BY <2>1, <2>2, TxSyncAssumption DEF TxInit, TxTypeOK, TxSteps, NoCursor
<1>2. TablesInv /\ PageInv /\ TxWalkInv /\ HolesInv
  BY DEF TxInit, TablesInv, PageInv, TxWalkInv, HolesInv
<1>3. FoldedOnce /\ EdgesInv
  BY DEF TxInit, FoldedOnce, EdgesInv
<1> QED BY <1>1, <1>2, <1>3 DEF TxInv

\* What relates rows and edges alone survives a step that touches neither.
LEMMA TablesStay ==
  ASSUME TxInv, UNCHANGED <<rows, folded, late>>
  PROVE  FoldedOnce' /\ EdgesInv'
BY DEF TxInv, FoldedOnce, EdgesInv

LEMMA TxGrowStep ==
  ASSUME TxInv, TxGrow
  PROVE  TxInv'
<1> USE DEF TxInv, TxGrow, txDurable, txWalk, txHist
<1>1. txTip \in Nat /\ txTip' = txTip + 1
  BY TxSyncAssumption DEF TxTypeOK
<1>2. TxTypeOK'
  BY <1>1, TxSyncAssumption DEF TxTypeOK, NoCursor
<1>3. TablesInv'
  BY <1>1, RowsAreEvents DEF TablesInv, TxTypeOK
<1>4. PageInv' /\ TxWalkInv' /\ HolesInv'
  BY DEF PageInv, TxWalkInv, HolesInv
<1> QED BY <1>2, <1>3, <1>4, TablesStay

LEMMA TxCatchUpStep ==
  ASSUME TxInv, TxCatchUp
  PROVE  TxInv'
<1> USE DEF TxInv, TxCatchUp, txDurable, txWalk, txHist
<1>1. TxTypeOK'
  BY TxSyncAssumption DEF TxTypeOK, NoCursor
<1>2. TablesInv' /\ PageInv' /\ TxWalkInv' /\ HolesInv'
  BY DEF TablesInv, PageInv, TxWalkInv, HolesInv
<1> QED BY <1>1, <1>2, TablesStay

\* The pass begins: the walk starts at the highest row.
LEMMA PassBegins ==
  ASSUME TxInv, txStep = "idle", txStep' = "fetch", txCursor' = RowCursor,
         UNCHANGED <<txEnv, rows, folded, page, txHist>>
  PROVE  TablesInv' /\ PageInv' /\ TxWalkInv' /\ HolesInv' /\ FoldedOnce' /\ EdgesInv'
<1> USE DEF TxInv, txEnv, txHist
<1>1. page = {}
  BY DEF PageInv
<1>2. TablesInv' /\ PageInv' /\ HolesInv'
  BY <1>1 DEF TablesInv, PageInv, HolesInv
<1>3. TxWalkInv'
  BY <1>1, RowCursorOf DEF TxWalkInv, HolesInv
<1> QED BY <1>2, <1>3, TablesStay

LEMMA RepairStep ==
  ASSUME TxInv, Repair
  PROVE  TxInv'
<1> USE DEF TxInv, Repair, txEnv
<1>1. dated' \subseteq rows
  BY DEF Timed, TxTypeOK
<1>2. TxTypeOK'
  BY <1>1, RowCursorOf DEF TxTypeOK, TxSteps, txHist
<1> QED BY <1>2, PassBegins

LEMMA RepairFailsStep ==
  ASSUME TxInv, RepairFails
  PROVE  TxInv'
<1> USE DEF TxInv, RepairFails, txEnv, txDurable
<1>1. TxTypeOK'
  BY RowCursorOf, TxSyncAssumption DEF TxTypeOK, TxSteps, txHist
<1> QED BY <1>1, PassBegins

\* A page is asked for: what it brings lies above every row.
LEMMA FetchStep ==
  ASSUME TxInv, Fetch
  PROVE  TxInv'
<1> USE DEF TxInv, Fetch, txEnv, txDurable, txHist
<1>1. PICK t \in TxReplies :
        /\ page' = Got(txCursor, t)
        /\ more' = Cut(txCursor, t)
        /\ txStep' = IF page' # {} THEN "times"
                     ELSE IF Cut(txCursor, t) THEN "idle" ELSE "folding"
        /\ txCursor' = IF page' = {} THEN txCursor ELSE Max(HeightsOf(page'))
  BY DEF Got, Cut, Above
<1>2. page = {} /\ txStep = "fetch"
  BY DEF PageInv
<1>3. t \in 0..TxHeight /\ t <= txTip /\ txTip \in Nat /\ txCursor \in Int
  BY TxSyncAssumption DEF TxReplies, TxTypeOK, NoCursor
<1>4. /\ UNCHANGED <<txTip, txSlow, txFaults, rows, dated, folded, timed, txLost, late>>
      /\ more' \in BOOLEAN
  BY <1>1 DEF Cut
<1> HIDE DEF Fetch
<1>5. TablesInv'
  BY <1>4 DEF TablesInv
<1>6. CASE page' = {}
  <2>1. TxTypeOK'
    BY <1>1, <1>4, <1>6 DEF TxTypeOK, TxSteps
  <2>2. PageInv' /\ TxWalkInv' /\ HolesInv'
    BY <1>1, <1>2, <1>4, <1>6 DEF PageInv, TxWalkInv, HolesInv
  <2> QED BY <1>4, <1>5, <2>1, <2>2, TablesStay
<1>7. CASE page' # {}
  <2> DEFINE last == Max(HeightsOf(page'))
  <2>1. /\ page' \subseteq Above(txCursor, t)
        /\ last \in 0..t
        /\ txCursor < last
        /\ \A x \in page' : x[1] <= last
        /\ \A x \in Above(txCursor, t) : x[1] <= last => x \in page'
    BY <1>1, <1>3, <1>7, PageIsWhole
  <2>2. txCursor' = last /\ txStep' = "times"
    BY <1>1, <1>7
  <2> HIDE DEF last
  <2>3. TxTypeOK'
    BY <1>3, <1>4, <2>1, <2>2 DEF TxTypeOK, TxSteps, NoCursor, Above
  <2>4. \A y \in rows : y[1] <= txCursor
    BY <1>2 DEF TxWalkInv
  <2>5. /\ rows \subseteq Txs /\ \A x \in Txs : x[1] \in Nat
        /\ last \in Int
    BY <1>3, <2>1, RowsAreEvents DEF TxTypeOK
  <2>6. PageInv'
    <3>1. \A x \in page', y \in rows : y[1] < x[1]
      <4>1. TAKE x \in page', y \in rows
      <4>2. x \in Txs /\ txCursor < x[1]
        BY <2>1 DEF Above
      <4>3. y[1] <= txCursor /\ x[1] \in Nat /\ y[1] \in Nat
        BY <2>4, <2>5, <4>2
      <4> QED BY <1>3, <4>2, <4>3
    <3> QED BY <1>4, <2>1, <2>2, <3>1 DEF PageInv
  <2>7. \A x \in Events : x[1] <= last => x \in rows \union page' \union txLost
    <3>1. TAKE x \in Events
    <3>2. CASE x[1] <= txCursor
      BY <1>2, <3>2 DEF TxWalkInv
    <3>3. CASE ~ (x[1] <= txCursor)
      <4>1. x[1] <= last => x \in Above(txCursor, t)
        BY <1>3, <2>1, <3>3, RowsAreEvents DEF Above
      <4> QED BY <2>1, <4>1
    <3> QED BY <3>2, <3>3
  <2>8. TxWalkInv'
    <3>1. \A y \in rows : y[1] <= last
      BY <1>3, <2>1, <2>4, <2>5
    <3> QED BY <1>4, <2>2, <2>7, <3>1 DEF TxWalkInv
  <2>9. HolesInv'
    BY <1>2, <1>4 DEF HolesInv
  <2> QED BY <1>4, <1>5, <2>3, <2>6, <2>8, <2>9, TablesStay
<1> QED BY <1>6, <1>7

LEMMA FetchTimesStep ==
  ASSUME TxInv, FetchTimes \/ TimesFail
  PROVE  TxInv'
<1> USE DEF TxInv, txEnv, txDurable, txHist
<1>1. /\ txStep = "times" /\ txStep' = "store"
      /\ timed' \subseteq {h \in HeightsOf(page) : h > 0}
      /\ UNCHANGED <<txTip, txSlow, rows, dated, folded, txCursor, page, more, txLost, late>>
      /\ txFaults' \in 0..MaxTxFaults
  BY TxSyncAssumption DEF FetchTimes, TimesFail, TxTypeOK
<1>2. {h \in HeightsOf(page) : h > 0} \subseteq 1..TxHeight
  BY RowsAreEvents, TxSyncAssumption DEF HeightsOf, TxTypeOK
<1>3. TxTypeOK'
  BY <1>1, <1>2 DEF TxTypeOK, TxSteps
<1>4. TablesInv' /\ PageInv' /\ TxWalkInv' /\ HolesInv'
  BY <1>1 DEF TablesInv, PageInv, TxWalkInv, HolesInv
<1> QED BY <1>1, <1>3, <1>4, TablesStay
\* The next transaction of the page is one of it.
LEMMA NextOfPage ==
  ASSUME TxTypeOK, page # {}
  PROVE  Earliest(page) \in page
<1>1. page \in SUBSET (Nat \X Nat)
  BY RowsAreEvents, TxSyncAssumption DEF TxTypeOK
<1> QED BY <1>1, EarliestOf

\* A row is stored: it lies above every folded row, so no edge cursor passes it.
LEMMA StoreRowStep ==
  ASSUME TxInv, StoreRow
  PROVE  TxInv'
<1> USE DEF TxInv
<1> DEFINE x == Earliest(page)
<1>1. x \in page /\ x[1] <= txCursor
  BY NextOfPage DEF StoreRow, PageInv
<1>2. /\ page' = page \ {x}
      /\ rows' = IF x \in Events THEN rows \union {x} ELSE rows
      /\ dated' \subseteq rows'
      /\ UNCHANGED <<txTip, txSlow, txFaults, folded, txStep, txCursor, more, timed, txLost, late>>
  BY DEF StoreRow, txEnv, txHist, TxTypeOK
<1>3. txStep = "store"
  BY DEF StoreRow
<1> HIDE DEF x
<1>4. TxTypeOK'
  BY <1>2 DEF TxTypeOK
<1>5. TablesInv'
  <2>1. x[1] <= txTip
    BY <1>1, RowsAreEvents, TxSyncAssumption DEF TxTypeOK, NoCursor
  <2> QED BY <1>2, <2>1 DEF TablesInv
<1>6. \A y \in rows' : folded[y] > 0 => y \in rows
  BY <1>2 DEF TablesInv
<1>7. PageInv'
  BY <1>2, <1>3, <1>6 DEF PageInv
<1>8. TxWalkInv'
  BY <1>1, <1>2, <1>3 DEF TxWalkInv
<1>9. HolesInv'
  <2>1. \A y \in rows' : y[1] <= txCursor
    BY <1>1, <1>2, <1>3 DEF TxWalkInv
  <2>2. ASSUME NEW z \in Events, NEW y \in rows', z[1] <= y[1]
        PROVE  z \in rows' \union page' \union txLost'
    <3>1. z[1] \in Nat /\ y[1] \in Nat /\ txCursor \in Int /\ y[1] <= txCursor
      BY <1>2, <1>4, <2>1, RowsAreEvents, TxSyncAssumption DEF TxTypeOK, NoCursor
    <3>2. z \in rows \union page \union txLost
      BY <1>3, <2>2, <3>1 DEF TxWalkInv
    <3> QED BY <1>2, <3>2
  <2> QED BY <2>2 DEF HolesInv
<1>10. FoldedOnce'
  BY <1>2 DEF FoldedOnce
<1>11. EdgesInv'
  <2>1. ASSUME NEW z \in rows' \intersect Succeeded, NEW y \in rows',
               Kind[y] = Kind[z], folded[y] > 0, 0 < z[1], z[1] <= y[1]
        PROVE  folded[z] = 1 \/ z \in late
    <3>1. y \in rows
      BY <1>6, <2>1
    <3>2. z # x \/ x \in rows
      <4>1. y[1] < x[1]
        BY <1>1, <2>1, <3>1 DEF PageInv
      <4>2. y[1] \in Nat /\ x[1] \in Nat
        BY <1>1, <3>1, RowsAreEvents DEF TxTypeOK
      <4> QED BY <2>1, <4>1, <4>2
    <3>3. z \in rows
      BY <1>2, <3>2
    <3> QED BY <2>1, <3>1, <3>3 DEF EdgesInv
  <2> QED BY <1>2, <2>1 DEF EdgesInv
<1> QED BY <1>4, <1>5, <1>7, <1>8, <1>9, <1>10, <1>11

LEMMA PageDoneStep ==
  ASSUME TxInv, PageDone
  PROVE  TxInv'
<1> USE DEF TxInv
<1>1. /\ txStep = "store" /\ page = {} /\ txStep' \in {"fetch", "folding"} /\ timed' = {}
      /\ UNCHANGED <<txTip, txSlow, txFaults, rows, dated, folded, txCursor, page, more, txLost, late>>
  BY DEF PageDone, txEnv, txDurable, txHist
<1>2. TxTypeOK'
  BY <1>1 DEF TxTypeOK, TxSteps
<1>3. TablesInv' /\ PageInv' /\ TxWalkInv' /\ HolesInv'
  BY <1>1 DEF TablesInv, PageInv, TxWalkInv, HolesInv
<1> QED BY <1>1, <1>2, <1>3, TablesStay

\* A fold adds only what lies above the newest edge, which was not folded
\* before, and leaves out only what has no time.
LEMMA AddEdgesStep ==
  ASSUME TxInv, NEW kinds \in SUBSET {"send", "call"}, AddEdges(kinds),
         UNCHANGED <<rows, dated>>
  PROVE  /\ folded' \in [Events -> Nat] /\ late' \subseteq Events
         /\ \A x \in Events : folded'[x] > 0 => x \in rows
         /\ FoldedOnce' /\ EdgesInv'
<1> USE DEF TxInv
<1> DEFINE new == UNION {Unfolded(k) : k \in kinds}
<1>1. /\ folded' = [x \in Events |-> folded[x] + (IF x \in new \intersect dated THEN 1 ELSE 0)]
      /\ late' = late \union (new \ dated)
  BY DEF AddEdges
<1>2. rows \subseteq Events /\ late \subseteq Events /\ folded \in [Events -> Nat]
  BY DEF TxTypeOK
<1>3. \A x : x \in new <=>
        x \in rows /\ x \in Succeeded /\ Kind[x] \in kinds /\ x[1] > EdgeCursor(Kind[x])
  <2>1. TAKE x
  <2>2. x \in new <=> \E k \in kinds : x \in Unfolded(k)
    OBVIOUS
  <2>3. \A k : x \in Unfolded(k) <=>
               x \in rows /\ x \in Succeeded /\ Kind[x] = k /\ x[1] > EdgeCursor(k)
    BY DEF Unfolded
  <2> HIDE DEF new
  <2>4. CASE x \in new
    BY <2>2, <2>3, <2>4
  <2>5. CASE Kind[x] \in kinds
    BY <2>2, <2>3, <2>5
  <2> QED BY <2>2, <2>3, <2>4, <2>5
<1> HIDE DEF new
<1>4. folded' \in [Events -> Nat] /\ late' \subseteq Events
  <2>1. \A x \in Events : folded[x] + (IF x \in new \intersect dated THEN 1 ELSE 0) \in Nat
    BY <1>2
  <2>2. folded' \in [Events -> Nat]
    BY <1>1, <2>1
  <2> QED BY <1>1, <1>2, <1>3, <2>2
<1>5. \A x \in Events : folded'[x] = folded[x] + (IF x \in new \intersect dated THEN 1 ELSE 0)
  BY <1>1
<1>6. \A x \in Events : folded'[x] > 0 => x \in rows
  BY <1>2, <1>3, <1>5 DEF TablesInv
<1>7. ASSUME NEW x \in rows, folded[x] > 0
      PROVE  x[1] <= EdgeCursor(Kind[x])
  BY <1>7, EdgeCursorOf
<1>8. \A x \in new : folded[x] = 0
  <2>1. TAKE x \in new
  <2>2. x \in rows /\ x[1] > EdgeCursor(Kind[x]) /\ x[1] \in Nat /\ folded[x] \in Nat
    BY <1>2, <1>3, RowsAreEvents
  <2>3. EdgeCursor(Kind[x]) \in Nat
    BY EdgeCursorOf
  <2> QED BY <1>7, <2>2, <2>3
<1>9. FoldedOnce'
  BY <1>2, <1>5, <1>8 DEF FoldedOnce
<1>10. ASSUME NEW x \in rows \intersect Succeeded, NEW y \in rows,
              Kind[y] = Kind[x], folded'[y] > 0, 0 < x[1], x[1] <= y[1]
       PROVE  folded'[x] = 1 \/ x \in late'
  <2> DEFINE c == EdgeCursor(Kind[x])
  <2>1. c \in Nat /\ x[1] \in Nat /\ y[1] \in Nat /\ x \in Events /\ y \in Events
    BY <1>2, EdgeCursorOf, RowsAreEvents
  <2>2. CASE x[1] <= c
    <3>1. PICK z \in rows : Kind[z] = Kind[x] /\ folded[z] > 0 /\ z[1] = c
      BY <1>10, <2>1, <2>2, EdgeCursorOf
    <3>2. folded[x] = 1 \/ x \in late
      BY <1>10, <2>2, <3>1 DEF EdgesInv
    <3>3. x \notin new
      BY <1>3, <2>1, <2>2
    <3> QED BY <1>1, <1>5, <2>1, <3>2, <3>3
  <2>3. CASE x[1] > c
    <3>1. folded[y] = 0
      <4>1. folded[y] > 0 => y[1] <= c
        BY <1>7, <1>10
      <4> QED BY <1>2, <1>10, <2>1, <2>3, <4>1
    <3>2. y \in new
      BY <1>5, <1>10, <2>1, <3>1
    <3>3. x \in new
      BY <1>3, <1>10, <2>3, <3>2
    <3> QED BY <1>1, <1>5, <1>8, <2>1, <3>3
  <2> QED BY <2>1, <2>2, <2>3
<1>11. EdgesInv'
  BY <1>10 DEF EdgesInv
<1> QED BY <1>4, <1>6, <1>9, <1>11

LEMMA FoldStep ==
  ASSUME TxInv, Fold \/ FoldFails
  PROVE  TxInv'
<1> USE DEF TxInv
<1>1. PICK kinds \in SUBSET {"send", "call"} : AddEdges(kinds)
  BY DEF Fold, FoldFails
<1>2. /\ txStep = "folding" /\ txStep' = "idle"
      /\ UNCHANGED <<txTip, txSlow, rows, dated, txCursor, page, more, timed, txLost>>
      /\ txFaults' \in 0..MaxTxFaults
  BY TxSyncAssumption DEF Fold, FoldFails, txEnv, txWalk, TxTypeOK
<1>3. /\ folded' \in [Events -> Nat] /\ late' \subseteq Events
      /\ \A x \in Events : folded'[x] > 0 => x \in rows
      /\ FoldedOnce' /\ EdgesInv'
  BY <1>1, <1>2, AddEdgesStep
<1>4. TxTypeOK'
  BY <1>2, <1>3 DEF TxTypeOK, TxSteps
<1>5. page = {}
  BY <1>2 DEF PageInv
<1>6. TablesInv' /\ PageInv' /\ TxWalkInv' /\ HolesInv'
  BY <1>2, <1>3, <1>5 DEF TablesInv, PageInv, TxWalkInv, HolesInv
<1> QED BY <1>3, <1>4, <1>6

LEMMA FetchFailsStep ==
  ASSUME TxInv, FetchFails
  PROVE  TxInv'
<1> USE DEF TxInv, FetchFails, txEnv, txDurable, txWalk, txHist
<1>1. TxTypeOK'
  BY TxSyncAssumption DEF TxTypeOK, TxSteps
<1>2. TablesInv' /\ PageInv' /\ TxWalkInv' /\ HolesInv'
  BY DEF TablesInv, PageInv, TxWalkInv, HolesInv
<1> QED BY <1>1, <1>2, TablesStay

LEMMA StoreFailsStep ==
  ASSUME TxInv, StoreFails
  PROVE  TxInv'
<1> USE DEF TxInv
<1>1. /\ page' = page \ {Earliest(page)} /\ txLost' = txLost \union {Earliest(page)}
      /\ Earliest(page) \in Events /\ txStep = "store"
      /\ UNCHANGED <<txTip, txSlow, rows, dated, folded, txStep, txCursor, more, timed, late>>
      /\ txFaults' \in 0..MaxTxFaults
  BY TxSyncAssumption DEF StoreFails, txEnv, txDurable, TxTypeOK
<1>2. TxTypeOK'
  BY <1>1 DEF TxTypeOK
<1>3. TablesInv' /\ PageInv' /\ TxWalkInv' /\ HolesInv'
  BY <1>1 DEF TablesInv, PageInv, TxWalkInv, HolesInv
<1> QED BY <1>1, <1>2, <1>3, TablesStay

\* What a restart loses of its page at or below the highest row is on record.
LEMMA TxRestartStep ==
  ASSUME TxInv, TxRestart
  PROVE  TxInv'
<1> USE DEF TxInv
<1>1. /\ txStep' = "idle" /\ txCursor' = NoCursor /\ page' = {} /\ more' = FALSE /\ timed' = {}
      /\ txLost' = txLost \union {x \in page \intersect Events : x[1] <= RowCursor}
      /\ UNCHANGED <<txTip, txSlow, rows, dated, folded, late>>
      /\ txFaults' \in 0..MaxTxFaults
  BY TxSyncAssumption DEF TxRestart, txEnv, txDurable, TxTypeOK
<1>2. TxTypeOK'
  <2>1. more' \in BOOLEAN
    BY <1>1
  <2> QED BY <1>1, <2>1, TxSyncAssumption DEF TxTypeOK, TxSteps, NoCursor
<1>3. TablesInv' /\ PageInv' /\ TxWalkInv'
  BY <1>1 DEF TablesInv, PageInv, TxWalkInv
<1>4. HolesInv'
  <2>1. ASSUME NEW x \in Events, NEW y \in rows, x[1] <= y[1]
        PROVE  x \in rows \union txLost'
    <3>1. y[1] <= RowCursor /\ RowCursor \in Int
      BY RowCursorOf, TxSyncAssumption DEF NoCursor, TxTypeOK
    <3>2. x[1] \in Nat /\ y[1] \in Nat
      BY RowsAreEvents DEF TxTypeOK
    <3>3. x[1] <= RowCursor
      BY <2>1, <3>1, <3>2
    <3>4. x \in rows \union page \union txLost
      BY <2>1 DEF HolesInv
    <3> QED BY <1>1, <3>3, <3>4
  <2> QED BY <1>1, <2>1 DEF HolesInv
<1> QED BY <1>1, <1>2, <1>3, <1>4, TablesStay

-----------------------------------------------------------------------------
LEMMA TxInvKept ==
  ASSUME TxInv, [TxNext]_txVars
  PROVE  TxInv'
<1>1. CASE TxNext
  BY <1>1, TxGrowStep, TxCatchUpStep, RepairStep, RepairFailsStep, FetchStep,
     FetchTimesStep, StoreRowStep, PageDoneStep, FoldStep, FetchFailsStep,
     StoreFailsStep, TxRestartStep
     DEF TxNext, TxPass, TxFault
<1>2. CASE UNCHANGED txVars
  <2>1. TxTypeOK'
    BY <1>2 DEF TxInv, txVars, txEnv, txDurable, txWalk, txHist, TxTypeOK
  <2>2. TablesInv' /\ PageInv' /\ TxWalkInv' /\ HolesInv'
    BY <1>2 DEF TxInv, txVars, txEnv, txDurable, txWalk, txHist,
                TablesInv, PageInv, TxWalkInv, HolesInv
  <2>3. UNCHANGED <<rows, folded, late>>
    BY <1>2 DEF txVars, txDurable, txHist
  <2> QED BY <2>1, <2>2, <2>3, TablesStay DEF TxInv
<1> QED BY <1>1, <1>2

\* The invariant holds of every reachable state: the walk and its rollups as a
\* whole, from which the theorems below are read off.
THEOREM TxInvHolds == TxSafety => []TxInv
<1>1. TxInit => TxInv
  BY TxInitInv
<1>2. TxInv /\ [TxNext]_txVars => TxInv'
  BY TxInvKept
<1> QED BY <1>1, <1>2, PTL DEF TxSafety

\* The types of the transaction walk, among them that only transactions with a
\* call or a send leave rows and that no cursor is above the chain.
THEOREM TxTypes == TxSafety => []TxTypeOK
<1>1. TxInv => TxTypeOK
  BY DEF TxInv
<1> QED BY <1>1, TxInvHolds, PTL

\* walkTransactions and dropTrailingHeight skip nothing: an event at or below
\* the cursor of the tables is stored, in the page in hand, or known lost.
THEOREM WalkHasNoHoles == TxSafety => []NoHoles
<1>1. TxInv => NoHoles
  <2>1. SUFFICES ASSUME TxInv, NEW x \in Events, x[1] <= RowCursor
                 PROVE  x \in rows \union page \union txLost
    BY DEF NoHoles
  <2>2. PICK y \in rows : x[1] <= y[1]
    BY <2>1, RowCursorOf DEF TxInv
  <2> QED BY <2>1, <2>2 DEF TxInv, HolesInv
<1> QED BY <1>1, TxInvHolds, PTL

\* UpsertTransferEdges and UpsertCallerEdges count no row twice, over any number
\* of passes, failed folds and restarts.
THEOREM NothingFoldedTwice == TxSafety => []FoldedOnce
<1>1. TxInv => FoldedOnce
  BY DEF TxInv
<1> QED BY <1>1, TxInvHolds, PTL

\* The rollups miss nothing below their newest edge but the rows a fold has met
\* without a time.
THEOREM RollupMissesNothing == TxSafety => []EdgesComplete
<1>1. TxInv => EdgesComplete
  <2>1. SUFFICES ASSUME TxInv, NEW x \in rows \intersect Succeeded,
                        x[1] <= EdgeCursor(Kind[x]), x[1] > 0
                 PROVE  folded[x] = 1 \/ x \in late
    BY DEF EdgesComplete
  <2>2. x[1] \in Nat /\ EdgeCursor(Kind[x]) \in Nat
    BY <2>1, EdgeCursorOf, RowsAreEvents DEF TxInv, TxTypeOK
  <2>3. PICK y \in rows : Kind[y] = Kind[x] /\ folded[y] > 0 /\ y[1] = EdgeCursor(Kind[x])
    BY <2>1, <2>2, EdgeCursorOf DEF TxInv
  <2> QED BY <2>1, <2>2, <2>3 DEF TxInv, EdgesInv
<1> QED BY <1>1, TxInvHolds, PTL
=============================================================================
