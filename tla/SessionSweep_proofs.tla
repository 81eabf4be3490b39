------------------------- MODULE SessionSweep_proofs -------------------------
(***************************************************************************)
(* Proofs about SessionSweep, for every chain of grants and revocations,   *)
(* every batch, row limit and lag, and every number of faults.             *)
(***************************************************************************)
EXTENDS SessionSweep, OrderLemmas

Plain == {x \in SessionTxs : What[x] = "plain"}

\* What is left to record comes from the chain, and is nothing once the batch
\* has been recorded.
AnsweredInv ==
  /\ answered \in Seq(SessionTxs \X Shapes)
  /\ noted \subseteq Plain
  /\ step \in {"memos", "cursor"} => answered = <<>>

\* The ranges still to ask for lie below the floor, one right below the other,
\* and there are no more of them than blocks in the batch.
LeftInv ==
  /\ upTo \in Nat
  /\ step # "query" => left = <<>>
  /\ step = "query" =>
       /\ left \in Seq(Nat \X Nat) /\ left # <<>>
       /\ left[1][2] = floor
       /\ \A i \in 1..Len(left) :
            /\ 0 < left[i][1] /\ left[i][1] < left[i][2]
            /\ left[i][1] >= upTo - SweepBatch + (Len(left) - i)
       /\ \A i \in 1..(Len(left) - 1) : left[i][1] = left[i + 1][2]

\* A grant with its row, or known to be without.
Kept(x) == GrantOf(x) \in DOMAIN grants \/ x[1] \in unseen \/ x \in unwritten

ToRecord(x) == \E i \in 1..Len(answered) : answered[i][1] = x

\* While a batch is under way, what lies between its floor and the boundary has
\* its row or is about to get it.
BatchInv ==
  step \in {"query", "record", "memos", "cursor"} =>
    /\ upTo <= pinned + 1
    /\ \A x \in SessionTxs : What[x] = "create" /\ floor <= x[1] /\ x[1] <= pinned =>
         Kept(x) \/ ToRecord(x)

SessionInv ==
  SessionTypeOK /\ AnsweredInv /\ LeftInv /\ BatchInv /\ SweepHonest /\ RevokedRightly

-----------------------------------------------------------------------------
\* What one transaction does to the grants: none is dropped, a revocation that is
\* recorded stays, and what is new is a grant of this transaction or a grant that
\* this transaction revokes and is not older than.
LEMMA MessageKeeps ==
  ASSUME NEW g, NEW x \in SessionTxs, NEW shape
  PROVE  /\ DOMAIN g \subseteq DOMAIN AfterMessage(g, x, shape)
         /\ \A r \in DOMAIN g : g[r] # 0 => AfterMessage(g, x, shape)[r] = g[r]
         /\ \A r \in DOMAIN AfterMessage(g, x, shape) :
              \/ r \in DOMAIN g /\ AfterMessage(g, x, shape)[r] = g[r]
              \/ r = GrantOf(x) /\ AfterMessage(g, x, shape)[r] = 0
              \/ /\ r \in DOMAIN g /\ AfterMessage(g, x, shape)[r] = x[1]
                 /\ x \in Revocations /\ r[2] <= x[1] /\ Names(x, r[1])
         /\ What[x] = "create" => GrantOf(x) \in DOMAIN AfterMessage(g, x, shape)
<1> DEFINE h == AfterMessage(g, x, shape)
           new == GrantOf(x)
<1>1. What[x] \in {"create", "revoke", "revoke_all", "plain"}
  BY SessionAssumption
<1>2. CASE What[x] = "create"
  <2>1. h = Granted(g, x)
    BY <1>2 DEF AfterMessage
  <2>2. /\ DOMAIN h = DOMAIN g \union {new}
        /\ \A r \in DOMAIN h : h[r] = IF r \in DOMAIN g THEN g[r] ELSE 0
    BY <2>1 DEF Granted
  <2> QED BY <2>2
<1>3. CASE What[x] \in {"revoke", "revoke_all"} /\ h # g
  <2> DEFINE o == OpenAt(g, x)
  <2>1. h = [r \in DOMAIN g |-> IF r \in o THEN x[1] ELSE g[r]]
    BY <1>3 DEF AfterMessage, Revoked
  <2>2. /\ o \subseteq DOMAIN g
        /\ \A r \in o : g[r] = 0 /\ r[2] <= x[1] /\ Names(x, r[1])
    BY <1>3 DEF OpenAt, Names
  <2> HIDE DEF o
  <2>3. /\ DOMAIN h = DOMAIN g
        /\ \A r \in DOMAIN h : h[r] = IF r \in o THEN x[1] ELSE g[r]
    BY <2>1
  <2>4. x \in Revocations
    BY <1>3 DEF Revocations
  <2> QED BY <1>3, <2>2, <2>3, <2>4
<1>4. CASE What[x] # "create" /\ h = g
  BY <1>4
<1>5. What[x] = "plain" => h = g
  BY DEF AfterMessage
<1> QED BY <1>1, <1>2, <1>3, <1>4, <1>5

\* What one transaction of the answers does to the tables of sessions.
LEMMA RecordFirstFacts ==
  ASSUME SessionTypeOK, RevokedRightly, AnsweredInv, answered # <<>>, RecordFirst
  PROVE  /\ answered[1] \in SessionTxs \X Shapes
         /\ answered' = Tail(answered) /\ answered' \in Seq(SessionTxs \X Shapes)
         /\ DOMAIN grants \subseteq DOMAIN grants'
         /\ DOMAIN grants' \subseteq (DOMAIN MasterOf) \X (1..SweepHeight)
         /\ \A r \in DOMAIN grants' : grants'[r] \in 0..SweepHeight
         /\ signed' \subseteq Plain
         /\ RevokedRightly'
         /\ What[answered[1][1]] = "create" =>
              GrantOf(answered[1][1]) \in DOMAIN grants'
<1> DEFINE x == answered[1][1]
           shape == answered[1][2]
<1>1. answered[1] \in SessionTxs \X Shapes /\ Tail(answered) \in Seq(SessionTxs \X Shapes)
  BY DEF AnsweredInv
<1>2. /\ grants' = AfterMessage(grants, x, shape)
      /\ signed' = signed \union SignedBy(x, shape)
      /\ answered' = Tail(answered)
  BY DEF RecordFirst
<1>3. x \in SessionTxs /\ x[1] \in 1..SweepHeight /\ KeyOf[x] \in DOMAIN MasterOf
  BY <1>1, SessionAssumption
<1> HIDE DEF x, shape
<1>4. /\ DOMAIN grants \subseteq DOMAIN grants'
      /\ \A r \in DOMAIN grants' :
           \/ r \in DOMAIN grants /\ grants'[r] = grants[r]
           \/ r = GrantOf(x) /\ grants'[r] = 0
           \/ /\ r \in DOMAIN grants /\ grants'[r] = x[1]
              /\ x \in Revocations /\ r[2] <= x[1] /\ Names(x, r[1])
      /\ What[x] = "create" => GrantOf(x) \in DOMAIN grants'
  BY <1>2, <1>3, MessageKeeps
<1>5. DOMAIN grants' \subseteq (DOMAIN MasterOf) \X (1..SweepHeight)
  <2>1. GrantOf(x) \in (DOMAIN MasterOf) \X (1..SweepHeight)
    BY <1>3 DEF GrantOf
  <2> QED BY <1>4, <2>1 DEF SessionTypeOK
<1>6. \A r \in DOMAIN grants' : grants'[r] \in 0..SweepHeight
  <2>1. 0 \in 0..SweepHeight /\ x[1] \in 0..SweepHeight
    BY <1>3, SessionAssumption
  <2>2. \A r \in DOMAIN grants : grants[r] \in 0..SweepHeight
    BY DEF SessionTypeOK
  <2> QED BY <1>4, <2>1, <2>2
<1>7. signed' \subseteq Plain
  BY <1>2, <1>3 DEF SignedBy, PlainOf, Plain, SessionTypeOK
<1>8. RevokedRightly'
  <2>1. ASSUME NEW r \in DOMAIN grants', grants'[r] # 0
        PROVE  \E y \in Revocations : y[1] = grants'[r] /\ y[1] >= r[2] /\ Names(y, r[1])
    <3>1. CASE r \in DOMAIN grants /\ grants'[r] = grants[r]
      BY <2>1, <3>1 DEF RevokedRightly
    <3>2. CASE grants'[r] = x[1] /\ x \in Revocations /\ r[2] <= x[1] /\ Names(x, r[1])
      BY <3>2
    <3> QED BY <1>4, <2>1, <3>1, <3>2
  <2> QED BY <2>1 DEF RevokedRightly
<1> QED BY <1>1, <1>2, <1>4, <1>5, <1>6, <1>7, <1>8 DEF x
\* What has its row keeps it, and the cursor may then stay where it is.
LEMMA KeptStays ==
  ASSUME DOMAIN grants \subseteq DOMAIN grants', unseen \subseteq unseen',
         unwritten \subseteq unwritten'
  PROVE  /\ \A x \in SessionTxs : Kept(x) => Kept(x)'
         /\ SweepHonest /\ UNCHANGED <<pinned, swept>> => SweepHonest'
<1>1. \A x \in SessionTxs : Kept(x) => Kept(x)'
  BY DEF Kept
<1>2. SweepHonest /\ UNCHANGED <<pinned, swept>> => SweepHonest'
  BY <1>1 DEF SweepHonest, Kept
<1> QED BY <1>1, <1>2

LEMMA SessionInitInv ==
  ASSUME SessionInit
  PROVE  SessionInv
<1> USE DEF SessionInit
<1>1. SessionTypeOK
  <2>1. callRows \subseteq Plain
    BY DEF Plain
  <2>2. DOMAIN grants = {} /\ Len(left) = 0
    OBVIOUS
  <2>3. blocks[1] = 0 /\ blocks[2] = 0 /\ Highest = 0
    BY DEF Highest
  <2> QED BY <2>1, <2>2, <2>3, SessionAssumption DEF SessionTypeOK, SweepSteps, Plain
<1>2. AnsweredInv /\ LeftInv /\ BatchInv
  BY DEF AnsweredInv, LeftInv, BatchInv
<1>3. SweepHonest /\ RevokedRightly
  BY DEF SweepHonest, RevokedRightly
<1> QED BY <1>1, <1>2, <1>3 DEF SessionInv

LEMMA SweepChainStep ==
  ASSUME SessionInv, SweepGrow \/ SweepCatchUp
  PROVE  SessionInv'
<1> USE DEF SessionInv, tables, sweepMarks, sweepPass, sweepHist
<1>1. /\ top' \in 0..SweepHeight /\ top <= top' /\ behind' \in 0..top'
      /\ UNCHANGED <<sweepFaults, blocks, grants, signed, memos, callRows, pinned, swept, step,
                     left, upTo, floor, answered, noted, unseen, unwritten>>
  BY SessionAssumption DEF SweepGrow, SweepCatchUp, SessionTypeOK
<1>2. SessionTypeOK'
  BY <1>1, SessionAssumption DEF SessionTypeOK, Highest
<1>3. AnsweredInv' /\ LeftInv'
  BY <1>1 DEF AnsweredInv, LeftInv
<1>4. BatchInv'
  BY <1>1 DEF BatchInv, Kept, ToRecord
<1>5. RevokedRightly'
  BY <1>1 DEF RevokedRightly
<1> QED BY <1>1, <1>2, <1>3, <1>4, <1>5, KeptStays

LEMMA SweepBlocksStep ==
  ASSUME SessionInv, SweepBlocks
  PROVE  SessionInv'
<1> USE DEF SessionInv
<1>1. /\ step = "blocks" /\ step' = "pin"
      /\ UNCHANGED <<top, behind, grants, signed, memos, callRows, pinned, swept,
                     left, upTo, floor, answered, noted, unseen, unwritten>>
  BY DEF SweepBlocks, sweepEnv, tables, sweepMarks, sweepPass, sweepHist
<1>2. /\ blocks'[2] \in 0..top /\ blocks'[1] \in 0..blocks'[2]
      /\ Highest <= Highest' /\ Highest' \in Nat
  <2>1. CASE UNCHANGED blocks
    BY <2>1, SessionAssumption DEF SessionTypeOK, Highest
  <2>2. CASE blocks' # blocks
    <3>1. PICK t \in behind..top, lo \in Nat :
            /\ t >= Highest /\ t > 0 /\ blocks' = <<lo, t>>
            /\ lo \in IF Lowest = 0 THEN 1..t ELSE 1..Lowest
      BY <2>2 DEF SweepBlocks
    <3>2. blocks'[1] = lo /\ blocks'[2] = t
      BY <3>1
    <3> QED BY <3>1, <3>2, SessionAssumption DEF SessionTypeOK, Highest, Lowest
  <2> QED BY <2>1, <2>2
<1>3. SessionTypeOK'
  BY <1>1, <1>2, SessionAssumption DEF SessionTypeOK, SweepSteps, Highest
<1>4. AnsweredInv' /\ LeftInv' /\ BatchInv'
  BY <1>1 DEF AnsweredInv, LeftInv, BatchInv
<1>5. RevokedRightly'
  BY <1>1 DEF RevokedRightly
<1> QED BY <1>1, <1>3, <1>4, <1>5, KeptStays

LEMMA PinStopStep ==
  ASSUME SessionInv, PinStop
  PROVE  SessionInv'
<1> USE DEF SessionInv
<1>1. /\ step = "pin" /\ step' = "range"
      /\ pinned' = IF pinned = 0 THEN Highest ELSE pinned
      /\ UNCHANGED <<top, behind, blocks, grants, signed, memos, callRows, swept,
                     left, upTo, floor, answered, noted, unseen, unwritten>>
  BY DEF PinStop, sweepEnv, tables, sweepPass, sweepHist
<1>2. Highest \in Nat /\ Highest' = Highest /\ (pinned = 0 => swept = 0)
  BY <1>1, SessionAssumption DEF SessionTypeOK, Highest
<1>3. SessionTypeOK'
  BY <1>1, <1>2 DEF SessionTypeOK, SweepSteps
<1>4. AnsweredInv' /\ LeftInv' /\ BatchInv'
  BY <1>1 DEF AnsweredInv, LeftInv, BatchInv
<1>5. SweepHonest' /\ RevokedRightly'
  BY <1>1, <1>2 DEF SweepHonest, RevokedRightly
<1> QED BY <1>3, <1>4, <1>5

\* A batch begins right below the cursor, or below the boundary.
LEMMA NextRangeStep ==
  ASSUME SessionInv, NextRange
  PROVE  SessionInv'
<1> USE DEF SessionInv
<1> DEFINE a == IF SweepTo - SweepBatch < Lowest THEN Lowest ELSE SweepTo - SweepBatch
<1>1. /\ step = "range"
      /\ UNCHANGED <<top, behind, blocks, grants, signed, memos, callRows, pinned, swept,
                     answered, noted, unseen, unwritten>>
  BY DEF NextRange, sweepEnv, tables, sweepMarks, sweepHist
<1>2. pinned \in Nat /\ swept \in Nat /\ swept <= pinned /\ Lowest \in Nat /\ SweepBatch \in Nat \ {0}
  BY SessionAssumption DEF SessionTypeOK, Highest, Lowest
<1>3. RevokedRightly' /\ SweepHonest'
  BY <1>1, KeptStays DEF RevokedRightly
<1>4. AnsweredInv' /\ Highest' = Highest
  BY <1>1 DEF AnsweredInv, NextRange, Highest
<1>5. CASE ~ SweepLeft
  <2>1. step' = "live" /\ UNCHANGED <<left, upTo, floor>>
    BY <1>5 DEF NextRange
  <2>2. SessionTypeOK'
    BY <1>1, <1>4, <2>1 DEF SessionTypeOK, SweepSteps
  <2>3. LeftInv' /\ BatchInv'
    BY <1>1, <2>1 DEF LeftInv, BatchInv
  <2> QED BY <1>3, <1>4, <2>2, <2>3
<1>6. CASE SweepLeft
  <2>1. left' = <<<<a, SweepTo>>>> /\ upTo' = SweepTo /\ floor' = SweepTo /\ step' = "query"
    BY <1>6 DEF NextRange
  <2>2. /\ SweepTo \in Nat /\ SweepTo <= pinned + 1
        /\ swept > 0 => SweepTo = swept
        /\ swept = 0 => SweepTo = pinned + 1
    BY <1>2 DEF SweepTo
  <2>3. a \in Nat /\ 0 < a /\ a < SweepTo /\ a >= SweepTo - SweepBatch
    BY <1>2, <1>6, <2>2 DEF SweepLeft
  <2> HIDE DEF a
  <2>4. left' \in Seq(Nat \X Nat) /\ left' # <<>> /\ Len(left') = 1
        /\ left'[1] = <<a, SweepTo>>
    BY <2>1, <2>2, <2>3
  <2>5. LeftInv'
    BY <1>2, <2>1, <2>2, <2>3, <2>4 DEF LeftInv
  <2>6. SessionTypeOK'
    BY <1>1, <1>2, <1>4, <2>1, <2>2, <2>4 DEF SessionTypeOK, SweepSteps
  <2>7. BatchInv'
    <3>1. ASSUME NEW x \in SessionTxs, What[x] = "create", SweepTo <= x[1], x[1] <= pinned
          PROVE  Kept(x)
      <4>1. x[1] \in Nat
        BY SessionAssumption
      <4>2. swept > 0 /\ swept <= x[1]
        BY <1>2, <2>2, <3>1, <4>1
      <4> QED BY <3>1, <4>2 DEF SweepHonest, Kept
    <3>2. \A x \in SessionTxs : Kept(x) => Kept(x)'
      BY <1>1, KeptStays
    <3> QED BY <1>1, <2>1, <2>2, <3>1, <3>2 DEF BatchInv
  <2> QED BY <1>3, <1>4, <2>5, <2>6, <2>7
<1> QED BY <1>5, <1>6

-----------------------------------------------------------------------------
\* The elements of the rest of a sequence, and of two sequences put together.
LEMMA TailAt ==
  ASSUME NEW S, NEW s \in Seq(S), s # <<>>
  PROVE  /\ Tail(s) \in Seq(S) /\ Len(Tail(s)) = Len(s) - 1 /\ Len(s) \in Nat /\ Len(s) > 0
         /\ \A i \in 1..(Len(s) - 1) : Tail(s)[i] = s[i + 1]
OBVIOUS

LEMMA ConcatAt ==
  ASSUME NEW S, NEW s \in Seq(S), NEW t \in Seq(S)
  PROVE  /\ s \o t \in Seq(S) /\ Len(s \o t) = Len(s) + Len(t)
         /\ Len(s) \in Nat /\ Len(t) \in Nat
         /\ \A i \in 1..Len(s) : (s \o t)[i] = s[i]
         /\ \A i \in 1..Len(t) : (s \o t)[Len(s) + i] = t[i]
<1>1. Len(s) \in Nat /\ Len(t) \in Nat /\ s \o t \in Seq(S) /\ Len(s \o t) = Len(s) + Len(t)
  OBVIOUS
<1>2. \A i \in 1..(Len(s) + Len(t)) :
        (s \o t)[i] = IF i <= Len(s) THEN s[i] ELSE t[i - Len(s)]
  OBVIOUS
<1>3. ASSUME NEW i \in 1..Len(t)
      PROVE  (s \o t)[Len(s) + i] = t[i]
  <2>1. Len(s) + i \in 1..(Len(s) + Len(t)) /\ ~ (Len(s) + i <= Len(s))
        /\ (Len(s) + i) - Len(s) = i
    BY <1>1
  <2> QED BY <1>2, <2>1
<1> QED BY <1>1, <1>2, <1>3

\* The head of a sequence replaced by two.
LEMMA HeadSplit ==
  ASSUME NEW S, NEW s \in Seq(S), s # <<>>, NEW p \in S, NEW q \in S
  PROVE  /\ <<p, q>> \o Tail(s) \in Seq(S) /\ <<p, q>> \o Tail(s) # <<>>
         /\ Len(<<p, q>> \o Tail(s)) = Len(s) + 1
         /\ (<<p, q>> \o Tail(s))[1] = p /\ (<<p, q>> \o Tail(s))[2] = q
         /\ \A i \in 3..(Len(s) + 1) : (<<p, q>> \o Tail(s))[i] = s[i - 1]
<1> DEFINE r == Tail(s)
           n == <<p, q>> \o r
<1>1. r \in Seq(S) /\ Len(r) = Len(s) - 1 /\ Len(s) \in Nat /\ Len(s) > 0
      /\ \A i \in 1..Len(r) : r[i] = s[i + 1]
  OBVIOUS
<1>2. <<p, q>> \in Seq(S) /\ Len(<<p, q>>) = 2
  OBVIOUS
<1> HIDE DEF r
<1>3. n \in Seq(S) /\ Len(n) = Len(s) + 1
  BY <1>1, <1>2
<1>4. n[1] = p /\ n[2] = q
  BY <1>1, <1>2
<1>5. \A i \in 3..(Len(s) + 1) : n[i] = s[i - 1]
  <2>1. TAKE i \in 3..(Len(s) + 1)
  <2>2. n[i] = r[i - 2]
    BY <1>1, <1>2
  <2>3. i - 2 \in 1..Len(r) /\ (i - 2) + 1 = i - 1
    BY <1>1
  <2> QED BY <1>1, <2>2, <2>3
<1>6. n # <<>>
  BY <1>1, <1>3
<1> QED BY <1>3, <1>4, <1>5, <1>6 DEF r

\* An answer in chain order, in one shape, lists what was found.
LEMMA ShapedPage ==
  ASSUME NEW found \in SUBSET SessionTxs, NEW shape \in Shapes
  PROVE  /\ Shaped(InOrder(found), shape) \in Seq(SessionTxs \X Shapes)
         /\ \A x \in found : \E i \in 1..Len(Shaped(InOrder(found), shape)) :
              Shaped(InOrder(found), shape)[i] = <<x, shape>>
<1> DEFINE page == InOrder(found)
           more == Shaped(page, shape)
<1>1. found \in SUBSET (Nat \X Nat) /\ IsFiniteSet(found)
  BY SessionAssumption, FS_Subset
<1>2. page \in Seq(found) /\ \A x \in found : \E i \in 1..Len(page) : page[i] = x
  BY <1>1, InOrderOf
<1> HIDE DEF page
<1>3. DOMAIN page = 1..Len(page) /\ Len(page) \in Nat /\ \A i \in 1..Len(page) : page[i] \in found
  BY <1>2
<1>4. more = [i \in 1..Len(page) |-> <<page[i], shape>>]
  BY <1>3 DEF Shaped
<1>5. \A i \in 1..Len(page) : <<page[i], shape>> \in SessionTxs \X Shapes
  BY <1>3
<1>6. /\ more \in Seq(SessionTxs \X Shapes) /\ Len(more) = Len(page)
      /\ \A i \in 1..Len(page) : more[i] = <<page[i], shape>>
  <2> HIDE DEF more
  <2> QED BY <1>3, <1>4, <1>5
<1> HIDE DEF more
<1> QED BY <1>2, <1>6 DEF more, page

\* One range of the batch is asked for.  Where it is answered the floor comes down
\* to its start, and everything the replica has of it is about to be recorded.
LEMMA QueryRangeStep ==
  ASSUME SessionInv, QueryRange
  PROVE  SessionInv'
<1> USE DEF SessionInv
<1> DEFINE a == left[1][1]
           b == left[1][2]
<1>1. /\ step = "query" /\ step' = IF left' = <<>> THEN "record" ELSE "query"
      /\ UNCHANGED <<top, behind, blocks, grants, signed, memos, callRows, pinned, swept, upTo,
                     unwritten>>
  BY DEF QueryRange, sweepEnv, tables, sweepMarks
<1>2. /\ left \in Seq(Nat \X Nat) /\ left # <<>> /\ b = floor /\ Len(left) \in Nat /\ Len(left) > 0
      /\ \A i \in 1..Len(left) :
           /\ 0 < left[i][1] /\ left[i][1] < left[i][2]
           /\ left[i][1] >= upTo - SweepBatch + (Len(left) - i)
           /\ left[i][1] \in Nat /\ left[i][2] \in Nat
      /\ \A i \in 1..(Len(left) - 1) : left[i][1] = left[i + 1][2]
  BY <1>1 DEF LeftInv
<1>3. /\ a \in Nat /\ b \in Nat /\ 0 < a /\ a < b /\ b = floor /\ upTo \in Nat /\ floor <= upTo
      /\ SweepBatch \in Nat /\ a >= upTo - SweepBatch + (Len(left) - 1)
  <2>1. 1 \in 1..Len(left)
    BY <1>2
  <2>2. /\ 0 < a /\ a < b /\ a \in Nat /\ b \in Nat
        /\ a >= upTo - SweepBatch + (Len(left) - 1)
    BY <1>2, <2>1
  <2>3. upTo \in Nat /\ floor <= upTo
    <3>1. floor \in 0..upTo /\ upTo \in Nat
      BY DEF SessionTypeOK, LeftInv
    <3> HIDE DEF a, b
    <3> QED BY <1>2, <2>2, <3>1
  <2> QED BY <1>2, <2>2, <2>3, SessionAssumption
<1>4. PICK t \in behind..top, shape \in Shapes :
        IF TooLarge(Known(a, b, t))
        THEN /\ left' = IF b - a > 1 THEN Halves(a, b) \o Tail(left) ELSE <<>>
             /\ UNCHANGED <<floor, answered, noted, unseen>>
        ELSE /\ left' = Tail(left)
             /\ floor' = a
             /\ answered' = answered \o Shaped(InOrder(Known(a, b, t)), shape)
             /\ noted' = noted \union {x \in Known(a, b, t) : What[x] = "plain"}
             /\ unseen' = unseen \union {h \in a..b - 1 : h > t}
  BY DEF QueryRange
<1> HIDE DEF a, b
<1>5. Highest' = Highest /\ RevokedRightly'
  BY <1>1 DEF Highest, RevokedRightly
<1>6. CASE TooLarge(Known(a, b, t))
  <2>1. UNCHANGED <<floor, answered, noted, unseen>>
    BY <1>4, <1>6
  <2>2. AnsweredInv' /\ BatchInv'
    <3>1. step' \in {"query", "record"}
      BY <1>1
    <3> QED BY <1>1, <2>1, <3>1 DEF AnsweredInv, BatchInv, Kept, ToRecord
  <2>3. SweepHonest'
    BY <1>1, <2>1, KeptStays
  <2>4. CASE left' = <<>>
    <3>1. SessionTypeOK' /\ LeftInv'
      BY <1>1, <1>3, <1>5, <2>1, <2>4 DEF SessionTypeOK, SweepSteps, LeftInv
    <3> QED BY <1>5, <2>2, <2>3, <3>1
  <2>5. CASE left' # <<>>
    <3> DEFINE mid == a + (b - a) \div 2
               n == Len(left)
    <3>1. left' = <<<<mid, b>>, <<a, mid>>>> \o Tail(left) /\ b - a > 1
      BY <1>4, <1>6, <2>5 DEF Halves
    <3>2. mid \in Nat /\ a < mid /\ mid < b
      BY <1>3, <3>1
    <3> HIDE DEF mid, n
    <3>3. n \in Nat /\ n > 0
      BY <1>2 DEF n
    <3>4. /\ left' \in Seq(Nat \X Nat) /\ Len(left') = n + 1
          /\ left'[1] = <<mid, b>> /\ left'[2] = <<a, mid>>
          /\ \A i \in 3..(n + 1) : left'[i] = left[i - 1]
      BY <1>2, <1>3, <3>1, <3>2, HeadSplit DEF n
    <3>5. \A i \in 1..(n + 1) :
            /\ 0 < left'[i][1] /\ left'[i][1] < left'[i][2]
            /\ left'[i][1] >= upTo - SweepBatch + (n + 1 - i)
      <4>1. TAKE i \in 1..(n + 1)
      <4>2. CASE i = 1
        BY <1>3, <3>2, <3>3, <3>4, <4>2 DEF n
      <4>3. CASE i = 2
        BY <1>3, <3>2, <3>3, <3>4, <4>3 DEF n
      <4>4. CASE i \in 3..(n + 1)
        <5>1. left'[i] = left[i - 1] /\ i - 1 \in 1..n
          <6>1. left'[i] = left[i - 1]
            BY <3>4, <4>4
          <6> QED BY <3>3, <4>4, <6>1
        <5>2. left[i - 1][1] >= upTo - SweepBatch + (n - (i - 1))
          BY <1>2, <5>1 DEF n
        <5>3. n - (i - 1) = n + 1 - i
          BY <3>3
        <5> QED BY <1>2, <5>1, <5>2, <5>3 DEF n
      <4> QED BY <3>3, <4>2, <4>3, <4>4
    <3>6. \A i \in 1..n : left'[i][1] = left'[i + 1][2]
      <4>1. TAKE i \in 1..n
      <4>2. CASE i = 1
        BY <3>4, <4>2
      <4>3. CASE i = 2
        <5>1. left'[3] = left[2] /\ left[1][1] = left[2][2]
          BY <1>2, <3>3, <3>4, <4>3 DEF n
        <5> QED BY <3>4, <4>3, <5>1 DEF a
      <4>4. CASE i \in 3..n
        <5>1. left'[i] = left[i - 1] /\ left'[i + 1] = left[(i + 1) - 1]
          <6>1. i \in 3..(n + 1) /\ i + 1 \in 3..(n + 1)
            BY <3>3, <4>4
          <6> QED BY <3>4, <6>1
        <5>2. i - 1 \in 1..(n - 1) /\ (i + 1) - 1 = (i - 1) + 1
          BY <3>3, <4>4
        <5>3. left[i - 1][1] = left[(i - 1) + 1][2]
          BY <1>2, <5>2 DEF n
        <5> QED BY <5>1, <5>2, <5>3
      <4> QED BY <3>3, <4>2, <4>3, <4>4
    <3>7. LeftInv'
      <4>1. (n + 1) - 1 = n
        BY <3>3
      <4>2. left'[1][2] = floor' /\ step' = "query"
        BY <1>1, <1>3, <2>1, <2>5, <3>4
      <4>3. Len(left') - 1 = n /\ left' # <<>> /\ left' \in Seq(Nat \X Nat)
        BY <2>5, <3>4, <4>1
      <4>4. \A i \in 1..Len(left') :
              /\ 0 < left'[i][1] /\ left'[i][1] < left'[i][2]
              /\ left'[i][1] >= upTo' - SweepBatch + (Len(left') - i)
        <5>1. upTo' = upTo /\ Len(left') = n + 1
          BY <1>1, <3>4
        <5>2. TAKE i \in 1..Len(left')
        <5>3. i \in 1..(n + 1) /\ Len(left') - i = n + 1 - i
          BY <3>3, <5>1
        <5> QED BY <3>5, <5>1, <5>3
      <4>5. \A i \in 1..(Len(left') - 1) : left'[i][1] = left'[i + 1][2]
        BY <3>6, <4>3
      <4>6. upTo' \in Nat
        BY <1>1, <1>3
      <4> QED BY <4>2, <4>3, <4>4, <4>5, <4>6 DEF LeftInv
    <3>8. SessionTypeOK'
      <4>1. Len(left') <= SweepBatch
        <5>1. mid >= upTo - SweepBatch + n
          <6>1. 1 \in 1..(n + 1) /\ n + 1 - 1 = n
            BY <3>3
          <6> QED BY <3>4, <3>5, <6>1
        <5> QED BY <1>3, <3>2, <3>3, <3>4, <5>1
      <4> QED BY <1>1, <1>5, <2>1, <2>5, <4>1 DEF SessionTypeOK, SweepSteps
    <3> QED BY <1>5, <2>2, <2>3, <3>7, <3>8
  <2> QED BY <2>4, <2>5
<1>7. CASE ~ TooLarge(Known(a, b, t))
  <2> DEFINE found == Known(a, b, t)
             more == Shaped(InOrder(found), shape)
  <2>1. /\ left' = Tail(left)
        /\ floor' = a
        /\ answered' = answered \o more
        /\ noted' = noted \union {x \in found : What[x] = "plain"}
        /\ unseen' = unseen \union {h \in a..b - 1 : h > t}
    BY <1>4, <1>7
  <2>2. found \subseteq SessionTxs
    BY DEF Known
  <2> HIDE DEF found
  <2>3. /\ more \in Seq(SessionTxs \X Shapes)
        /\ \A x \in found : \E i \in 1..Len(more) : more[i] = <<x, shape>>
    BY <2>2, ShapedPage
  <2> HIDE DEF more
  <2>5. answered \in Seq(SessionTxs \X Shapes)
    BY DEF AnsweredInv
  <2>6. /\ answered' \in Seq(SessionTxs \X Shapes)
        /\ Len(answered') = Len(answered) + Len(more)
        /\ \A i \in 1..Len(answered) : answered'[i] = answered[i]
        /\ \A i \in 1..Len(more) : answered'[Len(answered) + i] = more[i]
        /\ Len(answered) \in Nat /\ Len(more) \in Nat
    <3> DEFINE both == answered \o more
    <3>1. /\ both \in Seq(SessionTxs \X Shapes) /\ Len(both) = Len(answered) + Len(more)
          /\ \A i \in 1..Len(answered) : both[i] = answered[i]
          /\ \A i \in 1..Len(more) : both[Len(answered) + i] = more[i]
          /\ Len(answered) \in Nat /\ Len(more) \in Nat
      <4> DEFINE S == SessionTxs \X Shapes
      <4>1. answered \in Seq(S) /\ more \in Seq(S)
        BY <2>3, <2>5
      <4> HIDE DEF S
      <4>2. /\ both \in Seq(S) /\ Len(both) = Len(answered) + Len(more)
            /\ \A i \in 1..Len(answered) : both[i] = answered[i]
            /\ \A i \in 1..Len(more) : both[Len(answered) + i] = more[i]
            /\ Len(answered) \in Nat /\ Len(more) \in Nat
        BY <4>1, ConcatAt
      <4> QED BY <4>2 DEF S
    <3>2. answered' = both
      BY <2>1
    <3> HIDE DEF both
    <3> QED BY <3>1, <3>2
  <2>7. \A x \in SessionTxs : ToRecord(x) => ToRecord(x)'
    BY <2>6 DEF ToRecord
  <2>8. \A x \in found : ToRecord(x)'
    <3>1. TAKE x \in found
    <3>2. PICK i \in 1..Len(more) : more[i] = <<x, shape>>
      BY <2>3
    <3>3. answered'[Len(answered) + i] = <<x, shape>> /\ Len(answered) + i \in 1..Len(answered')
      BY <2>6, <3>2
    <3> QED BY <3>3 DEF ToRecord
  <2>9. AnsweredInv'
    <3>1. noted' \subseteq Plain
      BY <2>1, <2>2 DEF AnsweredInv, Plain
    <3>2. step' \in {"query", "record"}
      BY <1>1
    <3> QED BY <2>6, <3>1, <3>2 DEF AnsweredInv
  <2>10. unseen \subseteq unseen'
    BY <2>1
  <2>11. \A x \in SessionTxs : Kept(x) => Kept(x)'
    BY <1>1, <2>10, KeptStays
  <2>12. SweepHonest'
    BY <1>1, <2>10, KeptStays
  <2>13. BatchInv'
    <3>1. ASSUME NEW x \in SessionTxs, What[x] = "create", a <= x[1], x[1] <= pinned
          PROVE  Kept(x)' \/ ToRecord(x)'
      <4>1. x[1] \in Nat /\ t \in Int
        BY SessionAssumption DEF SessionTypeOK
      <4>2. CASE b <= x[1]
        BY <1>1, <1>3, <2>7, <2>11, <3>1, <4>2 DEF BatchInv
      <4>3. CASE x[1] < b /\ x[1] <= t
        <5>1. x \in found
          BY <3>1, <4>3 DEF found, Known
        <5> QED BY <2>8, <5>1
      <4>4. CASE x[1] < b /\ x[1] > t
        <5>1. x[1] \in a..b - 1
          BY <1>3, <3>1, <4>1, <4>4
        <5>2. x[1] \in unseen'
          BY <2>1, <4>4, <5>1
        <5> QED BY <5>2 DEF Kept
      <4> QED BY <1>3, <4>1, <4>2, <4>3, <4>4
    <3> QED BY <1>1, <2>1, <3>1 DEF BatchInv
  <2>14. /\ left' \in Seq(Nat \X Nat) /\ Len(left') = Len(left) - 1
         /\ \A i \in 1..Len(left') : left'[i] = left[i + 1]
    BY <1>2, <2>1
  <2>15. LeftInv'
    <3>1. CASE left' = <<>>
      BY <1>1, <3>1 DEF LeftInv
    <3>2. CASE left' # <<>>
      <4> DEFINE n == Len(left')
      <4>1. n \in Nat /\ n > 0 /\ Len(left) = n + 1
        BY <1>2, <2>14, <3>2
      <4>2. left'[1][2] = floor'
        <5>1. left'[1] = left[2] /\ left[1][1] = left[2][2]
          <6>1. 1 \in 1..Len(left') /\ 1 \in 1..(Len(left) - 1)
            BY <4>1
          <6>2. left'[1] = left[1 + 1] /\ left[1][1] = left[1 + 1][2]
            BY <1>2, <2>14, <6>1
          <6> QED BY <6>2
        <5> QED BY <2>1, <5>1 DEF a
      <4> HIDE DEF n
      <4>3. \A i \in 1..n :
              /\ 0 < left'[i][1] /\ left'[i][1] < left'[i][2]
              /\ left'[i][1] >= upTo - SweepBatch + (n - i)
        <5>1. TAKE i \in 1..n
        <5>2. left'[i] = left[i + 1] /\ i + 1 \in 1..Len(left) /\ Len(left) - (i + 1) = n - i
          BY <2>14, <4>1 DEF n
        <5> QED BY <1>2, <5>2
      <4>4. \A i \in 1..(n - 1) : left'[i][1] = left'[i + 1][2]
        <5>1. TAKE i \in 1..(n - 1)
        <5>2. left'[i] = left[i + 1] /\ left'[i + 1] = left[(i + 1) + 1]
          <6>1. i \in 1..Len(left') /\ i + 1 \in 1..Len(left')
            BY <4>1 DEF n
          <6> QED BY <2>14, <6>1
        <5>3. i + 1 \in 1..(Len(left) - 1)
          BY <4>1
        <5> QED BY <1>2, <5>2, <5>3
      <4> QED BY <1>1, <2>14, <3>2, <4>2, <4>3, <4>4 DEF LeftInv, n
    <3> QED BY <3>1, <3>2
  <2>16. SessionTypeOK'
    <3>1. Len(left') <= SweepBatch
      BY <1>2, <1>3, <2>14 DEF SessionTypeOK
    <3> QED BY <1>1, <1>3, <1>5, <2>1, <3>1 DEF SessionTypeOK, SweepSteps
  <2> QED BY <1>5, <2>9, <2>12, <2>13, <2>15, <2>16
<1> QED BY <1>6, <1>7

-----------------------------------------------------------------------------
\* What is taken off the answers is the first of them.
LEMMA TakesFirst ==
  ASSUME AnsweredInv, answered # <<>>, answered' = Tail(answered)
  PROVE  /\ answered[1] \in SessionTxs \X Shapes
         /\ answered' \in Seq(SessionTxs \X Shapes)
         /\ \A x \in SessionTxs : ToRecord(x) => x = answered[1][1] \/ ToRecord(x)'
<1> DEFINE S == SessionTxs \X Shapes
<1>1. answered \in Seq(S)
  BY DEF AnsweredInv
<1> HIDE DEF S
<1>2. /\ answered' \in Seq(S) /\ Len(answered') = Len(answered) - 1
      /\ Len(answered) \in Nat /\ Len(answered) > 0
      /\ \A i \in 1..(Len(answered) - 1) : answered'[i] = answered[i + 1]
  BY <1>1, TailAt
<1>3. answered[1] \in S
  BY <1>1, <1>2
<1>4. ASSUME NEW x \in SessionTxs, ToRecord(x), x # answered[1][1]
      PROVE  ToRecord(x)'
  <2>1. PICK i \in 1..Len(answered) : answered[i][1] = x
    BY <1>4 DEF ToRecord
  <2>2. i # 1
    BY <1>4, <2>1
  <2>3. i - 1 \in 1..(Len(answered) - 1) /\ (i - 1) + 1 = i
    BY <1>2, <2>2
  <2>4. answered'[i - 1] = answered[i]
    BY <1>2, <2>3
  <2> QED BY <1>2, <2>1, <2>3, <2>4 DEF ToRecord
<1> QED BY <1>2, <1>3, <1>4 DEF S

LEMMA RecordNextStep ==
  ASSUME SessionInv, RecordNext
  PROVE  SessionInv'
<1> USE DEF SessionInv
<1>1. /\ step = "record"
      /\ UNCHANGED <<top, behind, blocks, memos, callRows, pinned, swept, left, upTo, floor, noted,
                     unseen, unwritten>>
  BY DEF RecordNext, sweepEnv, sweepMarks, sweepHist
<1>2. Highest' = Highest
  BY <1>1 DEF Highest
<1>3. CASE answered = <<>>
  <2>1. step' = "memos" /\ UNCHANGED <<grants, signed, answered>>
    BY <1>3 DEF RecordNext
  <2>2. SessionTypeOK' /\ RevokedRightly'
    BY <1>1, <1>2, <2>1 DEF SessionTypeOK, SweepSteps, RevokedRightly
  <2>3. AnsweredInv' /\ LeftInv'
    BY <1>1, <1>3, <2>1 DEF AnsweredInv, LeftInv
  <2>4. BatchInv' /\ SweepHonest'
    BY <1>1, <2>1, KeptStays DEF BatchInv, Kept, ToRecord
  <2> QED BY <2>2, <2>3, <2>4
<1>4. CASE answered # <<>>
  <2>1. RecordFirst /\ step' = step
    BY <1>4 DEF RecordNext
  <2>2. /\ answered' = Tail(answered) /\ answered' \in Seq(SessionTxs \X Shapes)
        /\ DOMAIN grants \subseteq DOMAIN grants'
        /\ DOMAIN grants' \subseteq (DOMAIN MasterOf) \X (1..SweepHeight)
        /\ \A r \in DOMAIN grants' : grants'[r] \in 0..SweepHeight
        /\ signed' \subseteq Plain
        /\ RevokedRightly'
        /\ What[answered[1][1]] = "create" => GrantOf(answered[1][1]) \in DOMAIN grants'
    BY <1>4, <2>1, RecordFirstFacts
  <2>3. SessionTypeOK'
    BY <1>1, <1>2, <2>1, <2>2 DEF SessionTypeOK, Plain
  <2>4. AnsweredInv' /\ LeftInv'
    BY <1>1, <2>1, <2>2 DEF AnsweredInv, LeftInv
  <2>5. SweepHonest' /\ \A x \in SessionTxs : Kept(x) => Kept(x)'
    BY <1>1, <2>2, KeptStays
  <2>6. \A x \in SessionTxs : ToRecord(x) => x = answered[1][1] \/ ToRecord(x)'
    BY <1>4, <2>2, TakesFirst
  <2>7. \A x \in SessionTxs : What[x] = "create" /\ x = answered[1][1] => Kept(x)'
    BY <2>2 DEF Kept, GrantOf
  <2>8. BatchInv'
    BY <1>1, <2>1, <2>5, <2>6, <2>7 DEF BatchInv
  <2> QED BY <2>2, <2>3, <2>4, <2>5, <2>8
<1> QED BY <1>3, <1>4

LEMMA LiveStoreStep ==
  ASSUME SessionInv, LiveStore
  PROVE  SessionInv'
<1> USE DEF SessionInv
<1>1. /\ step = "store"
      /\ UNCHANGED <<top, behind, blocks, pinned, swept, left, upTo, floor, noted,
                     unseen, unwritten>>
  BY DEF LiveStore, sweepEnv, sweepMarks, sweepHist
<1>2. Highest' = Highest
  BY <1>1 DEF Highest
<1>3. CASE answered = <<>>
  <2>1. step' = "blocks" /\ UNCHANGED <<grants, signed, memos, callRows, answered>>
    BY <1>3 DEF LiveStore, tables
  <2>2. SessionTypeOK' /\ RevokedRightly'
    BY <1>1, <1>2, <2>1 DEF SessionTypeOK, SweepSteps, RevokedRightly
  <2>3. AnsweredInv' /\ LeftInv' /\ BatchInv'
    BY <1>1, <1>3, <2>1 DEF AnsweredInv, LeftInv, BatchInv
  <2>4. SweepHonest'
    BY <1>1, <2>1, KeptStays
  <2> QED BY <2>2, <2>3, <2>4
<1>4. CASE answered # <<>>
  <2>1. /\ RecordFirst /\ step' = step
        /\ memos' = memos \union PlainOf(answered[1][1])
        /\ callRows' = callRows \union PlainOf(answered[1][1])
    BY <1>4 DEF LiveStore
  <2>2. /\ answered[1] \in SessionTxs \X Shapes /\ answered' \in Seq(SessionTxs \X Shapes)
        /\ DOMAIN grants \subseteq DOMAIN grants'
        /\ DOMAIN grants' \subseteq (DOMAIN MasterOf) \X (1..SweepHeight)
        /\ \A r \in DOMAIN grants' : grants'[r] \in 0..SweepHeight
        /\ signed' \subseteq Plain
        /\ RevokedRightly'
    BY <1>4, <2>1, RecordFirstFacts
  <2>3. PlainOf(answered[1][1]) \subseteq Plain
    BY <2>2 DEF PlainOf, Plain
  <2>4. memos' \union callRows' \union signed' \subseteq Plain
    BY <2>1, <2>2, <2>3 DEF SessionTypeOK, Plain
  <2>5. SessionTypeOK'
    BY <1>1, <1>2, <2>1, <2>2, <2>4 DEF SessionTypeOK, Plain
  <2>6. AnsweredInv' /\ LeftInv' /\ BatchInv'
    BY <1>1, <2>1, <2>2 DEF AnsweredInv, LeftInv, BatchInv
  <2>7. SweepHonest'
    BY <1>1, <2>2, KeptStays
  <2> QED BY <2>2, <2>5, <2>6, <2>7
<1> QED BY <1>3, <1>4

LEMMA RecordFailsStep ==
  ASSUME SessionInv, RecordFails
  PROVE  SessionInv'
<1> USE DEF SessionInv
<1>0. PICK x : x = answered[1][1]
  OBVIOUS
<1> DEFINE live == IF step = "store" THEN PlainOf(x) ELSE {}
<1>1. /\ step \in {"record", "store"} /\ answered # <<>>
      /\ unwritten' = unwritten \union {x}
      /\ memos' = memos \union live /\ callRows' = callRows \union live
      /\ answered' = Tail(answered)
      /\ UNCHANGED <<top, behind, blocks, grants, signed, pinned, swept, step, left, upTo, floor,
                     noted, unseen>>
  BY <1>0 DEF RecordFails, sweepEnv, sweepMarks
<1>2. /\ answered[1] \in SessionTxs \X Shapes
      /\ answered' \in Seq(SessionTxs \X Shapes)
      /\ \A y \in SessionTxs : ToRecord(y) => y = x \/ ToRecord(y)'
  BY <1>0, <1>1, TakesFirst
<1>3. live \subseteq Plain /\ x \in SessionTxs
  BY <1>0, <1>2 DEF PlainOf, Plain
<1> HIDE DEF live
<1>4. Highest' = Highest /\ RevokedRightly'
  BY <1>1 DEF Highest, RevokedRightly
<1>5. memos' \union callRows' \union signed' \subseteq Plain
  BY <1>1, <1>3 DEF SessionTypeOK, Plain
<1>6. SessionTypeOK'
  BY <1>1, <1>4, <1>5 DEF SessionTypeOK, Plain
<1>7. AnsweredInv' /\ LeftInv'
  BY <1>1, <1>2 DEF AnsweredInv, LeftInv
<1>8. SweepHonest' /\ \A y \in SessionTxs : Kept(y) => Kept(y)'
  BY <1>1, KeptStays
<1>9. Kept(x)'
  BY <1>1 DEF Kept
<1>10. BatchInv'
  BY <1>1, <1>2, <1>8, <1>9 DEF BatchInv
<1> QED BY <1>4, <1>6, <1>7, <1>8, <1>10

LEMMA MemosStep ==
  ASSUME SessionInv, StoreMemos \/ MemosFail
  PROVE  SessionInv'
<1> USE DEF SessionInv
<1>1. /\ step = "memos" /\ step' = "cursor" /\ noted' = {}
      /\ memos' \subseteq memos \union noted
      /\ UNCHANGED <<top, behind, blocks, grants, signed, callRows, pinned, swept, left, upTo, floor,
                     answered, unseen, unwritten>>
  BY DEF StoreMemos, MemosFail, sweepEnv, tables, sweepMarks, sweepHist
<1>2. Highest' = Highest /\ RevokedRightly'
  BY <1>1 DEF Highest, RevokedRightly
<1>3. memos' \union callRows' \union signed' \subseteq Plain
  BY <1>1 DEF SessionTypeOK, AnsweredInv, Plain
<1>4. SessionTypeOK'
  BY <1>1, <1>2, <1>3 DEF SessionTypeOK, SweepSteps, Plain
<1>5. AnsweredInv' /\ LeftInv' /\ BatchInv'
  BY <1>1 DEF AnsweredInv, LeftInv, BatchInv, Kept, ToRecord
<1>6. SweepHonest'
  BY <1>1, KeptStays
<1> QED BY <1>2, <1>4, <1>5, <1>6

\* The cursor comes down to the floor, where nothing is left to record.
LEMMA SetSweptStep ==
  ASSUME SessionInv, SetSwept
  PROVE  SessionInv'
<1> USE DEF SessionInv
<1>1. /\ step = "cursor" /\ step' = "live" /\ upTo' = 0 /\ floor' = 0
      /\ swept' = IF floor < upTo THEN floor ELSE swept
      /\ UNCHANGED <<top, behind, blocks, grants, signed, memos, callRows, pinned, left, answered,
                     noted, unseen, unwritten>>
  BY DEF SetSwept, SweptTo, sweepEnv, tables, sweepHist
<1>2. Highest' = Highest /\ RevokedRightly'
  BY <1>1 DEF Highest, RevokedRightly
<1>3. pinned \in Nat /\ upTo \in Nat /\ floor \in 0..upTo /\ upTo <= pinned + 1
  BY <1>1, SessionAssumption DEF SessionTypeOK, LeftInv, BatchInv, Highest
<1>4. swept' \in 0..pinned
  BY <1>1, <1>3 DEF SessionTypeOK
<1>5. SessionTypeOK'
  BY <1>1, <1>2, <1>4 DEF SessionTypeOK, SweepSteps
<1>6. AnsweredInv' /\ LeftInv' /\ BatchInv'
  BY <1>1 DEF AnsweredInv, LeftInv, BatchInv
<1>7. SweepHonest'
  <2>1. CASE swept' = swept
    BY <1>1, <2>1, KeptStays
  <2>2. CASE swept' = floor
    <3>1. \A x \in SessionTxs : ~ ToRecord(x)
      <4>1. Len(answered) = 0
        BY <1>1 DEF AnsweredInv
      <4> QED BY <4>1 DEF ToRecord
    <3>2. \A x \in SessionTxs : What[x] = "create" /\ floor <= x[1] /\ x[1] <= pinned => Kept(x)
      BY <1>1, <3>1 DEF BatchInv
    <3> QED BY <1>1, <2>2, <3>2 DEF SweepHonest, Kept
  <2> QED BY <1>1, <2>1, <2>2
<1> QED BY <1>2, <1>5, <1>6, <1>7

LEMMA SweepFaultStep ==
  ASSUME SessionInv, SweepCallFails \/ QueryFails \/ SweepRestart
  PROVE  SessionInv'
<1> USE DEF SessionInv
<1>1. UNCHANGED <<top, behind, blocks, grants, signed, memos, callRows, pinned, swept,
                  unseen, unwritten>>
  BY DEF SweepCallFails, QueryFails, SweepRestart, sweepEnv, tables, sweepMarks, sweepHist
<1>2. Highest' = Highest /\ RevokedRightly'
  BY <1>1 DEF Highest, RevokedRightly
<1>3. SweepHonest'
  BY <1>1, KeptStays
<1>4. CASE SweepCallFails
  <2>1. /\ step \in {"pin", "range", "cursor", "live"} /\ step' \in {"range", "live", "blocks"}
        /\ upTo' = 0 /\ floor' = 0 /\ UNCHANGED <<left, answered, noted>>
    BY <1>4 DEF SweepCallFails
  <2>2. SessionTypeOK'
    BY <1>1, <1>2, <2>1 DEF SessionTypeOK, SweepSteps
  <2>3. AnsweredInv' /\ LeftInv' /\ BatchInv'
    BY <1>1, <2>1 DEF AnsweredInv, LeftInv, BatchInv
  <2> QED BY <1>2, <1>3, <2>2, <2>3
<1>5. CASE QueryFails
  <2>1. /\ step = "query" /\ step' = "record" /\ left' = <<>>
        /\ UNCHANGED <<upTo, floor, answered, noted>>
    BY <1>5 DEF QueryFails
  <2>2. SessionTypeOK'
    BY <1>1, <1>2, <2>1, SessionAssumption DEF SessionTypeOK, SweepSteps
  <2>3. AnsweredInv' /\ LeftInv' /\ BatchInv'
    BY <1>1, <2>1 DEF AnsweredInv, LeftInv, BatchInv, Kept, ToRecord
  <2> QED BY <1>2, <1>3, <2>2, <2>3
<1>6. CASE SweepRestart
  <2>1. step' = "blocks" /\ left' = <<>> /\ upTo' = 0 /\ floor' = 0 /\ answered' = <<>> /\ noted' = {}
    BY <1>6 DEF SweepRestart
  <2>2. SessionTypeOK'
    BY <1>1, <1>2, <2>1, SessionAssumption DEF SessionTypeOK, SweepSteps
  <2>3. AnsweredInv' /\ LeftInv' /\ BatchInv'
    BY <1>1, <2>1 DEF AnsweredInv, LeftInv, BatchInv
  <2> QED BY <1>2, <1>3, <2>2, <2>3
<1> QED BY <1>4, <1>5, <1>6

LEMMA LiveFetchStep ==
  ASSUME SessionInv, LiveFetch
  PROVE  SessionInv'
<1> USE DEF SessionInv
<1>1. /\ step = "live" /\ step' = "store"
      /\ UNCHANGED <<top, behind, blocks, grants, signed, memos, callRows, pinned, swept, left, upTo,
                     floor, noted, unseen, unwritten>>
  BY DEF LiveFetch, sweepEnv, tables, sweepMarks, sweepHist
<1>2. Highest' = Highest /\ RevokedRightly'
  BY <1>1 DEF Highest, RevokedRightly
<1>3. SessionTypeOK' /\ LeftInv' /\ BatchInv'
  BY <1>1, <1>2 DEF SessionTypeOK, SweepSteps, LeftInv, BatchInv
<1>4. answered' \in Seq(SessionTxs \X Shapes)
  <2>1. PICK t \in behind..top, shape \in Shapes :
          answered' = Shaped(InOrder(Known(LiveCursor + 1, t + 1, t)), shape)
    BY DEF LiveFetch
  <2>2. Known(LiveCursor + 1, t + 1, t) \subseteq SessionTxs
    BY DEF Known
  <2> QED BY <2>1, <2>2, ShapedPage
<1>5. AnsweredInv'
  BY <1>1, <1>4 DEF AnsweredInv
<1>6. SweepHonest'
  BY <1>1, KeptStays
<1> QED BY <1>2, <1>3, <1>5, <1>6

-----------------------------------------------------------------------------
LEMMA SessionInvKept ==
  ASSUME SessionInv, [SessionNext]_sessionVars
  PROVE  SessionInv'
<1>1. CASE SessionNext
  <2>1. CASE SweepGrow \/ SweepCatchUp
    BY <2>1, SweepChainStep
  <2>2. CASE SweepPass
    BY <2>2, SweepBlocksStep, PinStopStep, NextRangeStep, QueryRangeStep, RecordNextStep,
       MemosStep, SetSweptStep, LiveFetchStep, LiveStoreStep DEF SweepPass
  <2>3. CASE SweepCallFails \/ QueryFails \/ RecordFails \/ MemosFail \/ SweepRestart
    BY <2>3, SweepFaultStep, RecordFailsStep, MemosStep
  <2> QED BY <1>1, <2>1, <2>2, <2>3 DEF SessionNext
<1>2. CASE UNCHANGED sessionVars
  <2>1. UNCHANGED <<top, behind, blocks, grants, signed, memos, callRows, pinned, swept, step, left,
                    upTo, floor, answered, noted, unseen, unwritten>>
    BY <1>2 DEF sessionVars, sweepEnv, tables, sweepMarks, sweepPass, sweepHist
  <2>2. SessionTypeOK' /\ RevokedRightly'
    BY <2>1 DEF SessionInv, SessionTypeOK, RevokedRightly, Highest
  <2>3. AnsweredInv' /\ LeftInv' /\ BatchInv' /\ SweepHonest'
    BY <2>1 DEF SessionInv, AnsweredInv, LeftInv, BatchInv, SweepHonest, Kept, ToRecord
  <2> QED BY <2>2, <2>3 DEF SessionInv
<1> QED BY <1>1, <1>2

\* SessionInv holds in every reachable state: it is the inductive invariant behind
\* the theorems below.
THEOREM SessionInvHolds == SessionSafety => []SessionInv
<1>1. SessionInit => SessionInv
  BY SessionInitInv
<1>2. SessionInv /\ [SessionNext]_sessionVars => SessionInv'
  BY SessionInvKept
<1> QED BY <1>1, <1>2, PTL DEF SessionSafety

\* The sweep's ranges, cursor, boundary and tables keep their shape; in particular
\* halving never leaves more ranges than the batch has blocks.
THEOREM SessionTypes == SessionSafety => []SessionTypeOK
<1>1. SessionInv => SessionTypeOK
  BY DEF SessionInv
<1> QED BY <1>1, SessionInvHolds, PTL

\* The cursor of the sweep passes over nothing that did not answer, for every batch
\* and row limit and wherever a pass breaks off.
THEOREM CursorIsHonest == SessionSafety => []SweepHonest
<1>1. SessionInv => SweepHonest
  BY DEF SessionInv
<1> QED BY <1>1, SessionInvHolds, PTL

\* No grant is closed by a revocation that is older than it.
THEOREM RevocationsAreLater == SessionSafety => []RevokedRightly
<1>1. SessionInv => RevokedRightly
  BY DEF SessionInv
<1> QED BY <1>1, SessionInvHolds, PTL

\* No step drops a grant, or changes a revocation that is recorded.
LEMMA GrantsStay ==
  ASSUME SessionInv, [SessionNext]_sessionVars
  PROVE  \A r \in DOMAIN grants :
           r \in DOMAIN grants' /\ (grants[r] # 0 => grants'[r] = grants[r])
<1>1. CASE UNCHANGED grants
  BY <1>1
<1>2. CASE RecordFirst /\ answered # <<>>
  <2>1. answered[1] \in SessionTxs \X Shapes
    BY <1>2 DEF SessionInv, AnsweredInv
  <2>2. grants' = AfterMessage(grants, answered[1][1], answered[1][2])
    BY <1>2 DEF RecordFirst
  <2>3. answered[1][1] \in SessionTxs
    BY <2>1
  <2> QED BY <2>2, <2>3, MessageKeeps
<1>3. SessionNext => UNCHANGED grants \/ (RecordFirst /\ answered # <<>>)
  BY DEF SessionNext, SweepPass, SweepGrow, SweepCatchUp, SweepBlocks, PinStop, NextRange,
         QueryRange, RecordNext, StoreMemos, SetSwept, LiveFetch, LiveStore, SweepCallFails,
         QueryFails, RecordFails, MemosFail, SweepRestart, tables
<1>4. UNCHANGED sessionVars => UNCHANGED grants
  BY DEF sessionVars, tables
<1> QED BY <1>1, <1>2, <1>3, <1>4

\* Walking a grant or a revocation again, by the sweep or by the live pass, takes
\* back no revocation and drops no grant.
THEOREM RevocationsStay == SessionSafety => RevocationKept
<1> DEFINE A == \A r \in DOMAIN grants :
                 r \in DOMAIN grants' /\ (grants[r] # 0 => grants'[r] = grants[r])
<1>1. ASSUME SessionInv, [SessionNext]_sessionVars
      PROVE  [A]_sessionVars
  BY <1>1, GrantsStay
<1>2. SessionSafety => [][A]_sessionVars
  BY <1>1, SessionInvHolds, PTL DEF SessionSafety
<1> QED BY <1>2 DEF RevocationKept

-----------------------------------------------------------------------------
(***************************************************************************)
(* The sweep keeps the promise of Backfill.  That its cursor only ever     *)
(* comes down rests on the batch in hand: it begins at the cursor, or      *)
(* below the boundary while there is none, and reaches no lower than block *)
(* 1, so that a cursor is never mistaken for none.                         *)
(***************************************************************************)

InSweep == step \in {"query", "record", "memos", "cursor"}

SweepDown == InSweep => floor > 0 /\ (swept > 0 => upTo <= swept)

\* The boundary stays once it is pinned, the cursor comes down, and what is known
\* of a grant stays known.
LEMMA SweepGoesDown ==
  ASSUME SessionInv, SweepDown, [SessionNext]_sessionVars
  PROVE  /\ SweepDown'
         /\ unseen \subseteq unseen' /\ unwritten \subseteq unwritten'
         /\ pinned > 0 => pinned' = pinned
         /\ swept > 0 => swept' > 0 /\ swept' <= swept
<1> USE DEF InSweep
<1>1. /\ pinned \in Nat /\ swept \in 0..pinned /\ Lowest \in Nat /\ upTo \in Nat
      /\ floor \in 0..upTo
  BY SessionAssumption DEF SessionInv, SessionTypeOK, LeftInv, Highest, Lowest
<1>2. CASE NextRange
  <2>1. UNCHANGED <<pinned, swept, unseen, unwritten>> /\ step = "range"
    BY <1>2 DEF NextRange, sweepMarks, sweepHist
  <2>2. CASE ~ SweepLeft
    <3>1. step' = "live"
      BY <1>2, <2>2 DEF NextRange
    <3> QED BY <1>1, <2>1, <3>1 DEF SweepDown
  <2>3. CASE SweepLeft
    <3>1. upTo' = SweepTo /\ floor' = SweepTo
      BY <1>2, <2>3 DEF NextRange
    <3>2. SweepTo \in Nat /\ SweepTo > 0 /\ (swept > 0 => SweepTo = swept)
      BY <1>1, <2>3 DEF SweepTo, SweepLeft
    <3> QED BY <1>1, <2>1, <3>1, <3>2 DEF SweepDown
  <2> QED BY <2>2, <2>3
<1>3. CASE QueryRange
  <2>1. UNCHANGED <<pinned, swept, upTo, unwritten>> /\ step = "query"
    BY <1>3 DEF QueryRange, sweepMarks
  <2>2. left[1][1] > 0
    <3>1. /\ Len(left) > 0 /\ Len(left) \in Nat
          /\ \A i \in 1..Len(left) : 0 < left[i][1]
      BY <2>1 DEF SessionInv, LeftInv
    <3>2. 1 \in 1..Len(left)
      BY <3>1
    <3> QED BY <3>1, <3>2
  <2>3. unseen \subseteq unseen' /\ (floor' = floor \/ floor' = left[1][1])
    BY <1>3 DEF QueryRange
  <2> QED BY <1>1, <2>1, <2>2, <2>3 DEF SweepDown
<1>4. CASE SetSwept
  <2>1. /\ step = "cursor" /\ step' = "live" /\ UNCHANGED <<pinned, unseen, unwritten>>
        /\ swept' = IF floor < upTo THEN floor ELSE swept
    BY <1>4 DEF SetSwept, SweptTo, sweepHist
  <2> QED BY <1>1, <2>1 DEF SweepDown
<1>5. CASE PinStop
  <2>1. /\ step = "pin" /\ step' = "range" /\ UNCHANGED <<swept, unseen, unwritten>>
        /\ pinned' = IF pinned = 0 THEN Highest ELSE pinned
    BY <1>5 DEF PinStop, sweepHist
  <2> QED BY <1>1, <2>1 DEF SweepDown
<1>6. CASE RecordFails
  <2>1. UNCHANGED <<pinned, swept, upTo, floor, step, unseen>> /\ unwritten \subseteq unwritten'
    BY <1>6 DEF RecordFails, sweepMarks
  <2> QED BY <1>1, <2>1 DEF SweepDown
<1>7. CASE RecordNext \/ StoreMemos \/ QueryFails \/ MemosFail
  <2>1. UNCHANGED <<pinned, swept, upTo, floor, unseen, unwritten>> /\ InSweep
    BY <1>7 DEF RecordNext, StoreMemos, QueryFails, MemosFail, sweepMarks, sweepHist
  <2> QED BY <1>1, <2>1 DEF SweepDown
<1>8. CASE SweepBlocks \/ LiveFetch \/ LiveStore \/ SweepCallFails \/ SweepRestart
  <2>1. UNCHANGED <<pinned, swept, unseen, unwritten>> /\ ~ InSweep'
    BY <1>8 DEF SweepBlocks, LiveFetch, LiveStore, SweepCallFails, SweepRestart, sweepMarks, sweepHist
  <2> QED BY <1>1, <2>1 DEF SweepDown
<1>9. CASE SweepGrow \/ SweepCatchUp \/ UNCHANGED sessionVars
  <2>1. UNCHANGED <<pinned, swept, upTo, floor, step, unseen, unwritten>>
    BY <1>9 DEF SweepGrow, SweepCatchUp, sessionVars, sweepMarks, sweepPass, sweepHist
  <2> QED BY <1>1, <2>1 DEF SweepDown
<1> QED BY <1>2, <1>3, <1>4, <1>5, <1>6, <1>7, <1>8, <1>9 DEF SessionNext, SweepPass

\* A step of the sweep, of the live pass or of the world is a step of Backfill.
LEMMA SweepStepKeeps ==
  ASSUME SessionInv, SessionInv', SweepDown, [SessionNext]_sessionVars
  PROVE  SweepPromise!BackfillStep
<1>1. \A r \in DOMAIN grants : r \in DOMAIN grants'
  BY GrantsStay
<1>2. /\ unseen \subseteq unseen' /\ unwritten \subseteq unwritten'
      /\ pinned > 0 => pinned' = pinned
      /\ swept > 0 => swept' > 0 /\ swept' <= swept
  BY SweepGoesDown
<1>3. /\ pinned \in Nat /\ swept \in 0..pinned /\ swept' \in Nat
      /\ \A x \in Creations : x[1] \in Nat
  BY SessionAssumption DEF SessionInv, SessionTypeOK, Highest, Creations
<1>4. PassedGrants \subseteq PassedGrants'
  <2> SUFFICES ASSUME NEW x \in Creations, swept > 0, swept <= x[1], x[1] <= pinned
               PROVE  swept' > 0 /\ swept' <= x[1] /\ x[1] <= pinned'
    BY DEF PassedGrants
  <2> QED BY <1>2, <1>3
<1>5. \A x \in PassedGrants' : GrantOf(x) \in DOMAIN grants' \/ x[1] \in unseen' \/ x \in unwritten'
  BY DEF SessionInv, SweepHonest, PassedGrants, Creations
<1>6. PassedGrants' \subseteq Creations
  BY DEF PassedGrants
<1> QED BY <1>1, <1>2, <1>4, <1>5, <1>6 DEF SweepPromise!BackfillStep

\* backfillSessions keeps the promise of Backfill, for every chain, batch, row
\* limit, lag and number of faults.
THEOREM SweepKeepsItsPromise == SessionSafety => SweepKeepsPromise
<1>1. SessionInit => SweepPromise!BackfillInit /\ SweepDown
  BY DEF SessionInit, SweepPromise!BackfillInit, PassedGrants, SweepDown, InSweep
<1>2. SessionInv /\ SweepDown /\ [SessionNext]_sessionVars => SweepDown'
  BY SweepGoesDown
<1>3. SessionInv /\ SessionInv' /\ SweepDown /\ [SessionNext]_sessionVars =>
        [SweepPromise!BackfillStep]_(SweepPromise!backfillVars)
  BY SweepStepKeeps
<1> QED BY <1>1, <1>2, <1>3, SessionInvHolds, PTL
        DEF SessionSafety, SweepKeepsPromise, SweepPromise!BackfillSpec
=============================================================================
