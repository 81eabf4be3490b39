------------------------- MODULE EndpointPool_proofs --------------------------
(***************************************************************************)
(* Proofs about EndpointPool: its types, and that a pool whose identity was *)
(* adopted stays on that chain.                                            *)
(*                                                                         *)
(* A verdict is written some time after its probe was answered: the        *)
(* invariant is about the verdicts still to be written (VerdictAgrees),    *)
(* that the endpoint chosen and the identity to be adopted agree.  That    *)
(* identity is the pool's own once every probe in flight began with it,    *)
(* which PoolSettled says and every step keeps.                            *)
(***************************************************************************)
EXTENDS EndpointPool, OrderLemmas

Chains == {0} \union {ChainOf[e] : e \in Endpoints}

VerdictAgrees ==
  \A q \in Queries :
    poolStep[q] = "choose" /\ chosen[q] # 0 => Fingerprint(chosen[q]) \in {0, known[q]}

PoolInv == PoolTypeOK /\ VerdictAgrees

-----------------------------------------------------------------------------
LEMMA EndpointsNat == Endpoints \subseteq Nat
  BY EndpointPoolAssumption DEF Endpoints

\* The earliest endpoint that keeps up is one of those asked about.
LEMMA PickIsOne ==
  ASSUME NEW es \in SUBSET Endpoints, tip \in [Endpoints -> 0..MaxTip]
  PROVE  /\ es = {} => Pick(es) = 0
         /\ es # {} => Pick(es) \in es
<1> USE EndpointPoolAssumption
<1>1. CASE es = {}
  BY <1>1 DEF Pick
<1>2. CASE es # {}
  <2> DEFINE gaps == {MaxTip - tip[e] : e \in es}
             keepUp == {e \in es : \A f \in es : tip[e] >= tip[f] - EndpointLead}
  <2>1. gaps \in SUBSET Nat /\ gaps # {}
    BY <1>2
  <2>2. Min(gaps) \in gaps /\ \A g \in gaps : Min(gaps) <= g
    <3> HIDE DEF gaps
    <3> QED BY <2>1, MinOfNat
  <2>3. PICK e \in es : \A g \in gaps : MaxTip - tip[e] <= g
    BY <2>2
  <2>4. \A f \in es : tip[e] >= tip[f] - EndpointLead
    <3> TAKE f \in es
    <3>1. MaxTip - tip[e] <= MaxTip - tip[f]
      BY <2>3
    <3>2. tip[e] \in Nat /\ tip[f] \in Nat
      BY DEF Endpoints
    <3> QED BY <3>1, <3>2
  <2>5. keepUp # {} /\ keepUp \in SUBSET Nat
    <3>1. es \in SUBSET Nat
      BY EndpointsNat
    <3>2. e \in keepUp
      BY <2>4
    <3> QED BY <3>1, <3>2
  <2>6. Min(keepUp) \in keepUp
    <3> HIDE DEF keepUp
    <3> QED BY <2>5, MinOfNat
  <2>7. Pick(es) = Min(keepUp)
    BY <1>2 DEF Pick
  <2>8. Min(keepUp) \in es
    BY <2>6
  <2> QED BY <1>2, <2>7, <2>8, Zenon
<1> QED BY <1>1, <1>2

LEMMA FingerprintType ==
  ASSUME NEW e \in Endpoints
  PROVE  Fingerprint(e) \in Chains
  BY DEF Fingerprint, Chains

\* What a probe goes by: the identity it started from, or one that an answer
\* proves; none only where no answer proves any.
LEMMA AdoptedIs ==
  ASSUME PoolTypeOK, NEW id \in Chains
  PROVE  /\ Adopted(id) \in Chains
         /\ Adopted(id) = 0 => Proven = {}
<1>1. CASE id # 0 \/ Proven = {}
  BY <1>1 DEF Adopted
<1>2. CASE id = 0 /\ Proven # {}
  <2>1. Proven \in SUBSET Nat
    BY EndpointsNat DEF Proven, PoolTypeOK
  <2>2. Min(Proven) \in Proven
    BY <1>2, <2>1, MinOfNat
  <2>3. Min(Proven) \in Endpoints /\ Fingerprint(Min(Proven)) # 0
    BY <2>2, Zenon DEF Proven, PoolTypeOK
  <2>4. Adopted(id) = Fingerprint(Min(Proven))
    BY <1>2, Zenon DEF Adopted
  <2>5. Fingerprint(Min(Proven)) \in Chains
    BY <2>3, FingerprintType, Zenon
  <2> QED BY <2>3, <2>4, <2>5, Zenon
<1> QED BY <1>1, <1>2

\* The verdict of a probe agrees with the identity it goes by.
LEMMA ProbeAgrees ==
  ASSUME PoolTypeOK, NEW id \in Chains
  PROVE  LET new == Adopted(id)
             won == Pick(Eligible(new))
         IN  /\ won \in {0} \union Endpoints
             /\ won # 0 => Fingerprint(won) \in {0, new}
<1> DEFINE new == Adopted(id)
           won == Pick(Eligible(new))
<1>1. Eligible(new) \in SUBSET Endpoints
  BY DEF Eligible, PoolTypeOK
<1>2. tip \in [Endpoints -> 0..MaxTip]
  BY DEF PoolTypeOK
<1>3. won = 0 \/ won \in Eligible(new)
  <2> HIDE DEF new
  <2> QED BY <1>1, <1>2, PickIsOne, Zenon
<1>4. new = 0 => Proven = {}
  BY AdoptedIs
<1> HIDE DEF new, won
<1>5. /\ won \in {0} \union Endpoints
      /\ won # 0 => Fingerprint(won) \in {0, new}
  <2>1. CASE won = 0
    BY <2>1
  <2>2. CASE won \in Eligible(new)
    <3>1. won \in up /\ (new = 0 \/ Fingerprint(won) \in {0, new})
      BY <2>2 DEF Eligible
    <3>2. new = 0 => Fingerprint(won) = 0
      BY <1>4, <3>1 DEF Proven
    <3>3. won \in Endpoints
      BY <1>1, <2>2
    <3> QED BY <3>1, <3>2, <3>3
  <2> QED BY <1>3, <2>1, <2>2
<1> QED BY <1>5 DEF new, won

-----------------------------------------------------------------------------
LEMMA PoolInitInv == PoolInit => PoolInv
<1> SUFFICES ASSUME PoolInit PROVE PoolInv
  OBVIOUS
<1> USE EndpointPoolAssumption DEF PoolInit
<1>1. fresh \in BOOLEAN /\ open \in BOOLEAN
  OBVIOUS
<1>2. 1 \in Endpoints
  BY DEF Endpoints
<1>3. PoolTypeOK
  BY <1>1, <1>2 DEF PoolTypeOK, PoolSteps
<1>4. VerdictAgrees
  BY DEF VerdictAgrees
<1> QED BY <1>3, <1>4 DEF PoolInv

\* The endpoints and the clock touch no query.
LEMMA OutsideInv ==
  ASSUME PoolInv, (\E e \in Endpoints : Index(e) \/ Flap(e)) \/ ProbeExpires \/ Cooldown
  PROVE  PoolInv'
<1> USE EndpointPoolAssumption DEF Index, Flap, ProbeExpires, Cooldown, net, pool, brk, probe
<1>1. /\ tip' \in [Endpoints -> 0..MaxTip] /\ up' \subseteq Endpoints
      /\ poolFaults' \in 0..MaxPoolFaults
  <2>1. tip' \in [Endpoints -> 0..MaxTip]
    <3>1. CASE \E e \in Endpoints : Index(e)
      <4>1. PICK e \in Endpoints : tip[e] < MaxTip /\ tip' = [tip EXCEPT ![e] = @ + 1]
        BY <3>1
      <4>2. tip[e] + 1 \in 0..MaxTip
        BY <4>1 DEF PoolInv, PoolTypeOK
      <4> QED BY <4>1, <4>2 DEF PoolInv, PoolTypeOK
    <3> QED BY <3>1 DEF PoolInv, PoolTypeOK
  <2>2. up' \subseteq Endpoints
    BY DEF PoolInv, PoolTypeOK
  <2>3. poolFaults' \in 0..MaxPoolFaults
    BY DEF PoolInv, PoolTypeOK
  <2> QED BY <2>1, <2>2, <2>3
<1>2. UNCHANGED <<active, identity, failures, poolStep, known, chosen, sentTo>>
  OBVIOUS
<1>3. fresh' \in BOOLEAN /\ open' \in BOOLEAN
  BY Zenon DEF PoolInv, PoolTypeOK
<1>4. PoolTypeOK'
  BY <1>1, <1>2, <1>3 DEF PoolInv, PoolTypeOK
<1>5. VerdictAgrees'
  BY <1>2 DEF PoolInv, VerdictAgrees, Fingerprint
<1> QED BY <1>4, <1>5 DEF PoolInv

\* A query that goes on leaves the verdicts of the others alone.
LEMMA PoolGoesOn ==
  ASSUME PoolInv, NEW q \in Queries, NEW step \in PoolSteps \ {"choose"}, Goto(q, step),
         \A p \in Queries \ {q} : known'[p] = known[p] /\ chosen'[p] = chosen[p]
  PROVE  poolStep' \in [Queries -> PoolSteps] /\ VerdictAgrees'
<1>1. poolStep' \in [Queries -> PoolSteps]
  BY DEF Goto, PoolInv, PoolTypeOK
<1>2. poolStep'[q] = step /\ \A p \in Queries \ {q} : poolStep'[p] = poolStep[p]
  BY DEF Goto, PoolInv, PoolTypeOK
<1>3. VerdictAgrees'
  BY <1>2 DEF VerdictAgrees, Fingerprint, PoolInv
<1> QED BY <1>1, <1>3

LEMMA StartQueryInv ==
  ASSUME PoolInv, NEW q \in Queries, StartQuery(q)
  PROVE  PoolInv'
<1>1. known' \in [Queries -> Chains]
  BY DEF StartQuery, PoolInv, PoolTypeOK, Chains
<1>2. \A p \in Queries \ {q} : known'[p] = known[p] /\ chosen'[p] = chosen[p]
  BY DEF StartQuery, PoolInv, PoolTypeOK
<1>3. Goto(q, "send") \/ Goto(q, "probe")
  BY DEF StartQuery
<1>4. poolStep' \in [Queries -> PoolSteps] /\ VerdictAgrees'
  BY <1>2, <1>3, PoolGoesOn DEF PoolSteps
<1>5. fresh' \in BOOLEAN
  BY Zenon DEF StartQuery, PoolInv, PoolTypeOK
<1>6. UNCHANGED <<tip, up, poolFaults, active, identity, failures, open, chosen, sentTo>>
  BY DEF StartQuery, net, brk
<1>7. PoolTypeOK'
  BY <1>1, <1>4, <1>5, <1>6, Zenon DEF PoolInv, PoolTypeOK, Chains
<1> QED BY <1>4, <1>7 DEF PoolInv

LEMMA ProbeInv ==
  ASSUME PoolInv, NEW q \in Queries, Probe(q)
  PROVE  PoolInv'
<1> DEFINE new == Adopted(known[q])
           won == Pick(Eligible(new))
<1>1. known[q] \in Chains /\ PoolTypeOK
  BY DEF PoolInv, PoolTypeOK, Chains
<1>2. new \in Chains
  BY <1>1, AdoptedIs
<1>3. won \in {0} \union Endpoints /\ (won # 0 => Fingerprint(won) \in {0, new})
  BY <1>1, ProbeAgrees
<1>4. known' = [known EXCEPT ![q] = new]
  BY DEF Probe
<1>5. known'[q] = new
  BY <1>4 DEF PoolInv, PoolTypeOK
<1>6. chosen' = [chosen EXCEPT ![q] = won]
  BY <1>5 DEF Probe
<1> HIDE DEF new, won
<1>7. known' \in [Queries -> Chains] /\ chosen' \in [Queries -> {0} \union Endpoints]
  BY <1>2, <1>3, <1>4, <1>6 DEF PoolInv, PoolTypeOK, Chains
<1>8. poolStep' = [poolStep EXCEPT ![q] = "choose"]
  BY DEF Probe, Goto
<1>9. poolStep' \in [Queries -> PoolSteps]
  BY <1>8 DEF PoolInv, PoolTypeOK, PoolSteps
<1>10. UNCHANGED <<tip, up, poolFaults, active, fresh, identity, failures, open, sentTo>>
  BY DEF Probe, net, pool, brk
<1>11. PoolTypeOK'
  BY <1>7, <1>9, <1>10, Zenon DEF PoolInv, PoolTypeOK, Chains
<1>12. VerdictAgrees'
  <2> SUFFICES ASSUME NEW p \in Queries, poolStep'[p] = "choose", chosen'[p] # 0
               PROVE  Fingerprint(chosen'[p]) \in {0, known'[p]}
    BY DEF VerdictAgrees, Fingerprint
  <2>1. CASE p = q
    <3>1. chosen'[p] = won /\ known'[p] = new
      BY <1>5, <1>6, <2>1 DEF PoolInv, PoolTypeOK
    <3> QED BY <1>3, <3>1
  <2>2. CASE p # q
    <3>1. chosen'[p] = chosen[p] /\ known'[p] = known[p] /\ poolStep'[p] = poolStep[p]
      BY <1>4, <1>6, <1>8, <2>2 DEF PoolInv, PoolTypeOK
    <3> QED BY <3>1 DEF PoolInv, VerdictAgrees
  <2> QED BY <2>1, <2>2
<1> QED BY <1>11, <1>12 DEF PoolInv

LEMMA ChooseInv ==
  ASSUME PoolInv, NEW q \in Queries, Choose(q)
  PROVE  PoolInv'
<1>1. active' \in Endpoints /\ identity' \in Chains
  BY DEF Choose, PoolInv, PoolTypeOK, Chains
<1>2. known' \in [Queries -> Chains] /\ chosen' \in [Queries -> {0} \union Endpoints]
  BY DEF Choose, PoolInv, PoolTypeOK, Chains
<1>3. \A p \in Queries \ {q} : known'[p] = known[p] /\ chosen'[p] = chosen[p]
  BY DEF Choose, PoolInv, PoolTypeOK
<1>4. poolStep' \in [Queries -> PoolSteps] /\ VerdictAgrees'
  BY <1>3, PoolGoesOn DEF Choose, PoolSteps
<1>5. UNCHANGED <<tip, up, poolFaults, fresh, failures, open, sentTo>>
  BY DEF Choose, net, brk
<1>6. PoolTypeOK'
  BY <1>1, <1>2, <1>4, <1>5, Zenon DEF PoolInv, PoolTypeOK, Chains
<1> QED BY <1>4, <1>6 DEF PoolInv

\* A query that is sent, answered, given up or failed over.
LEMMA AttemptInv ==
  ASSUME PoolInv, NEW q \in Queries,
         \/ Send(q) \/ Answered(q) \/ Unrecorded(q) \/ Refused(q) \/ FailOver(q) \/ GivesUp(q)
  PROVE  PoolInv'
<1> USE EndpointPoolAssumption
        DEF Send, Answered, Unrecorded, Refused, FailOver, GivesUp, net, pool, brk, probe
<1>1. \E step \in PoolSteps \ {"choose"} : Goto(q, step)
  BY DEF PoolSteps
<1>2. UNCHANGED <<tip, up, identity, known, chosen>>
  OBVIOUS
<1>3. poolStep' \in [Queries -> PoolSteps] /\ VerdictAgrees'
  BY <1>1, <1>2, PoolGoesOn
<1>4. 1 \in Endpoints /\ NextUrl(active) \in Endpoints
  BY DEF NextUrl, Endpoints
<1>5. active' \in Endpoints /\ sentTo' \in [Queries -> Endpoints]
  BY <1>4 DEF PoolInv, PoolTypeOK
<1>6. poolFaults' \in 0..MaxPoolFaults
  BY DEF PoolInv, PoolTypeOK
<1>7. failures' \in 0..Threshold
  BY DEF RecordSuccess, RecordFailure, PoolInv, PoolTypeOK
<1>8. fresh' \in BOOLEAN /\ open' \in BOOLEAN
  BY Zenon DEF RecordSuccess, RecordFailure, PoolInv, PoolTypeOK
<1>9. PoolTypeOK'
  BY <1>2, <1>3, <1>5, <1>6, <1>7, <1>8, Zenon DEF PoolInv, PoolTypeOK
<1> QED BY <1>3, <1>9 DEF PoolInv

LEMMA PoolStepInv == PoolInv /\ [PoolNext]_poolVars => PoolInv'
<1> SUFFICES ASSUME PoolInv, [PoolNext]_poolVars PROVE PoolInv'
  OBVIOUS
<1>1. CASE (\E e \in Endpoints : Index(e) \/ Flap(e)) \/ ProbeExpires \/ Cooldown
  BY <1>1, OutsideInv
<1>2. ASSUME NEW q \in Queries, PoolQueryStep(q) \/ Unrecorded(q) \/ Refused(q)
      PROVE  PoolInv'
  BY <1>2, StartQueryInv, ProbeInv, ChooseInv, AttemptInv DEF PoolQueryStep
<1>3. CASE UNCHANGED poolVars
  BY <1>3 DEF poolVars, net, pool, brk, probe, PoolInv, PoolTypeOK, VerdictAgrees, Fingerprint
<1> QED BY <1>1, <1>2, <1>3 DEF PoolNext

\* The types hold for any pool, any chains its members serve, and any number of
\* queries and faults.
THEOREM PoolTypes == PoolSafety => []PoolTypeOK
<1>1. PoolInv => PoolTypeOK
  BY DEF PoolInv
<1> QED BY <1>1, PoolInitInv, PoolStepInv, PTL DEF PoolSafety

-----------------------------------------------------------------------------
\* A query that goes on, to anything but the writing of a verdict, with the
\* identity in its hands that a settled pool has.
LEMMA SettledGoesOn ==
  ASSUME PoolInv, PoolSettled, NEW q \in Queries, NEW step \in PoolSteps, Goto(q, step),
         identity' = identity,
         \A p \in Queries \ {q} : known'[p] = known[p],
         step = "probe" => known'[q] = identity,
         step = "choose" => known'[q] \in {0, identity}
  PROVE  PoolSettled'
<1>1. poolStep'[q] = step /\ \A p \in Queries \ {q} : poolStep'[p] = poolStep[p]
  BY DEF Goto, PoolInv, PoolTypeOK
<1> QED BY <1>1 DEF PoolSettled

\* The identity in the hands of every query but one that probes is settled, or of
\* no consequence.
LEMMA SettledStays ==
  ASSUME PoolInv, [PoolNext]_poolVars, PoolSettled
  PROVE  PoolSettled' /\ identity' = identity
<1> USE DEF net, pool, brk, probe
<1>1. CASE UNCHANGED <<identity, poolStep, known>>
  BY <1>1 DEF PoolSettled
<1>2. ASSUME NEW q \in Queries, StartQuery(q)
      PROVE  PoolSettled' /\ identity' = identity
  <2>1. identity' = identity /\ \A p \in Queries \ {q} : known'[p] = known[p]
    BY <1>2 DEF StartQuery, PoolInv, PoolTypeOK
  <2>2. \/ Goto(q, "send")
        \/ Goto(q, "probe") /\ known'[q] = identity
    BY <1>2 DEF StartQuery, PoolInv, PoolTypeOK
  <2>3. "send" \in PoolSteps /\ "probe" \in PoolSteps
    BY DEF PoolSteps
  <2> QED BY <2>1, <2>2, <2>3, SettledGoesOn
<1>3. ASSUME NEW q \in Queries, Probe(q)
      PROVE  PoolSettled' /\ identity' = identity
  <2>1. known[q] = identity /\ identity # 0
    BY <1>3 DEF Probe, PoolSettled
  <2>2. known' = [known EXCEPT ![q] = identity]
    BY <1>3, <2>1 DEF Probe, Adopted
  <2>3. identity' = identity /\ Goto(q, "choose") /\ "choose" \in PoolSteps
    BY <1>3 DEF Probe, PoolSteps
  <2>4. known'[q] = identity /\ \A p \in Queries \ {q} : known'[p] = known[p]
    BY <2>2 DEF PoolInv, PoolTypeOK
  <2> QED BY <2>3, <2>4, SettledGoesOn
<1>4. ASSUME NEW q \in Queries, Choose(q)
      PROVE  PoolSettled' /\ identity' = identity
  <2>1. known[q] \in {0, identity}
    BY <1>4 DEF Choose, PoolSettled
  <2>2. identity' = identity
    BY <1>4, <2>1 DEF Choose
  <2>3. Goto(q, "send") /\ "send" \in PoolSteps
    BY <1>4 DEF Choose, PoolSteps
  <2>4. \A p \in Queries \ {q} : known'[p] = known[p]
    BY <1>4 DEF Choose, PoolInv, PoolTypeOK
  <2> QED BY <2>2, <2>3, <2>4, SettledGoesOn
<1>5. ASSUME NEW q \in Queries,
             \/ Send(q) \/ Answered(q) \/ Unrecorded(q) \/ Refused(q) \/ FailOver(q) \/ GivesUp(q)
      PROVE  PoolSettled' /\ identity' = identity
  <2>1. UNCHANGED <<identity, known>>
    BY <1>5 DEF Send, Answered, Unrecorded, Refused, FailOver, GivesUp
  <2>2. PICK step \in {"wait", "idle", "retry"} : Goto(q, step)
    BY <1>5 DEF Send, Answered, Unrecorded, Refused, FailOver, GivesUp
  <2>3. step \in PoolSteps /\ step # "probe" /\ step # "choose"
    BY DEF PoolSteps
  <2> QED BY <2>1, <2>2, <2>3, SettledGoesOn
<1>6. CASE (\E e \in Endpoints : Index(e) \/ Flap(e)) \/ ProbeExpires \/ Cooldown
  BY <1>1, <1>6 DEF Index, Flap, ProbeExpires, Cooldown
<1>7. CASE UNCHANGED poolVars
  BY <1>1, <1>7 DEF poolVars
<1> QED BY <1>2, <1>3, <1>4, <1>5, <1>6, <1>7 DEF PoolNext, PoolQueryStep

\* Only the step that writes a verdict leads from "choose" to "send".
LEMMA VerdictKept ==
  ASSUME PoolInv, [PoolNext]_poolVars, PoolSettled, NEW q \in Queries,
         poolStep[q] = "choose", poolStep'[q] = "send", chosen[q] # 0
  PROVE  Fingerprint(active') \in {0, identity}
<1>1. Choose(q)
  <2>1. ASSUME NEW p \in Queries, p # q, NEW step, Goto(p, step)
        PROVE  FALSE
    BY <2>1 DEF Goto, PoolInv, PoolTypeOK
  <2>2. poolStep' # poolStep
    BY DEF PoolInv
  <2>3. PICK p \in Queries : PoolQueryStep(p) \/ Unrecorded(p) \/ Refused(p)
    BY <2>2 DEF PoolNext, Index, Flap, ProbeExpires, Cooldown, poolVars
  <2>4. \E step \in PoolSteps : Goto(p, step)
    BY <2>3 DEF PoolQueryStep, Unrecorded, Refused, StartQuery, Probe, Choose, Send, Answered,
                FailOver, GivesUp, PoolSteps
  <2>5. p = q
    BY <2>1, <2>4
  <2> QED BY <2>3, <2>5 DEF PoolQueryStep, Unrecorded, Refused, StartQuery, Probe, Send,
                            Answered, FailOver, GivesUp
<1>2. active' = chosen[q]
  BY <1>1 DEF Choose
<1>3. Fingerprint(chosen[q]) \in {0, known[q]}
  BY DEF PoolInv, VerdictAgrees
<1>4. known[q] \in {0, identity}
  BY DEF PoolSettled
<1> QED BY <1>2, <1>3, <1>4

\* A pool whose identity was adopted stays on that chain: from the moment every
\* probe in flight began with it, no probe of selectEndpoint redefines it or
\* selects a member that shows another, for any pool and however many queries
\* probe at once.
THEOREM PoolStays == PoolSafety => PoolStaysOnChain
<1>1. PoolInv /\ [PoolNext]_poolVars
        => [PoolSettled =>
              /\ PoolSettled' /\ identity' = identity
              /\ \A q \in Queries :
                   poolStep[q] = "choose" /\ poolStep'[q] = "send" /\ chosen[q] # 0
                     => Fingerprint(active') \in {0, identity}]_poolVars
  BY SettledStays, VerdictKept
<1> QED BY <1>1, PoolInitInv, PoolStepInv, PTL DEF PoolSafety, PoolStaysOnChain
=============================================================================
