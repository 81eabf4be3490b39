----------------------------- MODULE EndpointPool -----------------------------
(***************************************************************************)
(* The indexer client of one network (pkg/indexer, Client): a pool of      *)
(* endpoints in the operator's order, the breaker in front of it, and the  *)
(* queries that share both.  selectEndpoint re-picks every couple of       *)
(* minutes, by probing every endpoint for its tip and for the fingerprint  *)
(* of its block 1; failOver moves on when an endpoint cannot be reached.   *)
(* The client's mutex is held only to read or write its fields, never over *)
(* a request, so queries interleave between a probe and what it decides.   *)
(*                                                                         *)
(* Time is what the code compares it with: "fresh" until the probe         *)
(* interval has passed, "open" until the breaker's cooldown has.           *)
(***************************************************************************)
EXTENDS Integers, FiniteSetsExt

CONSTANTS
  Queries,      \* callers with one query in flight at a time
  N,            \* how many urls are configured
  ChainOf,      \* the chain each endpoint serves
  Unproven,     \* endpoints that have no block 1 to show
  EndpointLead, \* endpointLead
  Threshold,    \* clientBreakerThreshold
  MaxTip,       \* bound: endpoints stop indexing here
  MaxPoolFaults \* bound: outages, recoveries and refused queries together

ASSUME EndpointPoolAssumption ==
  /\ N \in Nat \ {0}
  /\ ChainOf \in [1..N -> Nat \ {0}]
  /\ Unproven \subseteq 1..N
  /\ EndpointLead \in Nat
  /\ Threshold \in Nat \ {0}
  /\ MaxTip \in Nat
  /\ MaxPoolFaults \in Nat

VARIABLES
  tip,        \* latestBlockHeight of each endpoint
  up,         \* the endpoints that can be reached
  poolFaults, \* faults so far
  active,     \* c.active
  fresh,      \* time.Since(c.lastProbe) < endpointProbeInterval
  identity,   \* c.fingerprint, 0 for ""
  failures,   \* c.failures, counted up to the threshold
  open,       \* time.Now().Before(c.skipUntil)
  poolStep,   \* where each query is
  known,      \* selectEndpoint's known
  chosen,     \* selectEndpoint's chosen, 0 for none
  sentTo      \* the endpoint a query was sent to

net   == <<tip, up, poolFaults>>
pool  == <<active, fresh, identity>>
brk   == <<failures, open>>
probe == <<known, chosen>>
poolVars  == <<net, pool, brk, poolStep, probe, sentTo>>

\* The urls in the operator's order.
Endpoints == 1..N

PoolSteps == {"idle", "probe", "choose", "send", "wait", "retry"}

Fingerprint(e) == IF e \in Unproven THEN 0 ELSE ChainOf[e]

Proven == {e \in up : Fingerprint(e) # 0}

\* Mutant: an identity is adopted whether or not the pool has one.
AdoptedAnew(id) == IF Proven = {} THEN id ELSE Fingerprint(Min(Proven))

\* The identity a probe goes by: the pool's, or the first endpoint's that can
\* prove one.
Adopted(id) ==
  IF id # 0 \/ Proven = {} THEN id ELSE Fingerprint(Min(Proven))

\* Reachable endpoints that do not disagree.
Eligible(id) == {e \in up : id = 0 \/ Fingerprint(e) \in {0, id}}

\* The earliest endpoint within the lead of the furthest one.
Pick(es) ==
  IF es = {} THEN 0
  ELSE Min({e \in es : \A f \in es : tip[e] >= tip[f] - EndpointLead})

Goto(q, step) == poolStep' = [poolStep EXCEPT ![q] = step]

-----------------------------------------------------------------------------
PoolInit ==
  /\ tip = [e \in Endpoints |-> 0]
  /\ up = Endpoints
  /\ poolFaults = 0
  /\ active = 1
  /\ fresh = FALSE
  /\ identity = 0
  /\ failures = 0
  /\ open = FALSE
  /\ poolStep = [q \in Queries |-> "idle"]
  /\ known = [q \in Queries |-> 0]
  /\ chosen = [q \in Queries |-> 0]
  /\ sentTo = [q \in Queries |-> 1]

\* ---- The endpoints and the clock ----

Index(e) ==
  /\ tip[e] < MaxTip
  /\ tip' = [tip EXCEPT ![e] = @ + 1]
  /\ UNCHANGED <<up, poolFaults, pool, brk, poolStep, probe, sentTo>>

Flap(e) ==
  /\ poolFaults < MaxPoolFaults
  /\ poolFaults' = poolFaults + 1
  /\ up' = IF e \in up THEN up \ {e} ELSE up \union {e}
  /\ UNCHANGED <<tip, pool, brk, poolStep, probe, sentTo>>

ProbeExpires ==
  /\ fresh
  /\ fresh' = FALSE
  /\ UNCHANGED <<net, active, identity, brk, poolStep, probe, sentTo>>

Cooldown ==
  /\ open
  /\ open' = FALSE
  /\ UNCHANGED <<net, pool, failures, poolStep, probe, sentTo>>

\* ---- query: the breaker, then selectEndpoint ----

\* Mutant: a pool that has an identity never probes again.
StartProbingOnce(q) ==
  /\ poolStep[q] = "idle"
  /\ ~open
  /\ IF N < 2 \/ fresh \/ identity # 0
     THEN Goto(q, "send") /\ UNCHANGED <<fresh, known>>
     ELSE Goto(q, "probe") /\ fresh' = TRUE /\ UNCHANGED known
  /\ UNCHANGED <<net, active, identity, brk, chosen, sentTo>>

\* An open breaker refuses the query at once, which changes nothing.
StartQuery(q) ==
  /\ poolStep[q] = "idle"
  /\ ~open
  /\ IF N < 2 \/ fresh
     THEN Goto(q, "send") /\ UNCHANGED <<fresh, known>>
     ELSE /\ Goto(q, "probe")
          /\ fresh' = TRUE
          /\ known' = [known EXCEPT ![q] = identity]
  /\ UNCHANGED <<net, active, identity, brk, chosen, sentTo>>

\* The answers of all endpoints, and what follows from them.
Probe(q) ==
  /\ poolStep[q] = "probe"
  /\ known' = [known EXCEPT ![q] = Adopted(@)]
  /\ chosen' = [chosen EXCEPT ![q] = Pick(Eligible(known'[q]))]
  /\ Goto(q, "choose")
  /\ UNCHANGED <<net, pool, brk, sentTo>>

\* The verdict is written under the mutex; no endpoint, nothing written.
Choose(q) ==
  /\ poolStep[q] = "choose"
  /\ IF chosen[q] = 0
     THEN UNCHANGED <<active, identity>>
     ELSE /\ active' = chosen[q]
          /\ identity' = IF known[q] # 0 THEN known[q] ELSE identity
  /\ known' = [known EXCEPT ![q] = 0]
  /\ chosen' = [chosen EXCEPT ![q] = 0]
  /\ Goto(q, "send")
  /\ UNCHANGED <<net, fresh, brk, sentTo>>

Send(q) ==
  /\ poolStep[q] = "send"
  /\ sentTo' = [sentTo EXCEPT ![q] = active]
  /\ Goto(q, "wait")
  /\ UNCHANGED <<net, pool, brk, probe>>

\* ---- The answer ----

\* recordResult.
RecordSuccess ==
  /\ failures' = 0
  /\ open' = FALSE

RecordFailure ==
  /\ failures' = IF failures < Threshold THEN failures + 1 ELSE failures
  /\ open' = (open \/ failures' >= Threshold)

\* Mutant: the last endpoint has a successor too.
Following(e) == e + 1

\* The next url, around the list.
NextUrl(e) == IF e + 1 \in Endpoints THEN e + 1 ELSE 1

Answered(q) ==
  /\ poolStep[q] \in {"wait", "retry"}
  /\ sentTo[q] \in up
  /\ RecordSuccess
  /\ Goto(q, "idle")
  /\ sentTo' = [sentTo EXCEPT ![q] = 1]
  /\ UNCHANGED <<net, pool, probe>>

\* A miss, a capped page or a caller that gave up: nothing is recorded.
Unrecorded(q) ==
  /\ poolStep[q] \in {"wait", "retry"}
  /\ poolFaults < MaxPoolFaults
  /\ poolFaults' = poolFaults + 1
  /\ Goto(q, "idle")
  /\ sentTo' = [sentTo EXCEPT ![q] = 1]
  /\ UNCHANGED <<tip, up, pool, brk, probe>>

\* A GraphQL error is an answer, so nothing is retried, but it counts.
Refused(q) ==
  /\ poolStep[q] \in {"wait", "retry"}
  /\ sentTo[q] \in up
  /\ poolFaults < MaxPoolFaults
  /\ poolFaults' = poolFaults + 1
  /\ RecordFailure
  /\ Goto(q, "idle")
  /\ sentTo' = [sentTo EXCEPT ![q] = 1]
  /\ UNCHANGED <<tip, up, pool, probe>>

\* failOver: on from wherever the pool is by now, and the next query probes.
FailOver(q) ==
  /\ poolStep[q] = "wait"
  /\ sentTo[q] \notin up
  /\ N >= 2
  /\ active' = NextUrl(active)
  /\ fresh' = FALSE
  /\ sentTo' = [sentTo EXCEPT ![q] = active']
  /\ Goto(q, "retry")
  /\ UNCHANGED <<net, identity, brk, probe>>

\* The second attempt failed, or there was nobody to make it with.
GivesUp(q) ==
  /\ poolStep[q] = "retry" \/ (poolStep[q] = "wait" /\ N < 2)
  /\ sentTo[q] \notin up
  /\ RecordFailure
  /\ Goto(q, "idle")
  /\ sentTo' = [sentTo EXCEPT ![q] = 1]
  /\ UNCHANGED <<net, pool, probe>>

-----------------------------------------------------------------------------
PoolQueryStep(q) ==
  \/ StartQuery(q) \/ Probe(q) \/ Choose(q) \/ Send(q)
  \/ Answered(q) \/ FailOver(q) \/ GivesUp(q)

PoolNext ==
  \/ \E e \in Endpoints : Index(e) \/ Flap(e)
  \/ ProbeExpires \/ Cooldown
  \/ \E q \in Queries : PoolQueryStep(q) \/ Unrecorded(q) \/ Refused(q)

PoolSafety == PoolInit /\ [][PoolNext]_poolVars

\* Every request ends, by its timeout if nothing else; callers keep asking
\* (the sync loop does); time passes.
PoolSpec ==
  /\ PoolSafety
  /\ WF_poolVars(ProbeExpires) /\ WF_poolVars(Cooldown)
  /\ \A q \in Queries : WF_poolVars(PoolQueryStep(q))
-----------------------------------------------------------------------------
(***************************************************************************)
(* Properties.                                                             *)
(***************************************************************************)
PoolTypeOK ==
  /\ tip \in [Endpoints -> 0..MaxTip]
  /\ up \subseteq Endpoints
  /\ poolFaults \in 0..MaxPoolFaults
  /\ active \in Endpoints
  /\ fresh \in BOOLEAN
  /\ identity \in {0} \union {ChainOf[e] : e \in Endpoints}
  /\ failures \in 0..Threshold
  /\ open \in BOOLEAN
  /\ poolStep \in [Queries -> PoolSteps]
  /\ known \in [Queries -> {0} \union {ChainOf[e] : e \in Endpoints}]
  /\ chosen \in [Queries -> {0} \union Endpoints]
  /\ sentTo \in [Queries -> Endpoints]

\* The pool has an identity, and no probe that began without one is still out:
\* whatever is in flight goes by the identity the pool has.
PoolSettled ==
  /\ identity # 0
  /\ \A q \in Queries :
       /\ poolStep[q] = "probe" => known[q] = identity
       /\ poolStep[q] = "choose" => known[q] \in {0, identity}

\* From then on the identity is fixed, as the comment in selectEndpoint wants it:
\* no probe redefines the pool, whatever endpoints come and go while its answers
\* are on their way and however many probes overlap, and none selects a member
\* that shows another chain.  Before that the comment does not hold: of two
\* probes that both began while there was no identity, the later to be written
\* redefines it.
PoolStaysOnChain ==
  [][PoolSettled =>
       /\ PoolSettled' /\ identity' = identity
       /\ \A q \in Queries :
            poolStep[q] = "choose" /\ poolStep'[q] = "send" /\ chosen[q] # 0
              => Fingerprint(active') \in {0, identity}]_poolVars

\* Once outages end, the pool keeps coming back to the first configured
\* endpoint that keeps up with the chain it follows: a stalled or dead one
\* never holds it, and neither does an open breaker. It need not stay
\* there: two callers that keep overlapping can each move it with a failOver
\* while an endpoint is dead, and the probe that follows brings it back.
Usable == Eligible(identity)
ComesBack ==
  []<>(Usable = {} \/ identity = 0 \/ (active = Pick(Usable) /\ ~open))

\* Members that disagree with the pool's fingerprint are never selected, as
\* the comments on fingerprint and on selectEndpoint say. failOver selects the
\* next member without asking.
PoolChainOnly ==
  [][active' # active /\ identity' # 0 => Fingerprint(active') \in {0, identity'}]_poolVars
=============================================================================
