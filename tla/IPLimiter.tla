------------------------------ MODULE IPLimiter ------------------------------
(***************************************************************************)
(* The per-address limiter of the MCP endpoint (pkg/httpapi/ratelimit.go): *)
(* buckets made on demand, refilled when they are asked, and swept away    *)
(* from the request path when nobody has used them for a while.            *)
(*                                                                         *)
(* A tick is a second and a minute is Cost of them, so that the allowance, *)
(* in units of which a second gains Rate and a request costs Cost, stays   *)
(* whole where the code has fractions: Rate is perMinute.                  *)
(***************************************************************************)
EXTENDS Integers, FiniteSets

CONSTANTS
  Addresses,   \* client addresses
  Requests,    \* requests that can be under way
  Rate,        \* l.perMinute: the units gained per tick
  Cost,        \* units one request costs, and the ticks of a minute
  Cap,         \* the allowance of a full bucket: perMinute requests
  Concurrent,  \* l.concurrent
  BucketTTL,   \* ipBucketTTL, in ticks
  SweepEvery,  \* the time between two sweeps, in ticks
  MaxTicks     \* bound: how far the clock runs

\* A bucket outlives its refill window ("Longer than any refill window").
ASSUME LimiterAssumption ==
  /\ Addresses # {} /\ IsFiniteSet(Requests)
  /\ Rate \in Nat \ {0} /\ Cost \in Nat \ {0} /\ Concurrent \in Nat \ {0}
  /\ Cap \in Nat /\ BucketTTL \in Nat /\ SweepEvery \in Nat /\ MaxTicks \in Nat
  /\ BucketTTL * Rate >= Cap
  /\ Cost <= Cap

VARIABLES
  ticks,      \* l.now()
  lastSweep,  \* l.lastSweep
  buckets,    \* l.buckets: [made, tokens, refilled, inFlight, seen] of each address
  request,    \* each request: [at, addr, owned], owned while its bucket is in the map
  answer      \* what the last request was told: [ok, wait]

limiterVars == <<ticks, lastSweep, buckets, request, answer>>

NoRequest == [at |-> "idle", addr |-> CHOOSE a \in Addresses : TRUE, owned |-> FALSE]

Gone == [made |-> FALSE, tokens |-> 0, refilled |-> 0, inFlight |-> 0, seen |-> 0]

Silent == [ok |-> TRUE, wait |-> 0]

-----------------------------------------------------------------------------
\* NewIPLimiter.
LimiterInit ==
  /\ ticks = 0
  /\ lastSweep = 0 - SweepEvery
  /\ buckets = [a \in Addresses |-> Gone]
  /\ request = [r \in Requests |-> NoRequest]
  /\ answer = Silent

LimiterTick ==
  /\ ticks < MaxTicks
  /\ ticks' = ticks + 1
  /\ answer' = Silent
  /\ UNCHANGED <<lastSweep, buckets, request>>

\* Mutant: a bucket is dropped while a request of it runs.
SweptIgnoringFlight(a) == buckets[a].made /\ ticks - buckets[a].seen > BucketTTL

\* sweepLocked: which buckets a sweep drops.
Swept(a) ==
  /\ buckets[a].made
  /\ buckets[a].inFlight = 0
  /\ ticks - buckets[a].seen > BucketTTL

SweepDue == ticks - lastSweep >= SweepEvery

AfterSweep(a) == IF SweepDue /\ Swept(a) THEN Gone ELSE buckets[a]

\* The bucket as the refill leaves it: found or made, seen, and topped up.
Refilled(a) ==
  LET b == IF AfterSweep(a).made THEN AfterSweep(a)
           ELSE [made |-> TRUE, tokens |-> Cap, refilled |-> ticks,
                 inFlight |-> 0, seen |-> ticks]
      units == b.tokens + (ticks - b.refilled) * Rate
  IN [b EXCEPT !.tokens = IF units > Cap THEN Cap ELSE units,
               !.refilled = ticks, !.seen = ticks]

\* Mutant: the wait is cut to whole ticks and not rounded up.
WaitRoundedDown(tokens) == (Cost - tokens) \div Rate

\* The Retry-After of a refusal for rate: one more than the time that is
\* missing, cut to whole ticks.
Wait(tokens) == (Cost - tokens) \div Rate + 1

\* Mutant: the token is spent before concurrency is looked at.
ChargedAlways(b) == [b EXCEPT !.tokens = @ - Cost]

\* What a request refused for concurrency leaves: nothing is consumed.
Early(b) == b

\* Acquire, under the lock.
Acquire(r, a) ==
  /\ request[r].at = "idle"
  /\ lastSweep' = IF SweepDue THEN ticks ELSE lastSweep
  /\ LET b == Refilled(a)
         now == [x \in Addresses |-> AfterSweep(x)]
         admitted == b.tokens >= Cost /\ b.inFlight < Concurrent
     IN /\ buckets' = [now EXCEPT ![a] =
              IF b.tokens < Cost THEN b
              ELSE IF b.inFlight >= Concurrent THEN Early(b)
              ELSE [b EXCEPT !.tokens = @ - Cost, !.inFlight = @ + 1]]
        /\ answer' = IF admitted THEN Silent
                     ELSE [ok |-> FALSE, wait |-> IF b.tokens < Cost THEN Wait(b.tokens) ELSE 1]
        /\ request' = [x \in Requests |->
              IF x = r /\ admitted THEN [at |-> "running", addr |-> a, owned |-> TRUE]
              ELSE IF request[x].at = "running" /\ ~now[request[x].addr].made
              THEN [request[x] EXCEPT !.owned = FALSE] ELSE request[x]]
  /\ UNCHANGED ticks

\* The deferred release, once: it holds the bucket it was charged to, which may
\* not be the one in the map any more.
Release(r) ==
  /\ request[r].at = "running"
  /\ request' = [request EXCEPT ![r] = NoRequest]
  /\ buckets' = [buckets EXCEPT ![request[r].addr].inFlight =
                   IF request[r].owned /\ @ > 0 THEN @ - 1 ELSE @]
  /\ answer' = Silent
  /\ UNCHANGED <<ticks, lastSweep>>

-----------------------------------------------------------------------------
LimiterNext ==
  \/ LimiterTick
  \/ \E r \in Requests : Release(r) \/ \E a \in Addresses : Acquire(r, a)

LimiterSpec == LimiterInit /\ [][LimiterNext]_limiterVars
-----------------------------------------------------------------------------
Running(a) == {r \in Requests : request[r].at = "running" /\ request[r].addr = a}

\* The types of the limiter.
LimiterTypeOK ==
  /\ ticks \in 0..MaxTicks /\ lastSweep \in (0 - SweepEvery)..ticks
  /\ buckets \in [Addresses -> [made : BOOLEAN, tokens : 0..Cap, refilled : 0..ticks,
                                inFlight : 0..Concurrent, seen : 0..ticks]]
  /\ request \in [Requests -> [at : {"idle", "running"}, addr : Addresses, owned : BOOLEAN]]
  /\ answer \in [ok : BOOLEAN, wait : Nat]

\* The concurrency cap is on the requests that run, not on a counter: what a
\* bucket counts is what runs, across every sweep and every late release.
LimiterCountsRunning ==
  \A a \in Addresses :
    /\ buckets[a].inFlight = Cardinality(Running(a))
    /\ Running(a) # {} => buckets[a].made

\* The allowance an address would find if it asked now.
LevelNow(b) ==
  LET units == b.tokens + (ticks - b.refilled) * Rate
  IN IF ~b.made \/ units > Cap THEN Cap ELSE units

Promise == INSTANCE RateLimit WITH
  level <- [a \in Addresses |-> LevelNow(buckets[a])],
  busy  <- [a \in Addresses |-> buckets[a].inFlight]

\* The limiter keeps the promise of RateLimit: that buckets are refilled only
\* when they are asked and are swept away in between cannot be seen, "an eviction
\* can never hand somebody a fresh allowance sooner than waiting would have".
LimiterKeepsPromise == Promise!RateSpec
=============================================================================
