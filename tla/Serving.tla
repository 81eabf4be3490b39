------------------------------- MODULE Serving -------------------------------
(***************************************************************************)
(* The parts a request meets on its way, each with its own lock and its    *)
(* own state: the endpoint pool below the handlers, the response cache and *)
(* the memo before them, the live feed, the rate limiter, and the two      *)
(* buffers that count. A behaviour takes one part and leaves the others    *)
(* alone: what is checked of a part is what its own specification would    *)
(* give.                                                                   *)
(***************************************************************************)
EXTENDS EndpointPool, ResponseCache, Memo, LiveFeed, IPLimiter, ViewCount, TrafficLog

VARIABLE part  \* the part of this behaviour

Parts == {"pool", "cache", "memo", "feed", "limiter", "views", "traffic"}

servingVars == <<part, poolVars, cacheVars, memoVars, feedVars, limiterVars, viewVars, trafficVars>>

-----------------------------------------------------------------------------
ServingInit ==
  /\ part \in Parts
  /\ PoolInit /\ CacheInit /\ MemoInit /\ FeedInit /\ LimiterInit /\ ViewInit /\ TrafficInit

OnlyPool == part = "pool" /\ UNCHANGED <<part, cacheVars, memoVars, feedVars, limiterVars, viewVars, trafficVars>>
OnlyCache == part = "cache" /\ UNCHANGED <<part, poolVars, memoVars, feedVars, limiterVars, viewVars, trafficVars>>
OnlyMemo == part = "memo" /\ UNCHANGED <<part, poolVars, cacheVars, feedVars, limiterVars, viewVars, trafficVars>>
OnlyFeed == part = "feed" /\ UNCHANGED <<part, poolVars, cacheVars, memoVars, limiterVars, viewVars, trafficVars>>
OnlyLimiter == part = "limiter" /\ UNCHANGED <<part, poolVars, cacheVars, memoVars, feedVars, viewVars, trafficVars>>
OnlyViews == part = "views" /\ UNCHANGED <<part, poolVars, cacheVars, memoVars, feedVars, limiterVars, trafficVars>>
OnlyTraffic == part = "traffic" /\ UNCHANGED <<part, poolVars, cacheVars, memoVars, feedVars, limiterVars, viewVars>>

ServingNext ==
  \/ OnlyPool /\ PoolNext
  \/ OnlyCache /\ CacheNext
  \/ OnlyMemo /\ MemoNext
  \/ OnlyFeed /\ FeedNext
  \/ OnlyLimiter /\ LimiterNext
  \/ OnlyViews /\ ViewNext
  \/ OnlyTraffic /\ TrafficNext

\* The fairness of the pool.
ServingSpec ==
  /\ ServingInit /\ [][ServingNext]_servingVars
  /\ WF_poolVars(part = "pool" /\ ProbeExpires) /\ WF_poolVars(part = "pool" /\ Cooldown)
  /\ \A q \in Queries : WF_poolVars(part = "pool" /\ PoolQueryStep(q))

-----------------------------------------------------------------------------
\* The types of the seven.
ServingTypeOK ==
  PoolTypeOK /\ CacheTypeOK /\ MemoTypeOK /\ FeedTypeOK /\ LimiterTypeOK /\ ViewTypeOK /\ TrafficTypeOK

\* ComesBack, of the behaviours that take the pool.
PoolComesBack == part = "pool" => ComesBack
=============================================================================
