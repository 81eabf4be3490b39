CONSTANTS
  q1 = q1
  q2 = q2
  k1 = k1
  k2 = k2
  r1 = r1
  r2 = r2
  a1 = a1
  a2 = a2
  c1 = c1
  c2 = c2
  Queries = {q1, q2}
  N = 3
  ChainOf <- MCForeignThird
  Unproven = {2}
  EndpointLead = 1
  Threshold = 2
  MaxTip = 2
  MaxPoolFaults = 2
  Readers = {r1, r2}
  Keys = {k1, k2}
  Ttl <- MCTtl
  Grace = 1
  MaxEntries = 2
  MaxClock = 2
  MaxVersion = 2
  MaxBadAnswers = 1
  Callers = {1, 2, 3}
  MemoTtl = 2
  NegativeTtl = 1
  MaxNow = 4
  MaxUpstream = 2
  MaxFailures = 2
  Clients = {1}
  LiveReplay = 2
  MaxCatchup = 2
  MaxMinted = 4
  MaxFeedLag = 1
  MaxFeedFaults = 1
  Addresses = {a1, a2}
  Requests = {r1, r2}
  Rate = 2
  Cost = 3
  Cap = 6
  Concurrent = 1
  BucketTTL = 3
  SweepEvery = 3
  MaxTicks = 7
  ViewReaders = {r1, r2}
  MaxOpened = 2
  MaxViewFaults = 2
  Connections = {c1, c2}
  BufferLimit = 2
  RetentionDays = 1
  LastDay = 2
  MaxServed = 3
  MaxTrafficFaults = 1
SPECIFICATION ServingSpec
INVARIANTS
  ServingTypeOK
  CacheOneClaim
  MemoOneFetch
  FeedNobodyStranded
  FeedNoHole
  LimiterCountsRunning
  ViewsAccounted
  TrafficKept
  SaltUnlinkable
PROPERTIES
  PoolStaysOnChain
  CacheNeverOlder
  CacheKeepsGood
  MemoKeepsGood
  FeedOnce
  LimiterKeepsPromise
  PoolComesBack
CHECK_DEADLOCK FALSE
