---------------------------- MODULE ResponseCache -----------------------------
(***************************************************************************)
(* The response cache of the read-only API (pkg/httpapi/cache.go) and the  *)
(* warmer that keeps it filled (warmer.go).  Readers look a key up under   *)
(* the mutex, and everything else (running the handler, storing, waking    *)
(* the readers that wait) happens in steps of its own, because the mutex   *)
(* is free in between.                                                     *)
(*                                                                         *)
(* An answer is the version of the database its handler saw.  The warmer   *)
(* is one more reader that asks for every key of its plan; it has no       *)
(* answer to give, so nothing tells it from a reader here.                 *)
(***************************************************************************)
EXTENDS Integers, FiniteSetsExt

CONSTANTS
  Readers,      \* requests in the server at once, the warmer's included
  Keys,         \* cacheKey values
  Ttl,          \* cacheTTLFor: the freshness window of each key
  Grace,        \* CacheStaleGrace
  MaxEntries,   \* cacheMaxEntries
  MaxClock,     \* bound: the clock stops here
  MaxVersion,   \* bound: the sync loop writes up to this version
  MaxBadAnswers \* bound: handlers that fail, stream or overflow the body cap

ASSUME CacheAssumption ==
  /\ Ttl \in [Keys -> Nat]
  /\ Keys # {}
  /\ Grace \in Nat /\ MaxClock \in Nat /\ MaxBadAnswers \in Nat
  /\ MaxVersion \in Nat \ {0} /\ MaxEntries \in Nat \ {0}

VARIABLES
  clock,     \* time.Now()
  version,   \* what a handler that ran now would answer
  entries,   \* c.entries: key -> [val, at]
  inflight,  \* the keys of c.inflight
  reader,    \* each reader: [at, key, val, claimed]
  refresh,   \* the background refresh of each key: [at, val]
  bad,       \* answers so far that must not be stored
  mixed      \* history: keys with an unclaimed computation since they were last
             \* quiet

cacheVars == <<clock, version, entries, inflight, reader, refresh, bad, mixed>>

Bad == 0   \* an answer that is not stored: not a 200, streamed, or too big

Idle == [at |-> "idle", key |-> CHOOSE k \in Keys : TRUE, val |-> Bad, claimed |-> FALSE]
Quiet == [at |-> "none", val |-> Bad]

Age(k) == clock - entries[k].at

Fresh(k) == k \in DOMAIN entries /\ Age(k) <= Ttl[k]

\* Still servable: within the stale grace too.
Answerable(k) == k \in DOMAIN entries /\ Age(k) <= Ttl[k] + Grace

Without(f, ks) == [k \in DOMAIN f \ ks |-> f[k]]

With(f, k, e) == [x \in DOMAIN f \union {k} |-> IF x = k THEN e ELSE f[x]]

-----------------------------------------------------------------------------
CacheInit ==
  /\ clock = 0
  /\ version = 1
  /\ entries = [k \in {} |-> Quiet]
  /\ inflight = {}
  /\ reader = [r \in Readers |-> Idle]
  /\ refresh = [k \in Keys |-> Quiet]
  /\ bad = 0
  /\ mixed = {}

CacheTick ==
  /\ clock < MaxClock
  /\ clock' = clock + 1
  /\ UNCHANGED <<version, entries, inflight, reader, refresh, bad, mixed>>

\* The sync loop writes.
Sync ==
  /\ version < MaxVersion
  /\ version' = version + 1
  /\ UNCHANGED <<clock, entries, inflight, reader, refresh, bad, mixed>>

\* ---- lookup, and what WithResponseCache does with each outcome ----

\* Mutant: the path with nothing to serve claims the key without asking who
\* computes it already.
LookupUndeduped(r, k) ==
  /\ reader[r].at = "idle"
  /\ IF Fresh(k)
     THEN UNCHANGED <<inflight, reader, refresh>>
     ELSE IF Answerable(k)
     THEN /\ inflight' = inflight \union {k}
          /\ refresh' = IF k \in inflight THEN refresh
                        ELSE [refresh EXCEPT ![k] = [at |-> "compute", val |-> Bad]]
          /\ UNCHANGED reader
     ELSE /\ inflight' = inflight \union {k}
          /\ reader' = [reader EXCEPT ![r] = [Idle EXCEPT !.key = k, !.at = "compute",
                                                          !.claimed = TRUE]]
          /\ UNCHANGED refresh
  /\ UNCHANGED <<clock, version, entries, bad, mixed>>

\* A fresh entry is served and that is all.  A stale one is served, and the
\* reader that claims the key starts a refresh.  With nothing usable the claim
\* decides who computes and who waits.
Lookup(r, k) ==
  /\ reader[r].at = "idle"
  /\ ~Fresh(k)
  /\ inflight' = inflight \union {k}
  /\ IF Answerable(k)
     THEN /\ refresh' = IF k \in inflight THEN refresh
                        ELSE [refresh EXCEPT ![k] = [at |-> "compute", val |-> Bad]]
          /\ UNCHANGED reader
     ELSE /\ reader' = [reader EXCEPT ![r] =
                          [Idle EXCEPT !.key = k,
                                       !.at = IF k \in inflight THEN "wait" ELSE "compute",
                                       !.claimed = k \notin inflight]]
          /\ UNCHANGED refresh
  /\ UNCHANGED <<clock, version, entries, bad, mixed>>

\* A waiter's own context ends.
GiveUp(r) ==
  /\ reader[r].at = "wait"
  /\ reader' = [reader EXCEPT ![r] = Idle]
  /\ UNCHANGED <<clock, version, entries, inflight, refresh, bad, mixed>>

\* get, once the channel is closed: what the leader stored is served, and
\* where it stored nothing the waiter computes, unclaimed.
Woken(r) ==
  /\ reader[r].at = "woken"
  /\ reader' = [reader EXCEPT ![r] = IF Answerable(@.key) THEN Idle
                                     ELSE [@ EXCEPT !.at = "compute"]]
  /\ mixed' = IF Answerable(reader[r].key) THEN mixed ELSE mixed \union {reader[r].key}
  /\ UNCHANGED <<clock, version, entries, inflight, refresh, bad>>

\* ---- the handler, store and done ----

\* The keys of mixed that somebody computes after this step.
StillMixed ==
  {k \in mixed : \/ refresh'[k].at # "none"
                 \/ \E r \in Readers : /\ reader'[r].key = k
                                       /\ reader'[r].at \in {"compute", "store", "done"}}

\* The two ways a handler ends.
Answers == {version} \union (IF bad < MaxBadAnswers THEN {Bad} ELSE {})

Counted(answer) == bad' = IF answer = Bad THEN bad + 1 ELSE bad

Compute(r) ==
  /\ reader[r].at = "compute"
  /\ \E answer \in Answers :
       /\ reader' = [reader EXCEPT ![r].at = "store", ![r].val = answer]
       /\ Counted(answer)
  /\ UNCHANGED <<clock, version, entries, inflight, refresh, mixed>>

\* Mutant: the map starts over before the dead entries are dropped.
PutClearingFirst(k, val) ==
  entries' = With(IF Cardinality(DOMAIN entries) >= MaxEntries
                  THEN [x \in {} |-> Quiet] ELSE entries,
                  k, [val |-> val, at |-> clock])

\* put: a full map drops what is past serving, and starts over when that is
\* not enough.
Put(k, val) ==
  LET full(f) == Cardinality(DOMAIN f) >= MaxEntries
      swept == Without(entries, {x \in DOMAIN entries : ~Answerable(x)})
      kept == IF ~full(entries) THEN entries
              ELSE IF ~full(swept) THEN swept ELSE [x \in {} |-> Quiet]
  IN entries' = With(kept, k, [val |-> val, at |-> clock])

Store(r) ==
  /\ reader[r].at = "store"
  /\ IF reader[r].val # Bad THEN Put(reader[r].key, reader[r].val)
                            ELSE UNCHANGED entries
  /\ reader' = [reader EXCEPT ![r] = IF @.claimed THEN [@ EXCEPT !.at = "done"] ELSE Idle]
  /\ UNCHANGED <<clock, version, inflight, refresh, bad>>
  /\ mixed' = StillMixed

\* Closing the channel wakes every reader that waits on the key.
Wake(k) ==
  [r \in Readers |-> IF reader[r].at = "wait" /\ reader[r].key = k
                     THEN [reader[r] EXCEPT !.at = "woken"] ELSE reader[r]]

\* Mutant: done is skipped when there was nothing to store.
DoneOnSuccess(r) ==
  /\ reader[r].at = "done"
  /\ inflight' = IF reader[r].val = Bad THEN inflight ELSE inflight \ {reader[r].key}
  /\ reader' = [(IF reader[r].val = Bad THEN reader ELSE Wake(reader[r].key))
                  EXCEPT ![r] = Idle]
  /\ UNCHANGED <<clock, version, entries, refresh, bad>>
  /\ mixed' = StillMixed

\* The deferred done of the reader that claimed the key.
Done(r) ==
  /\ reader[r].at = "done"
  /\ inflight' = inflight \ {reader[r].key}
  /\ reader' = [Wake(reader[r].key) EXCEPT ![r] = Idle]
  /\ UNCHANGED <<clock, version, entries, refresh, bad>>
  /\ mixed' = StillMixed

\* refresh: the same three steps with nobody waiting on them.
RefreshCompute(k) ==
  /\ refresh[k].at = "compute"
  /\ \E answer \in Answers :
       /\ refresh' = [refresh EXCEPT ![k] = [at |-> "store", val |-> answer]]
       /\ Counted(answer)
  /\ UNCHANGED <<clock, version, entries, inflight, reader, mixed>>

RefreshStore(k) ==
  /\ refresh[k].at = "store"
  /\ IF refresh[k].val # Bad THEN Put(k, refresh[k].val) ELSE UNCHANGED entries
  /\ refresh' = [refresh EXCEPT ![k].at = "done"]
  /\ UNCHANGED <<clock, version, inflight, reader, bad, mixed>>

RefreshDone(k) ==
  /\ refresh[k].at = "done"
  /\ inflight' = inflight \ {k}
  /\ reader' = Wake(k)
  /\ refresh' = [refresh EXCEPT ![k] = Quiet]
  /\ UNCHANGED <<clock, version, entries, bad>>
  /\ mixed' = StillMixed

-----------------------------------------------------------------------------
\* What the server does on its own once a request is in it.
Serving(r) == Woken(r) \/ Compute(r) \/ Store(r) \/ Done(r)
Refreshing(k) == RefreshCompute(k) \/ RefreshStore(k) \/ RefreshDone(k)

CacheNext ==
  \/ CacheTick \/ Sync
  \/ \E r \in Readers : GiveUp(r) \/ Serving(r) \/ \E k \in Keys : Lookup(r, k)
  \/ \E k \in Keys : Refreshing(k)

CacheSpec == CacheInit /\ [][CacheNext]_cacheVars
-----------------------------------------------------------------------------
CacheTypeOK ==
  /\ clock \in 0..MaxClock
  /\ version \in 1..MaxVersion
  /\ DOMAIN entries \subseteq Keys
  /\ Cardinality(DOMAIN entries) <= MaxEntries
  /\ \A k \in DOMAIN entries : entries[k] \in [val : 1..version, at : 0..clock]
  /\ inflight \subseteq Keys
  /\ reader \in [Readers -> [at : {"idle", "wait", "woken", "compute", "store", "done"},
                             key : Keys, val : 0..version, claimed : BOOLEAN]]
  /\ refresh \in [Keys -> [at : {"none", "compute", "store", "done"}, val : 0..version]]
  /\ bad \in 0..MaxBadAnswers
  /\ mixed \subseteq Keys

\* A key never goes back to an older answer, however readers and refreshes
\* overlap, except where a waiter computes unclaimed because it found nothing
\* stored by the computation it had waited for.
CacheNeverOlder ==
  [][\A k \in DOMAIN entries : k \in DOMAIN entries' =>
       entries'[k].val >= entries[k].val \/ k \in mixed]_cacheVars

\* Claims and computations correspond: one answer of a key at most is computed
\* under a claim, no claim is left behind with nobody computing, and whoever
\* waits, waits for a computation that is still to end and wake it.
Claimants(k) ==
  Cardinality({r \in Readers : reader[r].key = k /\ reader[r].claimed})
    + (IF refresh[k].at = "none" THEN 0 ELSE 1)

CacheOneClaim ==
  \A k \in Keys :
    /\ Claimants(k) = IF k \in inflight THEN 1 ELSE 0
    /\ \A r \in Readers : reader[r].at = "wait" /\ reader[r].key = k => k \in inflight

\* A burst of keys does not evict entries that can still be served, the stale
\* ones included, unless the map is full of just such entries.
CacheKeepsGood ==
  [][\A k \in Keys : Answerable(k) /\ k \notin DOMAIN entries' =>
       Cardinality({x \in DOMAIN entries : Answerable(x)}) >= MaxEntries]_cacheVars
=============================================================================
