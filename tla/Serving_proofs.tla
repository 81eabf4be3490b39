--------------------------- MODULE Serving_proofs ----------------------------
(***************************************************************************)
(* Proofs about what a request meets on its way and what is sent to those  *)
(* who stay: the memo, the response cache, the rate limiter, the live      *)
(* feed, the traffic log and the view counter. Each has its own lock and   *)
(* its own state, and none reads another's.                                *)
(***************************************************************************)
EXTENDS Serving, EndpointPool_proofs, FiniteSetTheorems, SequenceTheorems, TLAPS

-----------------------------------------------------------------------------
(***************************************************************************)
(* Memo and ResponseCache: concurrent callers of either produce one fetch, *)
(* or one computation under a claim, a good value of the memo is never     *)
(* taken away, an answer of the cache never gives way to an older one, and *)
(* what can still be served is not dropped for want of looking.            *)
(***************************************************************************)

(* Memo. *)

\* The entry of a leader is the one in the map: whoever could replace it would
\* have to be a leader too.
LeaderCurrent == \A c \in Callers : caller[c] = "fetch" => copy[c] = held

MemoInv == MemoTypeOK /\ MemoOneFetch /\ LeaderCurrent

-----------------------------------------------------------------------------
LEMMA MemoInitInv == MemoInit => MemoInv
<1> SUFFICES ASSUME MemoInit PROVE MemoInv
  OBVIOUS
<1>1. MemoTypeOK
  <2>1. Nothing \in [stored : BOOLEAN, val : 0..upstream, good : BOOLEAN, retryAt : Nat]
    BY DEF MemoInit, Nothing
  <2>2. 0 \in 0..MaxNow /\ 1 \in 1..MaxUpstream /\ 0 \in 0..MaxFailures
    BY MemoAssumption
  <2>3. copy \in [Callers -> [stored : BOOLEAN, val : 0..upstream, good : BOOLEAN,
                             retryAt : Nat]]
    BY <2>1 DEF MemoInit
  <2>4. caller \in [Callers -> {"out", "wait", "woken", "fetch"}]
    BY DEF MemoInit
  <2>5. fetching \in BOOLEAN /\ crashed \in BOOLEAN
    BY DEF MemoInit
  <2> QED BY <2>1, <2>2, <2>3, <2>4, <2>5 DEF MemoInit, MemoTypeOK
<1>2. MemoOneFetch
  BY DEF MemoInit, MemoOneFetch
<1>3. LeaderCurrent
  BY DEF MemoInit, LeaderCurrent
<1> QED BY <1>1, <1>2, <1>3 DEF MemoInv

\* EntryAfter makes an entry of an entry.
LEMMA EntryAfterType ==
  ASSUME MemoTypeOK,
         NEW old \in [stored : BOOLEAN, val : 0..upstream, good : BOOLEAN, retryAt : Nat],
         NEW ok \in BOOLEAN, NEW val \in 0..upstream
  PROVE  EntryAfter(old, ok, val)
           \in [stored : BOOLEAN, val : 0..upstream, good : BOOLEAN, retryAt : Nat]
  BY MemoAssumption DEF EntryAfter, MemoTypeOK

LEMMA MemoStepInv == MemoInv /\ [MemoNext]_memoVars => MemoInv'
<1> SUFFICES ASSUME MemoInv, [MemoNext]_memoVars PROVE MemoInv'
  OBVIOUS
<1> USE MemoAssumption
<1>1. CASE MemoTick
  BY <1>1 DEF MemoTick, MemoInv, MemoTypeOK, MemoOneFetch, LeaderCurrent
<1>2. CASE Change
  BY <1>2 DEF Change, MemoInv, MemoTypeOK, MemoOneFetch, LeaderCurrent
<1>3. CASE MemoRestart
  <2>1. MemoTypeOK'
    <3>1. Nothing \in [stored : BOOLEAN, val : 0..upstream, good : BOOLEAN, retryAt : Nat]
      BY DEF MemoInv, MemoTypeOK, Nothing
    <3> QED BY <1>3, <3>1 DEF MemoRestart, MemoInv, MemoTypeOK
  <2>2. MemoOneFetch'
    BY <1>3 DEF MemoRestart, MemoOneFetch
  <2>3. LeaderCurrent'
    BY <1>3 DEF MemoRestart, LeaderCurrent
  <2> QED BY <2>1, <2>2, <2>3 DEF MemoInv
<1>4. ASSUME NEW c \in Callers, Ask(c) PROVE MemoInv'
  <2>1. MemoTypeOK'
    BY <1>4 DEF Ask, At, MemoInv, MemoTypeOK
  <2>2. MemoOneFetch'
    BY <1>4 DEF Ask, At, MemoInv, MemoTypeOK, MemoOneFetch
  <2>3. LeaderCurrent'
    BY <1>4 DEF Ask, At, MemoInv, MemoTypeOK, LeaderCurrent
  <2> QED BY <2>1, <2>2, <2>3 DEF MemoInv
<1>5. ASSUME NEW c \in Callers, Leave(c) PROVE MemoInv'
  <2>1. MemoTypeOK'
    BY <1>5 DEF Leave, At, MemoInv, MemoTypeOK, Nothing
  <2>2. MemoOneFetch'
    BY <1>5 DEF Leave, At, MemoInv, MemoTypeOK, MemoOneFetch
  <2>3. LeaderCurrent'
    BY <1>5 DEF Leave, At, MemoInv, MemoTypeOK, LeaderCurrent
  <2> QED BY <2>1, <2>2, <2>3 DEF MemoInv
<1>6. ASSUME NEW c \in Callers, WakeUp(c) PROVE MemoInv'
  <2>1. MemoTypeOK'
    BY <1>6 DEF WakeUp, At, MemoInv, MemoTypeOK, Nothing
  <2>2. MemoOneFetch'
    BY <1>6 DEF WakeUp, At, MemoInv, MemoTypeOK, MemoOneFetch
  <2>3. LeaderCurrent'
    BY <1>6 DEF WakeUp, At, MemoInv, MemoTypeOK, LeaderCurrent
  <2> QED BY <2>1, <2>2, <2>3 DEF MemoInv
<1>7. ASSUME NEW c \in Callers, Land(c) PROVE MemoInv'
  <2>1. MemoTypeOK'
    <3>1. PICK ok \in (IF failed < MaxFailures THEN BOOLEAN ELSE {TRUE}) :
             /\ held' = EntryAfter(copy[c], ok, IF ok THEN upstream ELSE 0)
             /\ failed' = IF ok THEN failed ELSE failed + 1
      BY <1>7 DEF Land
    <3>2. ok \in BOOLEAN
      BY Zenon
    <3>3. upstream \in 0..upstream /\ 0 \in 0..upstream
      BY DEF MemoInv, MemoTypeOK
    <3>4. (IF ok THEN upstream ELSE 0) \in 0..upstream
      BY <3>3, Zenon
    <3>5. held' \in [stored : BOOLEAN, val : 0..upstream, good : BOOLEAN, retryAt : Nat]
      BY <3>1, <3>2, <3>4, EntryAfterType DEF MemoInv, MemoTypeOK
    <3>6. failed' \in 0..MaxFailures
      <4>1. failed \in 0..MaxFailures
        BY DEF MemoInv, MemoTypeOK
      <4>2. CASE ok
        BY <3>1, <4>1, <4>2
      <4>3. CASE ~ok
        <5>1. failed < MaxFailures
          BY <4>3, Zenon
        <5> QED BY <3>1, <4>1, <4>3, <5>1
      <4> QED BY <4>2, <4>3
    <3>7. caller' \in [Callers -> {"out", "wait", "woken", "fetch"}]
      BY <1>7 DEF Land, MemoInv, MemoTypeOK
    <3>8. copy' \in [Callers -> [stored : BOOLEAN, val : 0..upstream, good : BOOLEAN,
                                retryAt : Nat]]
      BY <1>7 DEF Land, MemoInv, MemoTypeOK, Nothing
    <3>9. fetching' \in BOOLEAN /\ crashed' \in BOOLEAN
      BY <1>7 DEF Land, MemoInv, MemoTypeOK
    <3> QED BY <1>7, <3>5, <3>6, <3>7, <3>8, <3>9 DEF Land, MemoInv, MemoTypeOK
  <2>2. MemoOneFetch'
    BY <1>7 DEF Land, MemoInv, MemoTypeOK, MemoOneFetch
  <2>3. LeaderCurrent'
    <3>1. \A d \in Callers : caller'[d] # "fetch"
      BY <1>7 DEF Land, MemoInv, MemoTypeOK, MemoOneFetch
    <3> QED BY <3>1 DEF LeaderCurrent
  <2> QED BY <2>1, <2>2, <2>3 DEF MemoInv
<1>8. CASE UNCHANGED memoVars
  BY <1>8 DEF memoVars, MemoInv, MemoTypeOK, MemoOneFetch, LeaderCurrent
<1> QED BY <1>1, <1>2, <1>3, <1>4, <1>5, <1>6, <1>7, <1>8 DEF MemoNext

\* The types, the single leader and its current copy hold in every state.
THEOREM MemoInvariant == MemoSpec => []MemoInv
  BY MemoInitInv, MemoStepInv, PTL DEF MemoSpec

\* The types hold whatever the number of callers and the two lifetimes are.
THEOREM MemoTypes == MemoSpec => []MemoTypeOK
<1>1. MemoInv => MemoTypeOK
  BY DEF MemoInv
<1> QED BY <1>1, MemoInvariant, PTL

\* Concurrent callers of one key produce one fetch, and whoever waits has a
\* leader to wait for, for any number of callers (get in memo.go).
THEOREM OneFetch == MemoSpec => []MemoOneFetch
<1>1. MemoInv => MemoOneFetch
  BY DEF MemoInv
<1> QED BY <1>1, MemoInvariant, PTL

-----------------------------------------------------------------------------
\* A good value stays or gives way to a newer one (the switch in get).
THEOREM GoodIsKept == MemoSpec => MemoKeepsGood
<1>1. MemoInv /\ [MemoNext]_memoVars =>
        [held.good /\ ~crashed => held'.good /\ held'.val >= held.val]_memoVars
  <2> SUFFICES ASSUME MemoInv, MemoNext, held.good, ~crashed
               PROVE  held'.good /\ held'.val >= held.val
    OBVIOUS
  <2>1. held.val \in Nat /\ upstream \in Nat /\ held.val <= upstream
    BY MemoAssumption DEF MemoInv, MemoTypeOK
  <2>2. ASSUME NEW c \in Callers, Land(c) PROVE held'.good /\ held'.val >= held.val
    <3>1. copy[c] = held
      BY <2>2 DEF Land, MemoInv, LeaderCurrent
    <3>2. PICK ok \in BOOLEAN :
             held' = EntryAfter(held, ok, IF ok THEN upstream ELSE 0)
      BY <2>2, <3>1 DEF Land
    <3> QED BY <2>1, <3>2 DEF EntryAfter, MemoInv, MemoTypeOK
  <2>3. CASE MemoTick \/ Change \/ MemoRestart
    BY <2>1, <2>3 DEF MemoTick, Change, MemoRestart
  <2>4. ASSUME NEW c \in Callers, Ask(c) \/ Leave(c) \/ WakeUp(c)
        PROVE  held'.good /\ held'.val >= held.val
    BY <2>1, <2>4 DEF Ask, Leave, WakeUp
  <2> QED BY <2>2, <2>3, <2>4 DEF MemoNext
<1> QED BY <1>1, MemoInvariant, PTL DEF MemoSpec, MemoKeepsGood

-----------------------------------------------------------------------------
(* ResponseCache. How many claims there are of a key is Cardinality in the *)
(* property; the invariant says who holds one, so that it needs no counting*)
(* and no bound on the readers.                                            *)

Stages == {"idle", "wait", "woken", "compute", "store", "done"}

Reader  == [at : Stages, key : Keys, val : Nat, claimed : BOOLEAN]
Refresh == [at : {"none", "compute", "store", "done"}, val : Nat]

\* Of the types, what the claims need.
CacheStages ==
  /\ reader \in [Readers -> Reader]
  /\ refresh \in [Keys -> Refresh]
  /\ inflight \subseteq Keys
  /\ version \in Nat

\* A claim is held by a reader that computes, or by a refresh, never by two.
ClaimHeld ==
  /\ \A r \in Readers :
       reader[r].claimed => /\ reader[r].at \in {"compute", "store", "done"}
                            /\ reader[r].key \in inflight
                            /\ refresh[reader[r].key].at = "none"
  /\ \A r, s \in Readers :
       reader[r].claimed /\ reader[s].claimed /\ reader[r].key = reader[s].key => r = s
  /\ \A k \in Keys : refresh[k].at # "none" => k \in inflight
  /\ \A k \in inflight :
       refresh[k].at # "none" \/ \E r \in Readers : reader[r].claimed /\ reader[r].key = k

\* Who waits, waits on a claim; who is about to give one back, has it.
WaitsOnClaim ==
  \A r \in Readers : /\ reader[r].at = "wait" => reader[r].key \in inflight
                     /\ reader[r].at = "done" => reader[r].claimed

ClaimInv == CacheStages /\ ClaimHeld /\ WaitsOnClaim

-----------------------------------------------------------------------------
LEMMA IdleReader ==
  /\ Idle \in Reader
  /\ Idle.at = "idle" /\ Idle.claimed = FALSE
<1>1. (CHOOSE k \in Keys : TRUE) \in Keys
  BY CacheAssumption
<1> QED BY <1>1 DEF Idle, Reader, Stages, Bad

LEMMA ClaimInitInv == CacheInit => ClaimInv
<1> SUFFICES ASSUME CacheInit PROVE ClaimInv
  OBVIOUS
<1>1. /\ inflight = {} /\ version = 1
      /\ \A r \in Readers : reader[r] = Idle
      /\ \A k \in Keys : refresh[k].at = "none"
  BY DEF CacheInit, Quiet
<1>2. CacheStages
  <2>1. Quiet \in Refresh
    BY DEF Quiet, Refresh, Bad
  <2> QED BY <1>1, <2>1, IdleReader DEF CacheInit, CacheStages
<1>3. ClaimHeld /\ WaitsOnClaim
  BY <1>1, IdleReader DEF ClaimHeld, WaitsOnClaim
<1> QED BY <1>2, <1>3 DEF ClaimInv

\* A step of one reader that keeps its key and its claim, and neither waits nor
\* stops computing.
LEMMA StaysInv ==
  ASSUME ClaimInv, NEW r \in Readers,
         UNCHANGED <<inflight, version>>,
         reader' \in [Readers -> Reader], refresh' \in [Keys -> Refresh],
         \A s \in Readers \ {r} : reader'[s] = reader[s],
         \A k \in Keys : (refresh'[k].at = "none") = (refresh[k].at = "none"),
         reader'[r].claimed = reader[r].claimed,
         reader[r].claimed => /\ reader'[r].key = reader[r].key
                              /\ reader'[r].at \in {"compute", "store", "done"},
         reader'[r].at # "wait",
         reader'[r].at = "done" => reader[r].claimed
  PROVE  ClaimInv'
<1>1. CacheStages'
  BY DEF ClaimInv, CacheStages
<1>2. \A s \in Readers : /\ reader'[s].claimed = reader[s].claimed
                         /\ reader[s].claimed => reader'[s].key = reader[s].key
  OBVIOUS
<1>3. ClaimHeld'
  BY <1>2 DEF ClaimInv, CacheStages, ClaimHeld
<1>4. WaitsOnClaim'
  BY DEF ClaimInv, WaitsOnClaim
<1> QED BY <1>1, <1>3, <1>4 DEF ClaimInv
LEMMA WithoutReaders ==
  ASSUME ClaimInv, UNCHANGED <<inflight, reader>>, version' \in Nat,
         refresh' \in [Keys -> Refresh],
         \A k \in Keys : (refresh'[k].at = "none") = (refresh[k].at = "none")
  PROVE  ClaimInv'
<1>1. CacheStages'
  BY DEF ClaimInv, CacheStages
<1>2. ClaimHeld' /\ WaitsOnClaim'
  BY DEF ClaimInv, CacheStages, ClaimHeld, WaitsOnClaim
<1> QED BY <1>1, <1>2 DEF ClaimInv

\* The claim goes to nobody, to the refresh or to the reader that found the key
\* free.
LEMMA LookupInv ==
  ASSUME ClaimInv, NEW r \in Readers, NEW k \in Keys, Lookup(r, k)
  PROVE  ClaimInv'
<1>1. /\ reader[r].at = "idle" /\ inflight' = inflight \union {k} /\ version' = version
      /\ reader[r].claimed = FALSE
  BY DEF Lookup, ClaimInv, CacheStages, ClaimHeld, Reader
<1>2. CASE Answerable(k)
  <2>1. UNCHANGED reader
    BY <1>2 DEF Lookup
  <2>2. CASE k \in inflight
    <3>1. UNCHANGED <<inflight, reader, refresh>>
      BY <1>1, <1>2, <2>2 DEF Lookup
    <3> QED BY <1>1, <3>1, WithoutReaders DEF ClaimInv, CacheStages
  <2>3. CASE k \notin inflight
    <3>1. refresh' = [refresh EXCEPT ![k] = [at |-> "compute", val |-> Bad]]
      BY <1>2, <2>3 DEF Lookup
    <3>2. refresh'[k].at # "none" /\ \A x \in Keys \ {k} : refresh'[x] = refresh[x]
      BY <3>1 DEF ClaimInv, CacheStages
    <3>3. CacheStages'
      <4>1. [at |-> "compute", val |-> Bad] \in Refresh
        BY DEF Refresh, Bad
      <4>2. refresh' \in [Keys -> Refresh]
        BY <3>1, <4>1 DEF ClaimInv, CacheStages
      <4> QED BY <1>1, <2>1, <4>2 DEF ClaimInv, CacheStages
    <3>4. ClaimHeld'
      BY <1>1, <2>1, <2>3, <3>2 DEF ClaimInv, CacheStages, ClaimHeld
    <3>5. WaitsOnClaim'
      BY <1>1, <2>1 DEF ClaimInv, WaitsOnClaim
    <3> QED BY <3>3, <3>4, <3>5 DEF ClaimInv
  <2> QED BY <2>2, <2>3
<1>3. CASE ~Answerable(k)
  <2> DEFINE new == [Idle EXCEPT !.key = k,
                                 !.at = IF k \in inflight THEN "wait" ELSE "compute",
                                 !.claimed = k \notin inflight]
  <2>1. reader' = [reader EXCEPT ![r] = new] /\ UNCHANGED refresh
    BY <1>3 DEF Lookup
  <2>2. /\ new.key = k
        /\ new.at = IF k \in inflight THEN "wait" ELSE "compute"
        /\ new.claimed = (k \notin inflight)
        /\ new \in Reader
    BY IdleReader DEF Reader, Stages
  <2> HIDE DEF new
  <2>3. /\ reader' \in [Readers -> Reader] /\ reader'[r] = new
        /\ \A s \in Readers \ {r} : reader'[s] = reader[s]
    BY <2>1, <2>2 DEF ClaimInv, CacheStages
  <2>4. CacheStages'
    BY <1>1, <2>1, <2>3 DEF ClaimInv, CacheStages
  <2>5. CASE k \in inflight
    <3>1. new.at = "wait" /\ ~new.claimed /\ inflight' = inflight
      BY <1>1, <2>2, <2>5
    <3>2. \A s \in Readers : reader'[s].claimed => reader'[s] = reader[s]
      BY <2>3, <3>1
    <3>3. \A s \in Readers : reader[s].claimed => reader'[s] = reader[s]
      BY <1>1, <2>3
    <3>4. ClaimHeld'
      BY <2>1, <3>1, <3>2, <3>3 DEF ClaimInv, ClaimHeld
    <3>5. WaitsOnClaim'
      BY <2>2, <2>3, <2>5, <3>1 DEF ClaimInv, WaitsOnClaim
    <3> QED BY <2>4, <3>4, <3>5 DEF ClaimInv
  <2>6. CASE k \notin inflight
    <3>1. new.at = "compute" /\ new.claimed
      BY <2>2, <2>6
    <3>2. refresh[k].at = "none" /\ \A s \in Readers : reader[s].claimed => reader[s].key # k
      BY <2>6 DEF ClaimInv, ClaimHeld
    <3>3. ClaimHeld'
      <4>1. \A s \in Readers : reader'[s].claimed =>
              /\ reader'[s].at \in {"compute", "store", "done"}
              /\ reader'[s].key \in inflight'
              /\ refresh'[reader'[s].key].at = "none"
        BY <1>1, <2>1, <2>2, <2>3, <3>1, <3>2 DEF ClaimInv, ClaimHeld
      <4>2. \A s, t \in Readers :
              reader'[s].claimed /\ reader'[t].claimed /\ reader'[s].key = reader'[t].key => s = t
        BY <2>2, <2>3, <3>2 DEF ClaimInv, ClaimHeld
      <4>3. \A x \in Keys : refresh'[x].at # "none" => x \in inflight'
        BY <1>1, <2>1 DEF ClaimInv, ClaimHeld
      <4>4. \A x \in inflight' :
              refresh'[x].at # "none" \/ \E s \in Readers : reader'[s].claimed /\ reader'[s].key = x
        <5> TAKE x \in inflight'
        <5>1. CASE x = k
          BY <2>2, <2>3, <3>1, <5>1
        <5>2. CASE x # k /\ refresh[x].at # "none"
          BY <2>1, <5>2
        <5>3. CASE x # k /\ refresh[x].at = "none"
          <6>1. PICK s \in Readers : reader[s].claimed /\ reader[s].key = x
            BY <1>1, <5>3 DEF ClaimInv, ClaimHeld
          <6> QED BY <1>1, <2>3, <6>1
        <5> QED BY <5>1, <5>2, <5>3
      <4> QED BY <4>1, <4>2, <4>3, <4>4 DEF ClaimHeld
    <3>4. WaitsOnClaim'
      BY <1>1, <2>2, <2>3, <3>1 DEF ClaimInv, WaitsOnClaim
    <3> QED BY <2>4, <3>3, <3>4 DEF ClaimInv
  <2> QED BY <2>5, <2>6
<1> QED BY <1>2, <1>3

\* Once its claim is given back, nobody computes a key under one: the readers
\* that waited are woken, and the reader that held it is idle; or a refresh did.
LEMMA GivenBack ==
  ASSUME ClaimInv, NEW k \in inflight,
         inflight' = inflight \ {k}, version' = version,
         reader' \in [Readers -> Reader], refresh' \in [Keys -> Refresh],
         refresh'[k].at = "none",
         \A x \in Keys \ {k} : refresh'[x] = refresh[x],
         \A s \in Readers :
           \/ reader'[s] = Idle /\ reader[s].claimed /\ reader[s].key = k
           \/ /\ ~(reader[s].claimed /\ reader[s].key = k)
              /\ IF reader[s].at = "wait" /\ reader[s].key = k
                 THEN reader'[s] = [reader[s] EXCEPT !.at = "woken"]
                 ELSE reader'[s] = reader[s]
  PROVE  ClaimInv'
<1>1. k \in Keys
  BY DEF ClaimInv, CacheStages
<1>2. CacheStages'
  BY DEF ClaimInv, CacheStages
<1>3. \A s \in Readers : /\ reader'[s].claimed => reader'[s] = reader[s] /\ reader[s].key # k
                         /\ reader'[s].at = "wait" => reader'[s] = reader[s] /\ reader[s].key # k
                         /\ reader'[s].at = "done" => reader'[s] = reader[s]
                         /\ reader[s].claimed /\ reader[s].key # k => reader'[s] = reader[s]
  <2> TAKE s \in Readers
  <2>1. CASE reader'[s] = Idle /\ reader[s].claimed /\ reader[s].key = k
    BY <2>1, IdleReader
  <2>2. CASE /\ reader[s].at = "wait" /\ reader[s].key = k
             /\ reader'[s] = [reader[s] EXCEPT !.at = "woken"]
    <3>1. reader'[s].at = "woken" /\ reader'[s].claimed = reader[s].claimed
      BY <2>2 DEF ClaimInv, CacheStages, Reader
    <3>2. ~reader[s].claimed
      BY <2>2 DEF ClaimInv, ClaimHeld
    <3> QED BY <2>2, <3>1, <3>2
  <2>3. CASE /\ reader'[s] = reader[s] /\ ~(reader[s].claimed /\ reader[s].key = k)
             /\ ~(reader[s].at = "wait" /\ reader[s].key = k)
    BY <2>3
  <2> QED BY <2>1, <2>2, <2>3
<1>4. ClaimHeld'
  <2>1. \A s \in Readers : reader'[s].claimed =>
          /\ reader'[s].at \in {"compute", "store", "done"}
          /\ reader'[s].key \in inflight'
          /\ refresh'[reader'[s].key].at = "none"
    BY <1>3 DEF ClaimInv, ClaimHeld, CacheStages
  <2>2. \A s, t \in Readers :
          reader'[s].claimed /\ reader'[t].claimed /\ reader'[s].key = reader'[t].key => s = t
    BY <1>3 DEF ClaimInv, ClaimHeld
  <2>3. \A x \in Keys : refresh'[x].at # "none" => x \in inflight'
    BY DEF ClaimInv, ClaimHeld
  <2>4. \A x \in inflight' :
          refresh'[x].at # "none" \/ \E s \in Readers : reader'[s].claimed /\ reader'[s].key = x
    <3> TAKE x \in inflight'
    <3>1. x \in inflight /\ x # k /\ x \in Keys
      BY DEF ClaimInv, CacheStages
    <3>2. CASE refresh[x].at # "none"
      BY <3>1, <3>2
    <3>3. CASE refresh[x].at = "none"
      <4>1. PICK s \in Readers : reader[s].claimed /\ reader[s].key = x
        BY <3>1, <3>3 DEF ClaimInv, ClaimHeld
      <4> QED BY <1>3, <3>1, <4>1
    <3> QED BY <3>2, <3>3
  <2> QED BY <2>1, <2>2, <2>3, <2>4 DEF ClaimHeld
<1>5. WaitsOnClaim'
  BY <1>3 DEF ClaimInv, WaitsOnClaim
<1> QED BY <1>2, <1>4, <1>5 DEF ClaimInv

\* What Wake does to the other readers.
LEMMA WakeIs ==
  ASSUME ClaimInv, NEW k \in Keys
  PROVE  /\ Wake(k) \in [Readers -> Reader]
         /\ \A s \in Readers : Wake(k)[s] = IF reader[s].at = "wait" /\ reader[s].key = k
                                            THEN [reader[s] EXCEPT !.at = "woken"] ELSE reader[s]
<1>1. \A s \in Readers : [reader[s] EXCEPT !.at = "woken"] \in Reader
  BY DEF ClaimInv, CacheStages, Reader, Stages
<1>2. \A s \in Readers : Wake(k)[s] = IF reader[s].at = "wait" /\ reader[s].key = k
                                      THEN [reader[s] EXCEPT !.at = "woken"] ELSE reader[s]
  BY DEF Wake
<1>3. Wake(k) \in [Readers -> Reader]
  BY <1>1 DEF Wake, ClaimInv, CacheStages
<1> QED BY <1>2, <1>3

LEMMA DoneInv ==
  ASSUME ClaimInv, NEW r \in Readers, Done(r)
  PROVE  ClaimInv'
<1> DEFINE k == reader[r].key
<1>1. reader[r].at = "done" /\ reader[r].claimed /\ k \in inflight /\ k \in Keys
      /\ refresh[k].at = "none"
  BY DEF Done, ClaimInv, CacheStages, ClaimHeld, WaitsOnClaim
<1>2. /\ inflight' = inflight \ {k} /\ reader' = [Wake(k) EXCEPT ![r] = Idle]
      /\ UNCHANGED <<refresh, version>>
  BY DEF Done
<1> HIDE DEF k
<1>3. reader' \in [Readers -> Reader]
  BY <1>1, <1>2, WakeIs, IdleReader
<1>4. \A s \in Readers :
           \/ reader'[s] = Idle /\ reader[s].claimed /\ reader[s].key = k
           \/ /\ ~(reader[s].claimed /\ reader[s].key = k)
              /\ IF reader[s].at = "wait" /\ reader[s].key = k
                 THEN reader'[s] = [reader[s] EXCEPT !.at = "woken"]
                 ELSE reader'[s] = reader[s]
  <2> TAKE s \in Readers
  <2>1. CASE s = r
    BY <1>1, <1>2, <2>1, WakeIs DEF k
  <2>2. CASE s # r
    <3>1. reader'[s] = Wake(k)[s]
      BY <1>1, <1>2, <2>2, WakeIs
    <3>2. ~(reader[s].claimed /\ reader[s].key = k)
      BY <1>1, <2>2 DEF ClaimInv, ClaimHeld, k
    <3> QED BY <1>1, <3>1, <3>2, WakeIs
  <2> QED BY <2>1, <2>2
<1> QED BY <1>1, <1>2, <1>3, <1>4, GivenBack DEF ClaimInv, CacheStages

LEMMA RefreshDoneInv ==
  ASSUME ClaimInv, NEW k \in Keys, RefreshDone(k)
  PROVE  ClaimInv'
<1>1. /\ refresh[k].at = "done" /\ inflight' = inflight \ {k} /\ reader' = Wake(k)
      /\ refresh' = [refresh EXCEPT ![k] = Quiet] /\ version' = version
  BY DEF RefreshDone
<1>2. k \in inflight /\ \A s \in Readers : ~(reader[s].claimed /\ reader[s].key = k)
  BY <1>1 DEF ClaimInv, ClaimHeld
<1>3. Quiet \in Refresh /\ Quiet.at = "none"
  BY DEF Quiet, Refresh, Bad
<1>4. refresh' \in [Keys -> Refresh] /\ refresh'[k].at = "none"
      /\ \A x \in Keys \ {k} : refresh'[x] = refresh[x]
  BY <1>1, <1>3 DEF ClaimInv, CacheStages
<1>5. \A s \in Readers : IF reader[s].at = "wait" /\ reader[s].key = k
                         THEN reader'[s] = [reader[s] EXCEPT !.at = "woken"]
                         ELSE reader'[s] = reader[s]
  BY <1>1, WakeIs
<1>6. reader' \in [Readers -> Reader]
  BY <1>1, WakeIs
<1> QED BY <1>1, <1>2, <1>4, <1>5, <1>6, GivenBack

LEMMA GiveUpInv ==
  ASSUME ClaimInv, NEW r \in Readers, GiveUp(r)
  PROVE  ClaimInv'
<1>1. reader[r].at = "wait" /\ reader' = [reader EXCEPT ![r] = Idle]
      /\ UNCHANGED <<inflight, refresh, version>>
  BY DEF GiveUp
<1>2. reader[r].claimed = FALSE
  BY <1>1 DEF ClaimInv, CacheStages, ClaimHeld, Reader
<1>3. reader' \in [Readers -> Reader] /\ reader'[r] = Idle
      /\ \A s \in Readers \ {r} : reader'[s] = reader[s]
  BY <1>1, IdleReader DEF ClaimInv, CacheStages
<1> QED BY <1>1, <1>2, <1>3, IdleReader, StaysInv DEF ClaimInv, CacheStages

LEMMA WokenInv ==
  ASSUME ClaimInv, NEW r \in Readers, Woken(r)
  PROVE  ClaimInv'
<1> DEFINE new == IF Answerable(reader[r].key) THEN Idle ELSE [reader[r] EXCEPT !.at = "compute"]
<1>1. reader[r].at = "woken" /\ reader' = [reader EXCEPT ![r] = new]
      /\ UNCHANGED <<inflight, refresh, version>>
  BY DEF Woken
<1>2. reader[r].claimed = FALSE /\ reader[r] \in Reader
  BY <1>1 DEF ClaimInv, CacheStages, ClaimHeld, Reader
<1>3. new \in Reader /\ new.claimed = FALSE /\ new.at \in {"idle", "compute"}
  <2>1. CASE Answerable(reader[r].key)
    BY <2>1, IdleReader
  <2>2. CASE ~Answerable(reader[r].key)
    BY <1>2, <2>2 DEF Reader, Stages
  <2> QED BY <2>1, <2>2
<1> HIDE DEF new
<1>4. reader' \in [Readers -> Reader] /\ reader'[r] = new
      /\ \A s \in Readers \ {r} : reader'[s] = reader[s]
  BY <1>1, <1>3 DEF ClaimInv, CacheStages
<1> QED BY <1>1, <1>2, <1>3, <1>4, StaysInv DEF ClaimInv, CacheStages

LEMMA AnswerType ==
  ASSUME ClaimInv, NEW computed \in Answers
  PROVE  computed \in Nat
  BY DEF Answers, Bad, ClaimInv, CacheStages

LEMMA ComputeInv ==
  ASSUME ClaimInv, NEW r \in Readers, Compute(r)
  PROVE  ClaimInv'
<1>1. PICK computed \in Answers :
        reader' = [reader EXCEPT ![r].at = "store", ![r].val = computed]
  BY DEF Compute
<1>2. reader[r].at = "compute" /\ UNCHANGED <<inflight, refresh, version>>
  BY DEF Compute
<1>3. reader[r] \in Reader /\ computed \in Nat
  BY AnswerType DEF ClaimInv, CacheStages
<1>4. /\ reader' \in [Readers -> Reader] /\ reader'[r].at = "store"
      /\ reader'[r].key = reader[r].key /\ reader'[r].claimed = reader[r].claimed
      /\ \A s \in Readers \ {r} : reader'[s] = reader[s]
  BY <1>1, <1>3 DEF ClaimInv, CacheStages, Reader, Stages
<1> QED BY <1>2, <1>4, StaysInv DEF ClaimInv, CacheStages

LEMMA StoreInv ==
  ASSUME ClaimInv, NEW r \in Readers, Store(r)
  PROVE  ClaimInv'
<1> DEFINE new == IF reader[r].claimed THEN [reader[r] EXCEPT !.at = "done"] ELSE Idle
<1>1. reader[r].at = "store" /\ reader' = [reader EXCEPT ![r] = new]
      /\ UNCHANGED <<inflight, refresh, version>>
  BY DEF Store
<1>2. reader[r] \in Reader
  BY DEF ClaimInv, CacheStages
<1>3. /\ new \in Reader /\ new.claimed = reader[r].claimed /\ new.at \in {"done", "idle"}
      /\ new.at = "done" => reader[r].claimed
      /\ reader[r].claimed => new.key = reader[r].key /\ new.at = "done"
  <2>1. CASE reader[r].claimed
    BY <1>2, <2>1 DEF Reader, Stages
  <2>2. CASE ~reader[r].claimed
    <3>1. reader[r].claimed = FALSE
      BY <1>2, <2>2 DEF Reader
    <3>2. new = Idle
      BY <3>1
    <3> HIDE DEF new
    <3> QED BY <3>1, <3>2, IdleReader
  <2> QED BY <2>1, <2>2
<1> HIDE DEF new
<1>4. reader' \in [Readers -> Reader] /\ reader'[r] = new
      /\ \A s \in Readers \ {r} : reader'[s] = reader[s]
  BY <1>1, <1>3 DEF ClaimInv, CacheStages
<1> QED BY <1>1, <1>3, <1>4, StaysInv DEF ClaimInv, CacheStages

\* The clock, the sync loop and the first two steps of a refresh.
LEMMA AsideInv ==
  ASSUME ClaimInv, CacheTick \/ Sync \/ \E k \in Keys : RefreshCompute(k) \/ RefreshStore(k)
  PROVE  ClaimInv'
<1>1. version' \in Nat /\ UNCHANGED <<inflight, reader>>
  BY DEF CacheTick, Sync, RefreshCompute, RefreshStore, ClaimInv, CacheStages
<1>2. CASE CacheTick \/ Sync
  <2>1. UNCHANGED refresh
    BY <1>2 DEF CacheTick, Sync
  <2> QED BY <1>1, <2>1, WithoutReaders DEF ClaimInv, CacheStages
<1>3. ASSUME NEW k \in Keys, RefreshCompute(k)
      PROVE  ClaimInv'
  <2>1. PICK computed \in Answers : refresh' = [refresh EXCEPT ![k] = [at |-> "store", val |-> computed]]
    BY <1>3 DEF RefreshCompute
  <2>2. [at |-> "store", val |-> computed] \in Refresh
    BY AnswerType DEF Refresh
  <2>3. refresh' \in [Keys -> Refresh]
        /\ \A x \in Keys : (refresh'[x].at = "none") = (refresh[x].at = "none")
    BY <1>3, <2>1, <2>2 DEF RefreshCompute, ClaimInv, CacheStages
  <2> QED BY <1>1, <2>3, WithoutReaders
<1>4. ASSUME NEW k \in Keys, RefreshStore(k)
      PROVE  ClaimInv'
  <2>1. refresh' = [refresh EXCEPT ![k].at = "done"] /\ refresh[k].at = "store"
    BY <1>4 DEF RefreshStore
  <2>2. refresh' \in [Keys -> Refresh]
        /\ \A x \in Keys : (refresh'[x].at = "none") = (refresh[x].at = "none")
    BY <2>1 DEF ClaimInv, CacheStages, Refresh
  <2> QED BY <1>1, <2>2, WithoutReaders
<1> QED BY <1>2, <1>3, <1>4

LEMMA ClaimStepInv == ClaimInv /\ [CacheNext]_cacheVars => ClaimInv'
<1> SUFFICES ASSUME ClaimInv, [CacheNext]_cacheVars PROVE ClaimInv'
  OBVIOUS
<1>1. CASE CacheTick \/ Sync
  BY <1>1, AsideInv
<1>2. ASSUME NEW k \in Keys, Refreshing(k)
      PROVE  ClaimInv'
  BY <1>2, AsideInv, RefreshDoneInv DEF Refreshing
<1>3. ASSUME NEW r \in Readers, GiveUp(r) \/ Serving(r) \/ \E k \in Keys : Lookup(r, k)
      PROVE  ClaimInv'
  BY <1>3, GiveUpInv, WokenInv, ComputeInv, StoreInv, DoneInv, LookupInv DEF Serving
<1>4. CASE UNCHANGED cacheVars
  BY <1>4, WithoutReaders DEF cacheVars, ClaimInv, CacheStages
<1> QED BY <1>1, <1>2, <1>3, <1>4 DEF CacheNext

LEMMA ClaimsCorrespond == ClaimInv => CacheOneClaim
<1> SUFFICES ASSUME ClaimInv, NEW k \in Keys
             PROVE  Claimants(k) = IF k \in inflight THEN 1 ELSE 0
  BY DEF CacheOneClaim, ClaimInv, WaitsOnClaim
<1> DEFINE holders == {r \in Readers : reader[r].key = k /\ reader[r].claimed}
<1>0. Claimants(k) = Cardinality(holders) + (IF refresh[k].at = "none" THEN 0 ELSE 1)
  BY DEF Claimants
<1>1. CASE k \notin inflight
  <2>1. holders = {} /\ refresh[k].at = "none"
    BY <1>1 DEF ClaimInv, ClaimHeld
  <2> HIDE DEF holders
  <2> QED BY <1>0, <1>1, <2>1, FS_EmptySet
<1>2. CASE k \in inflight /\ refresh[k].at # "none"
  <2>1. holders = {}
    BY <1>2 DEF ClaimInv, ClaimHeld
  <2> HIDE DEF holders
  <2> QED BY <1>0, <1>2, <2>1, FS_EmptySet
<1>3. CASE k \in inflight /\ refresh[k].at = "none"
  <2>1. PICK r \in Readers : reader[r].claimed /\ reader[r].key = k
    BY <1>3 DEF ClaimInv, ClaimHeld
  <2>2. holders = {r}
    BY <2>1 DEF ClaimInv, ClaimHeld
  <2> HIDE DEF holders
  <2>3. Cardinality(holders) = 1
    BY <2>2, FS_Singleton, Zenon
  <2> QED BY <1>0, <1>3, <2>3
<1> QED BY <1>1, <1>2, <1>3

\* One computation at most of a key of the response cache runs under a claim, no
\* claim is left behind, and nobody waits for one that is gone: for any readers,
\* keys, windows and failures.
THEOREM OneClaim == CacheSpec => []CacheOneClaim
  BY ClaimInitInv, ClaimStepInv, ClaimsCorrespond, PTL DEF CacheSpec
-----------------------------------------------------------------------------
\* What put leaves: the entry it was called for, and of the others at most what
\* was there; and never more entries than the map may hold.
LEMMA PutIs ==
  ASSUME CacheTypeOK, IsFiniteSet(DOMAIN entries), NEW k \in Keys, NEW val, Put(k, val)
  PROVE  /\ DOMAIN entries' \subseteq DOMAIN entries \union {k}
         /\ k \in DOMAIN entries'
         /\ entries'[k] = [val |-> val, at |-> clock] /\ entries'[k].val = val
         /\ \A x \in DOMAIN entries' \ {k} : entries'[x] = entries[x]
         /\ IsFiniteSet(DOMAIN entries')
         /\ Cardinality(DOMAIN entries') <= MaxEntries
<1> DEFINE swept == Without(entries, {x \in DOMAIN entries : ~Answerable(x)})
           nothing == [x \in {} |-> Quiet]
           kept == IF ~(Cardinality(DOMAIN entries) >= MaxEntries) THEN entries
                   ELSE IF ~(Cardinality(DOMAIN swept) >= MaxEntries) THEN swept ELSE nothing
<1>1. entries' = With(kept, k, [val |-> val, at |-> clock])
  BY DEF Put
<1>2. /\ DOMAIN swept \subseteq DOMAIN entries
      /\ \A x \in DOMAIN swept : swept[x] = entries[x]
  BY DEF Without
<1>3. DOMAIN nothing = {}
  OBVIOUS
<1>4. Cardinality(DOMAIN entries) \in Nat
  BY FS_CardinalityType
<1>5. IsFiniteSet(DOMAIN swept) /\ Cardinality(DOMAIN swept) \in Nat
  BY <1>2, FS_Subset, FS_CardinalityType
<1>6. IsFiniteSet(DOMAIN nothing) /\ Cardinality(DOMAIN nothing) = 0
  BY <1>3, FS_EmptySet
<1>7. MaxEntries \in Nat /\ MaxEntries > 0
  BY CacheAssumption
<1> HIDE DEF swept, nothing
<1>8. /\ DOMAIN kept \subseteq DOMAIN entries
      /\ \A x \in DOMAIN kept : kept[x] = entries[x]
      /\ IsFiniteSet(DOMAIN kept)
      /\ Cardinality(DOMAIN kept) \in Nat
      /\ Cardinality(DOMAIN kept) < MaxEntries
  <2>1. CASE kept = entries /\ ~(Cardinality(DOMAIN entries) >= MaxEntries)
    <3> HIDE DEF kept
    <3> QED BY <1>4, <1>7, <2>1
  <2>2. CASE kept = swept /\ ~(Cardinality(DOMAIN swept) >= MaxEntries)
    <3> HIDE DEF kept
    <3> QED BY <1>2, <1>5, <1>7, <2>2
  <2>3. CASE kept = nothing
    <3> HIDE DEF kept
    <3> QED BY <1>3, <1>6, <1>7, <2>3
  <2> QED BY <2>1, <2>2, <2>3
<1> HIDE DEF kept
<1>9. /\ DOMAIN entries' = DOMAIN kept \union {k}
      /\ entries'[k] = [val |-> val, at |-> clock] /\ entries'[k].val = val
      /\ \A x \in DOMAIN kept \ {k} : entries'[x] = kept[x]
  BY <1>1 DEF With
<1>10. /\ IsFiniteSet(DOMAIN kept \union {k})
       /\ \/ Cardinality(DOMAIN kept \union {k}) = Cardinality(DOMAIN kept)
          \/ Cardinality(DOMAIN kept \union {k}) = Cardinality(DOMAIN kept) + 1
  BY <1>8, FS_AddElement
<1>11. Cardinality(DOMAIN entries') <= MaxEntries
  <2> DEFINE n == Cardinality(DOMAIN kept)
             m == Cardinality(DOMAIN entries')
  <2>1. n \in Nat /\ n < MaxEntries /\ (m = n \/ m = n + 1)
    BY <1>8, <1>9, <1>10
  <2> HIDE DEF n, m
  <2>2. m <= MaxEntries
    BY <1>7, <2>1
  <2> QED BY <2>2 DEF m
<1> QED BY <1>8, <1>9, <1>10, <1>11

\* What put drops although it can still be served, it drops because there is
\* nothing else to drop.
LEMMA PutDrops ==
  ASSUME NEW k, NEW val, Put(k, val), NEW x, Answerable(x), x \notin DOMAIN entries'
  PROVE  Cardinality({y \in DOMAIN entries : Answerable(y)}) >= MaxEntries
<1> DEFINE swept == Without(entries, {y \in DOMAIN entries : ~Answerable(y)})
           kept == IF ~(Cardinality(DOMAIN entries) >= MaxEntries) THEN entries
                   ELSE IF ~(Cardinality(DOMAIN swept) >= MaxEntries) THEN swept
                   ELSE [y \in {} |-> Quiet]
<1>1. entries' = With(kept, k, [val |-> val, at |-> clock])
  BY DEF Put
<1>2. DOMAIN swept = {y \in DOMAIN entries : Answerable(y)}
  BY DEF Without
<1>3. x \in DOMAIN entries /\ x \in DOMAIN swept
  BY <1>2 DEF Answerable
<1>4. x \notin DOMAIN kept
  <2> HIDE DEF kept
  <2> QED BY <1>1 DEF With
<1> HIDE DEF swept
<1>5. Cardinality(DOMAIN swept) >= MaxEntries
  BY <1>3, <1>4
<1> QED BY <1>2, <1>5

-----------------------------------------------------------------------------
\* Whoever computes without a claim has marked the key, and what is about to be
\* stored for an unmarked key is not older than what is there.
Marked ==
  \A r \in Readers : reader[r].at \in {"compute", "store"} /\ ~reader[r].claimed
                       => reader[r].key \in mixed

NewerInHand ==
  \A k \in DOMAIN entries \ mixed :
    /\ \A r \in Readers : /\ reader[r].at = "store" /\ reader[r].key = k
                          /\ reader[r].val # Bad
                          => reader[r].val >= entries[k].val
    /\ refresh[k].at = "store" /\ refresh[k].val # Bad => refresh[k].val >= entries[k].val

CacheInv ==
  ClaimInv /\ CacheTypeOK /\ IsFiniteSet(DOMAIN entries) /\ Marked /\ NewerInHand

LEMMA CacheInitInv == CacheInit => CacheInv
<1> SUFFICES ASSUME CacheInit PROVE CacheInv
  OBVIOUS
<1>1. ClaimInv
  BY ClaimInitInv
<1>2. DOMAIN entries = {} /\ IsFiniteSet(DOMAIN entries) /\ Cardinality(DOMAIN entries) = 0
  BY FS_EmptySet DEF CacheInit
<1>3. Idle.val = 0 /\ Idle.at = "idle" /\ Quiet.val = 0
  BY DEF Idle, Quiet, Bad
<1>4. CacheTypeOK
  <2>1. Idle \in [at : {"idle", "wait", "woken", "compute", "store", "done"},
                  key : Keys, val : 0..version, claimed : BOOLEAN]
    <3>1. (CHOOSE k \in Keys : TRUE) \in Keys
      BY CacheAssumption
    <3> QED BY <3>1 DEF CacheInit, Idle, Bad
  <2>2. Quiet \in [at : {"none", "compute", "store", "done"}, val : 0..version]
    BY DEF CacheInit, Quiet, Bad
  <2>3. clock \in 0..MaxClock /\ bad \in 0..MaxBadAnswers
    BY CacheAssumption DEF CacheInit
  <2>4. version \in 1..MaxVersion
    BY CacheAssumption DEF CacheInit
  <2>5. Cardinality(DOMAIN entries) <= MaxEntries
    BY <1>2, CacheAssumption
  <2> QED BY <1>2, <2>1, <2>2, <2>3, <2>4, <2>5 DEF CacheInit, CacheTypeOK
<1>5. Marked /\ NewerInHand
  BY <1>2, <1>3 DEF CacheInit, Marked, NewerInHand
<1> QED BY <1>1, <1>2, <1>4, <1>5 DEF CacheInv

\* A step that stores nothing: the types.
LEMMA TypesStay ==
  ASSUME CacheInv, ClaimInv', UNCHANGED entries,
         clock' \in clock..MaxClock, version' \in version..MaxVersion,
         bad' \in 0..MaxBadAnswers, mixed' \subseteq Keys,
         \A r \in Readers : reader'[r].val \in 0..version',
         \A k \in Keys : refresh'[k].val \in 0..version'
  PROVE  CacheTypeOK' /\ IsFiniteSet(DOMAIN entries)'
<1>1. clock \in Nat /\ clock' \in Nat /\ clock <= clock' /\ clock' <= MaxClock
      /\ version \in Nat /\ version' \in Nat /\ version <= version' /\ version' <= MaxVersion
      /\ 1 <= version
  BY CacheAssumption DEF CacheInv, CacheTypeOK
<1>2. /\ reader' \in [Readers -> [at : {"idle", "wait", "woken", "compute", "store", "done"},
                                  key : Keys, val : 0..version', claimed : BOOLEAN]]
      /\ refresh' \in [Keys -> [at : {"none", "compute", "store", "done"}, val : 0..version']]
      /\ inflight' \subseteq Keys
  BY DEF ClaimInv, CacheStages, Reader, Refresh, Stages
<1>3. \A k \in DOMAIN entries' : entries'[k] \in [val : 1..version', at : 0..clock']
  <2> TAKE k \in DOMAIN entries'
  <2>1. entries'[k] \in [val : 1..version, at : 0..clock]
    BY DEF CacheInv, CacheTypeOK
  <2>2. 1..version \subseteq 1..version' /\ 0..clock \subseteq 0..clock'
    BY <1>1
  <2> QED BY <2>1, <2>2
<1>4. clock' \in 0..MaxClock /\ version' \in 1..MaxVersion
  BY <1>1, CacheAssumption
<1>5. DOMAIN entries' \subseteq Keys /\ Cardinality(DOMAIN entries') <= MaxEntries
      /\ IsFiniteSet(DOMAIN entries')
  BY DEF CacheInv, CacheTypeOK
<1> QED BY <1>2, <1>3, <1>4, <1>5 DEF CacheTypeOK

\* A step that stores nothing: what is in hand. A mark goes only with the last
\* who computes, and a new answer is that of the version.
LEMMA InHandStays ==
  ASSUME CacheInv, UNCHANGED entries, version' \in Nat, version <= version',
         mixed \subseteq mixed' \/ mixed' = StillMixed,
         \A r \in Readers :
           reader'[r].at = "store" => \/ reader[r] = reader'[r]
                                      \/ /\ reader[r].at = "compute"
                                         /\ reader'[r].key = reader[r].key
                                         /\ reader'[r].claimed = reader[r].claimed
                                         /\ reader'[r].val \in {version, Bad}
                                         /\ mixed' = mixed,
         \A r \in Readers :
           reader'[r].at = "compute" /\ ~reader'[r].claimed
             => \/ reader[r] = reader'[r]
                \/ reader'[r].key \in mixed' /\ mixed \subseteq mixed',
         \A k \in Keys :
           refresh'[k].at = "store" => \/ refresh'[k] = refresh[k]
                                       \/ refresh'[k].val \in {version, Bad} /\ mixed' = mixed
  PROVE  Marked' /\ NewerInHand'
<1>1. version \in Nat /\ DOMAIN entries \subseteq Keys
      /\ \A k \in DOMAIN entries : entries[k].val \in Nat /\ entries[k].val <= version
  BY DEF CacheInv, CacheTypeOK
<1>2. \A k \in mixed : \/ k \in mixed'
                       \/ /\ refresh'[k].at = "none"
                          /\ \A r \in Readers : reader'[r].key = k
                               => reader'[r].at \notin {"compute", "store", "done"}
  BY DEF StillMixed
<1>3. Marked'
  <2> SUFFICES ASSUME NEW r \in Readers, reader'[r].at \in {"compute", "store"},
                      ~reader'[r].claimed
               PROVE  reader'[r].key \in mixed'
    BY DEF Marked
  <2>1. CASE reader'[r] = reader[r]
    <3>1. reader'[r].key \in mixed
      BY <2>1 DEF CacheInv, Marked
    <3> QED BY <1>2, <3>1
  <2>2. CASE reader'[r].at = "store" /\ reader'[r] # reader[r]
    BY <2>2 DEF CacheInv, Marked
  <2>3. CASE reader'[r].at = "compute" /\ reader'[r] # reader[r]
    BY <2>3
  <2> QED BY <2>1, <2>2, <2>3
<1>4. NewerInHand'
  <2> SUFFICES ASSUME NEW k \in DOMAIN entries, k \notin mixed'
               PROVE  /\ \A r \in Readers : /\ reader'[r].at = "store" /\ reader'[r].key = k
                                            /\ reader'[r].val # Bad
                                            => reader'[r].val >= entries[k].val
                      /\ refresh'[k].at = "store" /\ refresh'[k].val # Bad
                           => refresh'[k].val >= entries[k].val
    BY DEF NewerInHand
  <2>1. ASSUME NEW r \in Readers, reader'[r].at = "store", reader'[r].key = k, reader'[r].val # Bad
        PROVE  reader'[r].val >= entries[k].val
    <3>1. k \notin mixed
      BY <1>2, <2>1
    <3>2. CASE reader'[r] = reader[r]
      BY <2>1, <3>1, <3>2 DEF CacheInv, NewerInHand
    <3>3. CASE reader'[r].val = version
      BY <1>1, <3>3
    <3> QED BY <2>1, <3>2, <3>3
  <2>2. ASSUME refresh'[k].at = "store", refresh'[k].val # Bad
        PROVE  refresh'[k].val >= entries[k].val
    <3>1. k \notin mixed /\ k \in Keys
      BY <1>1, <1>2, <2>2
    <3>2. CASE refresh'[k] = refresh[k]
      BY <2>2, <3>1, <3>2 DEF CacheInv, NewerInHand
    <3>3. CASE refresh'[k].val = version
      BY <1>1, <3>3
    <3> QED BY <2>2, <3>1, <3>2, <3>3
  <2> QED BY <2>1, <2>2
<1> QED BY <1>3, <1>4

LEMMA StillMixedIs == ASSUME CacheInv PROVE StillMixed \subseteq Keys
  BY DEF StillMixed, CacheInv, CacheTypeOK

\* The lookups, the readers that wait, the clock and the sync loop.
LEMMA LookupCache ==
  ASSUME CacheInv, NEW r \in Readers, NEW k \in Keys, Lookup(r, k)
  PROVE  CacheInv'
<1>1. ClaimInv'
  BY LookupInv DEF CacheInv
<1>2. /\ UNCHANGED <<clock, version, entries, bad, mixed>>
      /\ clock \in 0..MaxClock /\ version \in 1..MaxVersion /\ bad \in 0..MaxBadAnswers
      /\ mixed \subseteq Keys
      /\ \A s \in Readers : reader[s].val \in 0..version
      /\ \A x \in Keys : refresh[x].val \in 0..version
  BY DEF Lookup, CacheInv, CacheTypeOK
<1>3. \A x \in Keys : \/ refresh'[x] = refresh[x]
                      \/ refresh'[x].at = "compute" /\ refresh'[x].val = 0
  BY DEF Lookup, CacheInv, CacheTypeOK, Bad
<1>4. \A s \in Readers : \/ reader'[s] = reader[s]
                         \/ /\ reader'[s].at \in {"wait", "compute"} /\ reader'[s].val = 0
                            /\ reader'[s].at = "compute" => reader'[s].claimed
  <2> TAKE s \in Readers
  <2> DEFINE new == [Idle EXCEPT !.key = k,
                                 !.at = IF k \in inflight THEN "wait" ELSE "compute",
                                 !.claimed = k \notin inflight]
  <2>1. new.at \in {"wait", "compute"} /\ new.val = 0 /\ (new.at = "compute" => new.claimed)
    BY DEF Idle, Bad
  <2>2. UNCHANGED reader \/ reader' = [reader EXCEPT ![r] = new]
    BY DEF Lookup
  <2> HIDE DEF new
  <2> QED BY <2>1, <2>2 DEF CacheInv, CacheTypeOK
<1>5. CacheTypeOK' /\ IsFiniteSet(DOMAIN entries)'
  <2>1. 0 \in 0..version /\ clock' \in clock..MaxClock /\ version' \in version..MaxVersion
    BY <1>2, CacheAssumption
  <2> QED BY <1>1, <1>2, <1>3, <1>4, <2>1, TypesStay
<1>6. Marked' /\ NewerInHand'
  <2>1. version' \in Nat /\ version <= version'
    BY <1>2
  <2> QED BY <1>2, <1>3, <1>4, <2>1, InHandStays
<1> QED BY <1>1, <1>5, <1>6 DEF CacheInv

LEMMA ClockCache ==
  ASSUME CacheInv, CacheTick \/ Sync
  PROVE  CacheInv'
<1>1. ClaimInv'
  BY AsideInv DEF CacheInv
<1>2. /\ UNCHANGED <<entries, inflight, reader, refresh, bad, mixed>>
      /\ clock \in 0..MaxClock /\ version \in 1..MaxVersion /\ bad \in 0..MaxBadAnswers
      /\ mixed \subseteq Keys
      /\ \A s \in Readers : reader[s].val \in 0..version
      /\ \A x \in Keys : refresh[x].val \in 0..version
  BY DEF CacheTick, Sync, CacheInv, CacheTypeOK
<1>3. clock' \in clock..MaxClock /\ version' \in version..MaxVersion
  BY <1>2, CacheAssumption DEF CacheTick, Sync
<1>4. version' \in Nat /\ version <= version' /\ 0..version \subseteq 0..version'
  BY <1>2, <1>3
<1>5. CacheTypeOK' /\ IsFiniteSet(DOMAIN entries)'
  BY <1>1, <1>2, <1>3, <1>4, TypesStay
<1>6. Marked' /\ NewerInHand'
  BY <1>2, <1>4, InHandStays
<1> QED BY <1>1, <1>5, <1>6 DEF CacheInv

LEMMA WaitCache ==
  ASSUME CacheInv, NEW r \in Readers, GiveUp(r) \/ Woken(r)
  PROVE  CacheInv'
<1>1. ClaimInv'
  BY GiveUpInv, WokenInv DEF CacheInv
<1>2. /\ UNCHANGED <<clock, version, entries, bad, refresh>>
      /\ clock \in 0..MaxClock /\ version \in 1..MaxVersion /\ bad \in 0..MaxBadAnswers
      /\ mixed \subseteq Keys
      /\ \A s \in Readers : reader[s].val \in 0..version /\ reader[s].key \in Keys
      /\ \A x \in Keys : refresh[x].val \in 0..version
  BY DEF GiveUp, Woken, CacheInv, CacheTypeOK
<1>3. Idle.val = 0 /\ Idle.at = "idle"
  BY DEF Idle, Bad
<1>4. /\ mixed \subseteq mixed' /\ mixed' \subseteq Keys
      /\ \A s \in Readers \ {r} : reader'[s] = reader[s]
      /\ \/ reader'[r] = Idle
         \/ /\ reader'[r].at = "compute" /\ reader'[r].val = reader[r].val
            /\ reader'[r].key \in mixed'
  <2>1. CASE GiveUp(r)
    BY <1>2, <2>1 DEF GiveUp, CacheInv, CacheTypeOK
  <2>2. CASE Woken(r) /\ Answerable(reader[r].key)
    BY <1>2, <2>2 DEF Woken, CacheInv, CacheTypeOK
  <2>3. CASE Woken(r) /\ ~Answerable(reader[r].key)
    <3>1. reader' = [reader EXCEPT ![r] = [@ EXCEPT !.at = "compute"]]
          /\ mixed' = mixed \union {reader[r].key}
      BY <2>3 DEF Woken
    <3> QED BY <1>2, <3>1 DEF CacheInv, CacheTypeOK
  <2> QED BY <2>1, <2>2, <2>3
<1>5. CacheTypeOK' /\ IsFiniteSet(DOMAIN entries)'
  <2>1. 0 \in 0..version /\ clock' \in clock..MaxClock /\ version' \in version..MaxVersion
    BY <1>2, CacheAssumption
  <2>2. \A s \in Readers : reader'[s].val \in 0..version'
    BY <1>2, <1>3, <1>4, <2>1
  <2> QED BY <1>1, <1>2, <1>4, <2>1, <2>2, TypesStay
<1>6. Marked' /\ NewerInHand'
  <2>1. version' \in Nat /\ version <= version'
    BY <1>2
  <2> QED BY <1>2, <1>3, <1>4, <2>1, InHandStays
<1> QED BY <1>1, <1>5, <1>6 DEF CacheInv

\* A handler ends: its answer is of the version, and the mark stays.
LEMMA ComputeCache ==
  ASSUME CacheInv,
         (\E r \in Readers : Compute(r)) \/ (\E k \in Keys : RefreshCompute(k))
  PROVE  CacheInv'
<1>1. ClaimInv'
  BY ComputeInv, AsideInv DEF CacheInv
<1>2. /\ UNCHANGED <<clock, version, entries, mixed>>
      /\ clock \in 0..MaxClock /\ version \in 1..MaxVersion /\ bad \in 0..MaxBadAnswers
      /\ mixed \subseteq Keys
      /\ \A s \in Readers : reader[s].val \in 0..version
      /\ \A x \in Keys : refresh[x].val \in 0..version
  BY DEF Compute, RefreshCompute, CacheInv, CacheTypeOK
<1>3. ASSUME NEW new \in Answers PROVE new \in {version, Bad} /\ new \in 0..version
  BY <1>2 DEF Answers, Bad
<1>4. bad' \in 0..MaxBadAnswers
  <2>1. PICK new \in Answers : Counted(new)
    BY DEF Compute, RefreshCompute
  <2>2. new = Bad => bad < MaxBadAnswers
    BY <1>2 DEF Answers, Bad
  <2> QED BY <1>2, <2>1, <2>2, CacheAssumption DEF Counted
<1>5. \A s \in Readers : \/ reader'[s] = reader[s]
                         \/ /\ reader[s].at = "compute" /\ reader'[s].at = "store"
                            /\ reader'[s].key = reader[s].key
                            /\ reader'[s].claimed = reader[s].claimed
                            /\ reader'[s].val \in {version, Bad} /\ reader'[s].val \in 0..version
  <2>1. ASSUME NEW r \in Readers, Compute(r)
        PROVE  \A s \in Readers : \/ reader'[s] = reader[s]
                                  \/ /\ reader[s].at = "compute" /\ reader'[s].at = "store"
                                     /\ reader'[s].key = reader[s].key
                                     /\ reader'[s].claimed = reader[s].claimed
                                     /\ reader'[s].val \in {version, Bad} /\ reader'[s].val \in 0..version
    <3>1. PICK new \in Answers : reader' = [reader EXCEPT ![r].at = "store", ![r].val = new]
      BY <2>1 DEF Compute
    <3>2. reader[r].at = "compute"
      BY <2>1 DEF Compute
    <3>3. new \in {version, Bad} /\ new \in 0..version
      BY <1>3
    <3> QED BY <3>1, <3>2, <3>3 DEF CacheInv, CacheTypeOK
  <2>2. ASSUME NEW k \in Keys, RefreshCompute(k)
        PROVE  UNCHANGED reader
    BY <2>2 DEF RefreshCompute
  <2> QED BY <2>1, <2>2
<1>6. \A x \in Keys : \/ refresh'[x] = refresh[x]
                      \/ refresh'[x].val \in {version, Bad} /\ refresh'[x].val \in 0..version
  <2>1. ASSUME NEW r \in Readers, Compute(r)
        PROVE  UNCHANGED refresh
    BY <2>1 DEF Compute
  <2>2. ASSUME NEW k \in Keys, RefreshCompute(k)
        PROVE  \A x \in Keys : \/ refresh'[x] = refresh[x]
                               \/ refresh'[x].val \in {version, Bad} /\ refresh'[x].val \in 0..version
    <3>1. PICK new \in Answers : refresh' = [refresh EXCEPT ![k] = [at |-> "store", val |-> new]]
      BY <2>2 DEF RefreshCompute
    <3>2. new \in {version, Bad} /\ new \in 0..version
      BY <1>3
    <3> QED BY <3>1, <3>2 DEF CacheInv, CacheTypeOK
  <2> QED BY <2>1, <2>2
<1>7. CacheTypeOK' /\ IsFiniteSet(DOMAIN entries)'
  <2>1. clock' \in clock..MaxClock /\ version' \in version..MaxVersion
    BY <1>2, CacheAssumption
  <2> QED BY <1>1, <1>2, <1>4, <1>5, <1>6, <2>1, TypesStay
<1>8. Marked' /\ NewerInHand'
  <2>1. version' \in Nat /\ version <= version'
    BY <1>2
  <2> QED BY <1>2, <1>5, <1>6, <2>1, InHandStays
<1> QED BY <1>1, <1>7, <1>8 DEF CacheInv

\* A claim is given back: nobody starts to compute by it.
LEMMA DoneCache ==
  ASSUME CacheInv,
         (\E r \in Readers : Done(r)) \/ (\E k \in Keys : RefreshDone(k))
  PROVE  CacheInv'
<1>1. ClaimInv'
  BY DoneInv, RefreshDoneInv DEF CacheInv
<1>2. /\ UNCHANGED <<clock, version, entries, bad>> /\ mixed' = StillMixed
      /\ clock \in 0..MaxClock /\ version \in 1..MaxVersion /\ bad \in 0..MaxBadAnswers
      /\ mixed' \subseteq Keys
      /\ \A s \in Readers : reader[s].val \in 0..version
      /\ \A x \in Keys : refresh[x].val \in 0..version
  BY StillMixedIs DEF Done, RefreshDone, CacheInv, CacheTypeOK
<1>3. \A x \in Keys : \/ refresh'[x] = refresh[x]
                      \/ refresh'[x].at = "none" /\ refresh'[x].val = 0
  BY DEF Done, RefreshDone, CacheInv, CacheTypeOK, Quiet, Bad
<1>4. \A s \in Readers : \/ reader'[s] = reader[s]
                         \/ /\ reader'[s].at \in {"idle", "woken"}
                            /\ reader'[s].val \in {0, reader[s].val}
  <2>1. Idle.val = 0 /\ Idle.at = "idle"
    BY DEF Idle, Bad
  <2>2. ASSUME NEW k \in Keys, NEW s \in Readers
        PROVE  \/ Wake(k)[s] = reader[s]
               \/ Wake(k)[s].at = "woken" /\ Wake(k)[s].val = reader[s].val
    BY DEF Wake, CacheInv, CacheTypeOK
  <2>3. ASSUME NEW r \in Readers, Done(r), NEW s \in Readers
        PROVE  reader'[s] = Idle \/ reader'[s] = Wake(reader[r].key)[s]
    BY <2>3 DEF Done, Wake
  <2>4. ASSUME NEW k \in Keys, RefreshDone(k)
        PROVE  reader' = Wake(k)
    BY <2>4 DEF RefreshDone
  <2>5. \A r \in Readers : reader[r].key \in Keys
    BY DEF CacheInv, CacheTypeOK
  <2> QED BY <2>1, <2>2, <2>3, <2>4, <2>5
<1>5. CacheTypeOK' /\ IsFiniteSet(DOMAIN entries)'
  <2>1. 0 \in 0..version /\ clock' \in clock..MaxClock /\ version' \in version..MaxVersion
    BY <1>2, CacheAssumption
  <2>2. \A s \in Readers : reader'[s].val \in 0..version'
    BY <1>2, <1>4, <2>1
  <2>3. \A x \in Keys : refresh'[x].val \in 0..version'
    BY <1>2, <1>3, <2>1
  <2> QED BY <1>1, <1>2, <2>1, <2>2, <2>3, TypesStay
<1>6. Marked' /\ NewerInHand'
  <2>1. version' \in Nat /\ version <= version'
    BY <1>2
  <2> QED BY <1>2, <1>3, <1>4, <2>1, InHandStays
<1> QED BY <1>1, <1>5, <1>6 DEF CacheInv

\* The two steps that may put: the types.
LEMMA TypesPut ==
  ASSUME CacheInv, ClaimInv', NEW k \in Keys, NEW val \in 1..version,
         Put(k, val), UNCHANGED <<clock, version, bad>>, mixed' \subseteq Keys,
         \A r \in Readers : reader'[r].val \in 0..version,
         \A x \in Keys : refresh'[x].val \in 0..version
  PROVE  CacheTypeOK' /\ IsFiniteSet(DOMAIN entries)'
<1>1. /\ DOMAIN entries' \subseteq DOMAIN entries \union {k}
      /\ entries'[k] = [val |-> val, at |-> clock]
      /\ \A x \in DOMAIN entries' \ {k} : entries'[x] = entries[x]
      /\ IsFiniteSet(DOMAIN entries')
      /\ Cardinality(DOMAIN entries') <= MaxEntries
  BY PutIs DEF CacheInv
<1>2. clock \in 0..MaxClock /\ version \in 1..MaxVersion /\ bad \in 0..MaxBadAnswers
      /\ clock \in 0..clock /\ DOMAIN entries \subseteq Keys
  BY CacheAssumption DEF CacheInv, CacheTypeOK
<1>3. \A x \in DOMAIN entries' : entries'[x] \in [val : 1..version, at : 0..clock]
  BY <1>1, <1>2 DEF CacheInv, CacheTypeOK
<1>4. /\ reader' \in [Readers -> [at : {"idle", "wait", "woken", "compute", "store", "done"},
                                  key : Keys, val : 0..version, claimed : BOOLEAN]]
      /\ refresh' \in [Keys -> [at : {"none", "compute", "store", "done"}, val : 0..version]]
      /\ inflight' \subseteq Keys
  BY DEF ClaimInv, CacheStages, Reader, Refresh, Stages
<1> QED BY <1>1, <1>2, <1>3, <1>4 DEF CacheTypeOK

\* What is about to be stored is the only answer in hand for its key, unless the
\* key is marked.
LEMMA OneInHand ==
  /\ CacheInv => \A r, s \in Readers :
       /\ reader[r].at = "store" /\ reader[s].at = "store" /\ reader[r].key = reader[s].key
       /\ reader[r].key \notin mixed
       => r = s
  /\ CacheInv => \A r \in Readers :
       reader[r].at = "store" /\ reader[r].key \notin mixed => refresh[reader[r].key].at = "none"
  BY DEF CacheInv, Marked, ClaimInv, ClaimHeld

\* A reader's answer goes into the map.
LEMMA StoreCache ==
  ASSUME CacheInv, NEW r \in Readers, Store(r)
  PROVE  CacheInv'
<1> DEFINE k == reader[r].key
           val == reader[r].val
<1>1. ClaimInv'
  BY StoreInv DEF CacheInv
<1>2. /\ UNCHANGED <<clock, version, bad, refresh>> /\ mixed' = StillMixed
      /\ reader[r].at = "store" /\ k \in Keys /\ val \in 0..version
      /\ clock \in 0..MaxClock /\ version \in 1..MaxVersion /\ bad \in 0..MaxBadAnswers
      /\ mixed' \subseteq Keys
      /\ \A s \in Readers : reader[s].val \in 0..version
      /\ \A x \in Keys : refresh[x].val \in 0..version
  BY StillMixedIs DEF Store, CacheInv, CacheTypeOK
<1>3. /\ \A s \in Readers \ {r} : reader'[s] = reader[s]
      /\ reader'[r].at \in {"idle", "done"} /\ reader'[r].val \in 0..version
  <2>1. Idle.val = 0 /\ Idle.at = "idle" /\ 0 \in 0..version
    BY <1>2 DEF Idle, Bad
  <2>2. \/ reader' = [reader EXCEPT ![r] = Idle]
        \/ reader' = [reader EXCEPT ![r] = [@ EXCEPT !.at = "done"]]
    BY DEF Store
  <2> QED BY <1>2, <2>1, <2>2 DEF CacheInv, CacheTypeOK
<1>4. \A s \in Readers : reader'[s].val \in 0..version
  BY <1>2, <1>3
<1>5. CASE val = Bad
  <2>1. UNCHANGED entries
    BY <1>5 DEF Store
  <2>2. clock' \in clock..MaxClock /\ version' \in version..MaxVersion
    BY <1>2, CacheAssumption
  <2>3. CacheTypeOK' /\ IsFiniteSet(DOMAIN entries)'
    BY <1>1, <1>2, <1>4, <2>1, <2>2, TypesStay
  <2>4. version' \in Nat /\ version <= version'
    BY <1>2
  <2>5. Marked' /\ NewerInHand'
    BY <1>2, <1>3, <2>1, <2>4, InHandStays
  <2> QED BY <1>1, <2>3, <2>5 DEF CacheInv
<1>6. CASE val # Bad
  <2>1. Put(k, val) /\ val \in 1..version
    BY <1>2, <1>6 DEF Store, Bad
  <2>2. CacheTypeOK' /\ IsFiniteSet(DOMAIN entries)'
    BY <1>1, <1>2, <1>4, <2>1, TypesPut
  <2>3. /\ DOMAIN entries' \subseteq DOMAIN entries \union {k}
        /\ entries'[k].val = val
        /\ \A x \in DOMAIN entries' \ {k} : entries'[x] = entries[x]
    BY <1>2, <2>1, PutIs DEF CacheInv
  <2>4. \A x \in mixed : \/ x \in mixed'
                         \/ /\ refresh[x].at = "none"
                            /\ \A s \in Readers : reader'[s].key = x
                                 => reader'[s].at \notin {"compute", "store", "done"}
    BY <1>2 DEF StillMixed
  <2>5. Marked'
    BY <1>3, <2>4 DEF Marked, CacheInv
  <2>6. NewerInHand'
    <3> SUFFICES ASSUME NEW x \in DOMAIN entries', x \notin mixed'
                 PROVE  /\ \A s \in Readers : /\ reader'[s].at = "store" /\ reader'[s].key = x
                                              /\ reader'[s].val # Bad
                                              => reader'[s].val >= entries'[x].val
                        /\ refresh'[x].at = "store" /\ refresh'[x].val # Bad
                             => refresh'[x].val >= entries'[x].val
      BY DEF NewerInHand
    <3>1. ASSUME NEW s \in Readers, reader'[s].at = "store", reader'[s].key = x,
                 reader'[s].val # Bad
          PROVE  reader'[s].val >= entries'[x].val
      <4>1. s # r /\ reader'[s] = reader[s] /\ x \notin mixed
        BY <1>3, <2>4, <3>1
      <4>2. x # k
        BY <1>2, <3>1, <4>1, OneInHand
      <4> QED BY <2>3, <3>1, <4>1, <4>2 DEF CacheInv, NewerInHand
    <3>2. ASSUME refresh'[x].at = "store", refresh'[x].val # Bad
          PROVE  refresh'[x].val >= entries'[x].val
      <4>1. x \notin mixed /\ refresh'[x] = refresh[x]
        BY <1>2, <2>4, <3>2
      <4>2. x # k
        BY <1>2, <3>2, <4>1, OneInHand
      <4> QED BY <2>3, <3>2, <4>1, <4>2 DEF CacheInv, NewerInHand
    <3> QED BY <3>1, <3>2
  <2> QED BY <1>1, <2>2, <2>5, <2>6 DEF CacheInv
<1> QED BY <1>5, <1>6

\* A refresh's answer goes into the map.
LEMMA RefreshStoreCache ==
  ASSUME CacheInv, NEW k \in Keys, RefreshStore(k)
  PROVE  CacheInv'
<1> DEFINE val == refresh[k].val
<1>1. ClaimInv'
  BY AsideInv DEF CacheInv
<1>2. /\ UNCHANGED <<clock, version, bad, reader, mixed>>
      /\ refresh[k].at = "store" /\ val \in 0..version
      /\ clock \in 0..MaxClock /\ version \in 1..MaxVersion /\ bad \in 0..MaxBadAnswers
      /\ mixed' \subseteq Keys
      /\ \A s \in Readers : reader[s].val \in 0..version
      /\ \A x \in Keys : refresh[x].val \in 0..version
  BY DEF RefreshStore, CacheInv, CacheTypeOK
<1>3. /\ \A x \in Keys \ {k} : refresh'[x] = refresh[x]
      /\ refresh'[k].at = "done" /\ refresh'[k].val = val
  <2>1. refresh' = [refresh EXCEPT ![k].at = "done"]
    BY DEF RefreshStore
  <2> QED BY <2>1 DEF CacheInv, CacheTypeOK
<1>4. \A x \in Keys : refresh'[x].val \in 0..version
  BY <1>2, <1>3
<1>5. CASE val = Bad
  <2>1. UNCHANGED entries
    BY <1>5 DEF RefreshStore
  <2>2. clock' \in clock..MaxClock /\ version' \in version..MaxVersion
    BY <1>2, CacheAssumption
  <2>3. CacheTypeOK' /\ IsFiniteSet(DOMAIN entries)'
    BY <1>1, <1>2, <1>4, <2>1, <2>2, TypesStay
  <2>4. version' \in Nat /\ version <= version'
    BY <1>2
  <2>5. Marked' /\ NewerInHand'
    BY <1>2, <1>3, <2>1, <2>4, InHandStays
  <2> QED BY <1>1, <2>3, <2>5 DEF CacheInv
<1>6. CASE val # Bad
  <2>1. Put(k, val) /\ val \in 1..version
    BY <1>2, <1>6 DEF RefreshStore, Bad
  <2>2. CacheTypeOK' /\ IsFiniteSet(DOMAIN entries)'
    BY <1>1, <1>2, <1>4, <2>1, TypesPut
  <2>3. /\ DOMAIN entries' \subseteq DOMAIN entries \union {k}
        /\ entries'[k].val = val
        /\ \A x \in DOMAIN entries' \ {k} : entries'[x] = entries[x]
        /\ DOMAIN entries \subseteq Keys
    BY <1>2, <2>1, PutIs DEF CacheInv, CacheTypeOK
  <2>5. Marked'
    BY <1>2 DEF Marked, CacheInv
  <2>6. NewerInHand'
    <3> SUFFICES ASSUME NEW x \in DOMAIN entries', x \notin mixed'
                 PROVE  /\ \A s \in Readers : /\ reader'[s].at = "store" /\ reader'[s].key = x
                                              /\ reader'[s].val # Bad
                                              => reader'[s].val >= entries'[x].val
                        /\ refresh'[x].at = "store" /\ refresh'[x].val # Bad
                             => refresh'[x].val >= entries'[x].val
      BY DEF NewerInHand
    <3>1. CASE x = k
      <4>1. \A s \in Readers : reader'[s].key = x => reader'[s].at # "store"
        BY <1>2, <3>1, OneInHand
      <4> QED BY <1>3, <3>1, <4>1
    <3>2. CASE x # k
      <4>1. x \in DOMAIN entries /\ x \in Keys /\ entries'[x] = entries[x]
            /\ refresh'[x] = refresh[x] /\ x \notin mixed
        BY <1>2, <1>3, <2>3, <3>2
      <4> QED BY <1>2, <4>1 DEF CacheInv, NewerInHand
    <3> QED BY <3>1, <3>2
  <2> QED BY <1>1, <2>2, <2>5, <2>6 DEF CacheInv
<1> QED BY <1>5, <1>6

LEMMA CacheStepInv == CacheInv /\ [CacheNext]_cacheVars => CacheInv'
<1> SUFFICES ASSUME CacheInv, [CacheNext]_cacheVars PROVE CacheInv'
  OBVIOUS
<1>1. CASE CacheTick \/ Sync
  BY <1>1, ClockCache
<1>2. ASSUME NEW k \in Keys, Refreshing(k)
      PROVE  CacheInv'
  BY <1>2, ComputeCache, RefreshStoreCache, DoneCache DEF Refreshing
<1>3. ASSUME NEW r \in Readers, GiveUp(r) \/ Serving(r) \/ \E k \in Keys : Lookup(r, k)
      PROVE  CacheInv'
  BY <1>3, WaitCache, ComputeCache, StoreCache, DoneCache, LookupCache DEF Serving
<1>4. CASE UNCHANGED cacheVars
  <2>1. ClaimInv'
    BY <1>4, ClaimStepInv DEF CacheInv
  <2>2. CacheTypeOK' /\ IsFiniteSet(DOMAIN entries)' /\ Marked' /\ NewerInHand'
    BY <1>4 DEF cacheVars, CacheInv, CacheTypeOK, Marked, NewerInHand
  <2> QED BY <2>1, <2>2 DEF CacheInv
<1> QED BY <1>1, <1>2, <1>3, <1>4 DEF CacheNext

LEMMA CacheInvHolds == CacheSpec => []CacheInv
  BY CacheInitInv, CacheStepInv, PTL DEF CacheSpec

\* The types hold for any readers, keys and windows, among them that the map
\* never outgrows cacheMaxEntries (put in cache.go) and that no entry is newer
\* than the database.
THEOREM CacheTypes == CacheSpec => []CacheTypeOK
<1>1. CacheInv => CacheTypeOK
  BY DEF CacheInv
<1> QED BY <1>1, CacheInvHolds, PTL

-----------------------------------------------------------------------------
\* Only the two steps that store change the entries, and both put what they have
\* in hand.
LEMMA OnlyPuts ==
  ASSUME CacheInv, CacheNext
  PROVE  \/ UNCHANGED entries
         \/ \E r \in Readers : /\ reader[r].at = "store" /\ reader[r].val # Bad
                               /\ Put(reader[r].key, reader[r].val)
         \/ \E k \in Keys : /\ refresh[k].at = "store" /\ refresh[k].val # Bad
                            /\ Put(k, refresh[k].val)
<1>1. CASE CacheTick \/ Sync
  BY <1>1 DEF CacheTick, Sync
<1>2. ASSUME NEW r \in Readers, GiveUp(r) \/ Woken(r) \/ Compute(r) \/ Done(r)
             \/ \E k \in Keys : Lookup(r, k)
      PROVE  UNCHANGED entries
  BY <1>2 DEF GiveUp, Woken, Compute, Done, Lookup
<1>3. ASSUME NEW k \in Keys, RefreshCompute(k) \/ RefreshDone(k)
      PROVE  UNCHANGED entries
  BY <1>3 DEF RefreshCompute, RefreshDone
<1>4. ASSUME NEW r \in Readers, Store(r)
      PROVE  UNCHANGED entries \/ (/\ reader[r].at = "store" /\ reader[r].val # Bad
                                   /\ Put(reader[r].key, reader[r].val))
  BY <1>4 DEF Store
<1>5. ASSUME NEW k \in Keys, RefreshStore(k)
      PROVE  UNCHANGED entries \/ (/\ refresh[k].at = "store" /\ refresh[k].val # Bad
                                   /\ Put(k, refresh[k].val))
  BY <1>5 DEF RefreshStore
<1> QED BY <1>1, <1>2, <1>3, <1>4, <1>5 DEF CacheNext, Serving, Refreshing

\* However readers, waiters and refreshes of a key overlap, its answer never goes
\* back to an older one, unless a waiter computes it unclaimed (WithResponseCache
\* and refresh in cache.go).
THEOREM AnswersGetNewer == CacheSpec => CacheNeverOlder
<1>1. CacheInv /\ [CacheNext]_cacheVars =>
        [\A k \in DOMAIN entries : k \in DOMAIN entries' =>
           entries'[k].val >= entries[k].val \/ k \in mixed]_cacheVars
  <2> SUFFICES ASSUME CacheInv, CacheNext, NEW k \in DOMAIN entries, k \in DOMAIN entries',
                      k \notin mixed
               PROVE  entries'[k].val >= entries[k].val
    OBVIOUS
  <2>1. entries[k].val \in Nat
    BY DEF CacheInv, CacheTypeOK
  <2>2. CASE UNCHANGED entries
    BY <2>1, <2>2
  <2>3. ASSUME NEW r \in Readers, reader[r].at = "store", reader[r].val # Bad,
               Put(reader[r].key, reader[r].val)
        PROVE  entries'[k].val >= entries[k].val
    <3>1. reader[r].key \in Keys
      BY DEF CacheInv, CacheTypeOK
    <3>2. /\ entries'[reader[r].key].val = reader[r].val
          /\ \A x \in DOMAIN entries' \ {reader[r].key} : entries'[x] = entries[x]
      BY <2>3, <3>1, PutIs DEF CacheInv
    <3> QED BY <2>1, <2>3, <3>2 DEF CacheInv, NewerInHand
  <2>4. ASSUME NEW x \in Keys, refresh[x].at = "store", refresh[x].val # Bad,
               Put(x, refresh[x].val)
        PROVE  entries'[k].val >= entries[k].val
    <3>1. /\ entries'[x].val = refresh[x].val
          /\ \A y \in DOMAIN entries' \ {x} : entries'[y] = entries[y]
      BY <2>4, PutIs DEF CacheInv
    <3> QED BY <2>1, <2>4, <3>1 DEF CacheInv, NewerInHand
  <2> QED BY <2>2, <2>3, <2>4, OnlyPuts
<1> QED BY <1>1, CacheInvHolds, PTL DEF CacheSpec, CacheNeverOlder

\* An entry that can still be served leaves the map only when the map is full of
\* such entries (put in cache.go).
THEOREM ServableIsKept == CacheSpec => CacheKeepsGood
<1>1. CacheInv /\ [CacheNext]_cacheVars =>
        [\A k \in Keys : Answerable(k) /\ k \notin DOMAIN entries' =>
           Cardinality({x \in DOMAIN entries : Answerable(x)}) >= MaxEntries]_cacheVars
  <2> SUFFICES ASSUME CacheInv, CacheNext, NEW k \in Keys, Answerable(k),
                      k \notin DOMAIN entries'
               PROVE  Cardinality({x \in DOMAIN entries : Answerable(x)}) >= MaxEntries
    OBVIOUS
  <2>1. entries' # entries
    BY DEF Answerable
  <2> QED BY <2>1, OnlyPuts, PutDrops
<1> QED BY <1>1, CacheInvHolds, PTL DEF CacheSpec, CacheKeepsGood

-----------------------------------------------------------------------------
(***************************************************************************)
(* IPLimiter: its types, that the counter the concurrency cap goes by is   *)
(* the number of requests that run, and that it implements RateLimit.      *)
(*                                                                         *)
(* The invariant adds to that count that a running request still owns the  *)
(* bucket in the map (StillOwned): a sweep drops no bucket that counts     *)
(* one, so a late release finds the counter it was charged to.             *)
(***************************************************************************)

StillOwned == \A r \in Requests : request[r].at = "running" => request[r].owned

LimiterInv == LimiterTypeOK /\ LimiterCountsRunning /\ StillOwned

Bucket(t) == [made : BOOLEAN, tokens : 0..Cap, refilled : 0..t,
              inFlight : 0..Concurrent, seen : 0..t]

Request == [at : {"idle", "running"}, addr : Addresses, owned : BOOLEAN]

-----------------------------------------------------------------------------
LEMMA RunningFinite ==
  ASSUME NEW a
  PROVE  IsFiniteSet(Running(a)) /\ Cardinality(Running(a)) \in Nat
<1>1. Running(a) \subseteq Requests
  BY DEF Running
<1>2. IsFiniteSet(Running(a))
  BY <1>1, LimiterAssumption, FS_Subset
<1> QED BY <1>2, FS_CardinalityType

LEMMA TypesOf ==
  ASSUME LimiterInv
  PROVE  /\ ticks \in 0..MaxTicks /\ ticks \in Nat
         /\ buckets \in [Addresses -> Bucket(ticks)]
         /\ request \in [Requests -> Request]
  BY LimiterAssumption DEF LimiterInv, LimiterTypeOK, Bucket, Request

LEMMA NoRequestType == NoRequest \in Request
<1>1. (CHOOSE a \in Addresses : TRUE) \in Addresses
  BY LimiterAssumption
<1> QED BY <1>1 DEF NoRequest, Request

LEMMA NotRunning ==
  ASSUME LimiterInv, NEW a \in Addresses
  PROVE  buckets[a].inFlight = 0 <=> Running(a) = {}
  BY RunningFinite, FS_EmptySet DEF LimiterInv, LimiterCountsRunning

\* A sweep leaves the count of every bucket, and every bucket that counts.
LEMMA SweepKeeps ==
  ASSUME LimiterInv, NEW a \in Addresses
  PROVE  /\ AfterSweep(a) \in Bucket(ticks)
         /\ AfterSweep(a).inFlight = buckets[a].inFlight
         /\ Running(a) # {} => AfterSweep(a).made
<1>1. buckets[a] \in Bucket(ticks)
  BY TypesOf
<1>2. CASE SweepDue /\ Swept(a)
  <2>1. AfterSweep(a) = Gone
    BY <1>2 DEF AfterSweep
  <2>2. buckets[a].inFlight = 0
    BY <1>2 DEF Swept
  <2>3. Gone \in Bucket(ticks)
    <3>1. 0 \in 0..ticks /\ 0 \in 0..Cap /\ 0 \in 0..Concurrent
      BY TypesOf, LimiterAssumption
    <3> QED BY <3>1 DEF Gone, Bucket
  <2>4. Gone.inFlight = 0
    BY DEF Gone
  <2> QED BY <2>1, <2>2, <2>3, <2>4, NotRunning
<1>3. CASE ~(SweepDue /\ Swept(a))
  <2>1. AfterSweep(a) = buckets[a]
    BY <1>3 DEF AfterSweep
  <2> QED BY <1>1, <2>1 DEF LimiterInv, LimiterCountsRunning
<1> QED BY <1>2, <1>3

\* The refill makes a bucket that is not there, which counts nobody, and leaves
\* the count of one that is.
LEMMA RefillKeeps ==
  ASSUME LimiterInv, NEW a \in Addresses
  PROVE  /\ Refilled(a) \in Bucket(ticks)
         /\ Refilled(a).made
         /\ Refilled(a).inFlight = buckets[a].inFlight
<1> DEFINE new == [made |-> TRUE, tokens |-> Cap, refilled |-> ticks, inFlight |-> 0, seen |-> ticks]
           b == IF AfterSweep(a).made THEN AfterSweep(a) ELSE new
           units == b.tokens + (ticks - b.refilled) * Rate
<1>1. ticks \in Nat
  BY TypesOf
<1>2. new \in Bucket(ticks) /\ new.made = TRUE /\ new.inFlight = 0
  BY <1>1, LimiterAssumption DEF Bucket
<1>3. b \in Bucket(ticks) /\ b.made /\ b.inFlight = buckets[a].inFlight
  <2>1. CASE AfterSweep(a).made
    BY <2>1, SweepKeeps
  <2>2. CASE ~AfterSweep(a).made
    <3>1. Running(a) = {}
      BY <2>2, SweepKeeps
    <3>2. buckets[a].inFlight = 0
      BY <3>1, NotRunning
    <3> HIDE DEF new
    <3> QED BY <1>2, <2>2, <3>2
  <2> QED BY <2>1, <2>2
<1> HIDE DEF b
<1>4. units \in Nat
  <2>1. b.tokens \in Nat /\ ticks - b.refilled \in Nat
    BY <1>1, <1>3, LimiterAssumption DEF Bucket
  <2>2. \A x, y \in Nat : x * y \in Nat
    OBVIOUS
  <2>3. (ticks - b.refilled) * Rate \in Nat
    BY <2>1, <2>2, LimiterAssumption
  <2> QED BY <2>1, <2>3
<1> HIDE DEF units
<1>5. Refilled(a) = [b EXCEPT !.tokens = IF units > Cap THEN Cap ELSE units,
                              !.refilled = ticks, !.seen = ticks]
  BY DEF Refilled, b, units
<1>6. (IF units > Cap THEN Cap ELSE units) \in 0..Cap /\ ticks \in 0..ticks
  BY <1>1, <1>4, LimiterAssumption
<1> QED BY <1>3, <1>5, <1>6 DEF Bucket

-----------------------------------------------------------------------------
LEMMA LimiterInitInv == LimiterInit => LimiterInv
<1> SUFFICES ASSUME LimiterInit PROVE LimiterInv
  OBVIOUS
<1> USE LimiterAssumption DEF LimiterInit
<1>1. Gone \in Bucket(0) /\ Gone.inFlight = 0
  BY DEF Gone, Bucket
<1>2. request \in [Requests -> Request] /\ \A r \in Requests : request[r].at = "idle"
  BY NoRequestType DEF NoRequest
<1>3. LimiterTypeOK
  <2>1. buckets \in [Addresses -> Bucket(ticks)]
    BY <1>1
  <2>2. answer \in [ok : BOOLEAN, wait : Nat]
    BY DEF Silent
  <2>3. ticks \in 0..MaxTicks /\ lastSweep \in (0 - SweepEvery)..ticks
    OBVIOUS
  <2> QED BY <1>2, <2>1, <2>2, <2>3, Zenon DEF LimiterTypeOK, Bucket, Request
<1>4. \A a : Running(a) = {}
  BY <1>2 DEF Running
<1>5. LimiterCountsRunning
  BY <1>1, <1>4, FS_EmptySet DEF LimiterCountsRunning
<1>6. StillOwned
  BY <1>2 DEF StillOwned
<1> QED BY <1>3, <1>5, <1>6 DEF LimiterInv

LEMMA TickInv ==
  ASSUME LimiterInv, LimiterTick
  PROVE  LimiterInv'
<1> USE LimiterAssumption DEF LimiterTick
<1>1. ticks' \in 0..MaxTicks /\ lastSweep' \in (0 - SweepEvery)..ticks'
  BY DEF LimiterInv, LimiterTypeOK
<1>2. Bucket(ticks) \subseteq Bucket(ticks')
  <2>1. 0..ticks \subseteq 0..ticks'
    BY TypesOf
  <2> QED BY <2>1 DEF Bucket
<1>3. buckets' \in [Addresses -> Bucket(ticks')]
  BY <1>2, TypesOf
<1>4. answer' \in [ok : BOOLEAN, wait : Nat]
  BY DEF Silent
<1>5. request' \in [Requests -> Request]
  BY TypesOf
<1>6. LimiterTypeOK'
  BY <1>1, <1>3, <1>4, <1>5, Zenon DEF LimiterTypeOK, Bucket, Request
<1>7. LimiterCountsRunning' /\ StillOwned'
  BY DEF LimiterInv, LimiterCountsRunning, Running, StillOwned
<1> QED BY <1>6, <1>7 DEF LimiterInv

\* A request that is admitted is counted in the bucket it is charged to; nobody
\* else's bucket is lost to the sweep.
LEMMA AcquireInv ==
  ASSUME LimiterInv, NEW r \in Requests, NEW a \in Addresses, Acquire(r, a)
  PROVE  LimiterInv'
<1> USE LimiterAssumption
<1> DEFINE b == Refilled(a)
           swept == [x \in Addresses |-> AfterSweep(x)]
           admitted == b.tokens >= Cost /\ b.inFlight < Concurrent
           left == IF b.tokens < Cost THEN b
                   ELSE IF b.inFlight >= Concurrent THEN b
                   ELSE [b EXCEPT !.tokens = @ - Cost, !.inFlight = @ + 1]
           started == [at |-> "running", addr |-> a, owned |-> TRUE]
<1>1. /\ request[r].at = "idle"
      /\ buckets' = [swept EXCEPT ![a] = left]
      /\ answer' = IF admitted THEN Silent
                   ELSE [ok |-> FALSE, wait |-> IF b.tokens < Cost THEN Wait(b.tokens) ELSE 1]
      /\ request' = [x \in Requests |->
            IF x = r /\ admitted THEN started
            ELSE IF request[x].at = "running" /\ ~swept[request[x].addr].made
            THEN [request[x] EXCEPT !.owned = FALSE] ELSE request[x]]
      /\ lastSweep' = IF SweepDue THEN ticks ELSE lastSweep
      /\ UNCHANGED ticks
  BY Zenon DEF Acquire, Early
<1>2. b \in Bucket(ticks) /\ b.made /\ b.inFlight = buckets[a].inFlight
  BY RefillKeeps
<1>3. \A x \in Addresses : /\ swept[x] \in Bucket(ticks)
                           /\ swept[x].inFlight = buckets[x].inFlight
                           /\ Running(x) # {} => swept[x].made
  BY SweepKeeps
<1> HIDE DEF b, swept
<1>4. /\ left \in Bucket(ticks) /\ left.made
      /\ left.inFlight = IF admitted THEN buckets[a].inFlight + 1 ELSE buckets[a].inFlight
  <2>1. b.tokens \in 0..Cap /\ b.inFlight \in 0..Concurrent
    BY <1>2 DEF Bucket
  <2>2. CASE admitted
    <3>1. left = [b EXCEPT !.tokens = @ - Cost, !.inFlight = @ + 1]
      BY <2>1, <2>2
    <3>2. b.tokens - Cost \in 0..Cap /\ b.inFlight + 1 \in 0..Concurrent
      BY <2>1, <2>2
    <3>3. left \in Bucket(ticks)
      BY <1>2, <3>1, <3>2 DEF Bucket
    <3>4. left.made = b.made /\ left.inFlight = b.inFlight + 1
      BY <1>2, <3>1 DEF Bucket
    <3> QED BY <1>2, <2>2, <3>3, <3>4
  <2>3. CASE ~admitted
    <3>1. left = b
      BY <2>1, <2>3
    <3> HIDE DEF left, admitted
    <3> QED BY <1>2, <2>3, <3>1
  <2> QED BY <2>2, <2>3
<1> HIDE DEF left
<1>5. \A x \in Requests : request[x].at = "running" => swept[request[x].addr].made
  <2> TAKE x \in Requests
  <2>1. request[x].addr \in Addresses
    BY TypesOf DEF Request
  <2> QED BY <1>3, <2>1 DEF Running
<1>6. request' = IF admitted THEN [request EXCEPT ![r] = started] ELSE request
  <2>1. \A x \in Requests : request'[x] = IF x = r /\ admitted THEN started ELSE request[x]
    BY <1>1, <1>5
  <2>2. DOMAIN request' = Requests /\ request' = [x \in Requests |-> request'[x]]
    BY <1>1
  <2> HIDE DEF admitted, started
  <2> QED BY <2>1, <2>2, TypesOf
<1>7. started \in Request
  BY DEF Request
<1>8. LimiterTypeOK'
  <2>1. buckets' \in [Addresses -> Bucket(ticks)]
    <3>1. swept \in [Addresses -> Bucket(ticks)]
      BY <1>3 DEF swept
    <3> QED BY <1>1, <1>4, <3>1
  <2>2. request' \in [Requests -> Request]
    <3> HIDE DEF admitted, started
    <3> QED BY <1>6, <1>7, TypesOf
  <2>3. answer' \in [ok : BOOLEAN, wait : Nat]
    <3>1. b.tokens < Cost => Wait(b.tokens) \in Nat
      <4>1. b.tokens \in Nat
        BY <1>2 DEF Bucket
      <4>2. \A n \in Nat : n \div Rate \in Nat
        OBVIOUS
      <4> QED BY <4>1, <4>2 DEF Wait
    <3>2. Silent \in [ok : BOOLEAN, wait : Nat]
      BY DEF Silent
    <3> HIDE DEF admitted
    <3> QED BY <1>1, <3>1, <3>2
  <2>4. lastSweep' \in (0 - SweepEvery)..ticks
    BY <1>1 DEF LimiterInv, LimiterTypeOK
  <2> QED BY <1>1, <2>1, <2>2, <2>3, <2>4, TypesOf, Zenon DEF LimiterTypeOK, Bucket, Request
<1>9. StillOwned'
  <2> HIDE DEF admitted
  <2> QED BY <1>6, TypesOf DEF LimiterInv, StillOwned
<1>10. \A x \in Addresses : Running(x)' = IF admitted /\ x = a THEN Running(x) \union {r} ELSE Running(x)
  <2> HIDE DEF admitted
  <2> QED BY <1>1, <1>6, TypesOf DEF Running
<1>11. r \notin Running(a)
  BY <1>1 DEF Running
<1>12. LimiterCountsRunning'
  <2> SUFFICES ASSUME NEW x \in Addresses
               PROVE  /\ buckets'[x].inFlight = Cardinality(Running(x)')
                      /\ Running(x)' # {} => buckets'[x].made
    BY DEF LimiterCountsRunning
  <2>1. buckets[x].inFlight = Cardinality(Running(x))
    BY DEF LimiterInv, LimiterCountsRunning
  <2>2. CASE x = a
    <3>1. buckets'[x] = left
      BY <1>1, <2>2 DEF swept
    <3>2. Cardinality(Running(a) \union {r}) = Cardinality(Running(a)) + 1
      BY <1>11, RunningFinite, FS_AddElement
    <3> HIDE DEF admitted
    <3> QED BY <1>4, <1>10, <2>1, <2>2, <3>1, <3>2
  <2>3. CASE x # a
    <3>1. buckets'[x] = swept[x]
      BY <1>1, <2>3 DEF swept
    <3>2. Running(x)' = Running(x)
      BY <1>10, <2>3
    <3> QED BY <1>3, <2>1, <3>1, <3>2
  <2> QED BY <2>2, <2>3
<1> QED BY <1>8, <1>9, <1>12 DEF LimiterInv

\* A release takes away the request from the bucket it was counted in.
LEMMA ReleaseInv ==
  ASSUME LimiterInv, NEW r \in Requests, Release(r)
  PROVE  LimiterInv'
<1> USE LimiterAssumption
<1> DEFINE a == request[r].addr
<1>1. a \in Addresses /\ request[r].at = "running" /\ r \in Running(a) /\ request[r].owned
  BY TypesOf DEF Release, Request, Running, LimiterInv, StillOwned
<1>2. buckets[a].inFlight = Cardinality(Running(a)) /\ buckets[a].made
  BY <1>1 DEF LimiterInv, LimiterCountsRunning
<1>3. buckets[a].inFlight > 0 /\ buckets[a].inFlight \in 0..Concurrent
  <2>1. buckets[a].inFlight # 0
    BY <1>1, NotRunning
  <2>2. buckets[a] \in Bucket(ticks)
    BY <1>1, TypesOf
  <2> QED BY <2>1, <2>2 DEF Bucket
<1>4. /\ request' = [request EXCEPT ![r] = NoRequest]
      /\ buckets' = [buckets EXCEPT ![a].inFlight = buckets[a].inFlight - 1]
      /\ answer' = Silent /\ UNCHANGED <<ticks, lastSweep>>
  <2>1. buckets' = [buckets EXCEPT ![a].inFlight =
                      IF request[r].owned /\ @ > 0 THEN @ - 1 ELSE @]
    BY DEF Release
  <2> HIDE DEF a
  <2>2. buckets' = [buckets EXCEPT ![a].inFlight = buckets[a].inFlight - 1]
    BY <1>1, <1>3, <2>1
  <2> QED BY <2>2 DEF Release
<1> HIDE DEF a
<1>5. LimiterTypeOK'
  <2>1. buckets' \in [Addresses -> Bucket(ticks)]
    <3>1. buckets[a].inFlight - 1 \in 0..Concurrent
      BY <1>3
    <3> QED BY <1>1, <1>4, <3>1, TypesOf DEF Bucket
  <2>2. request' \in [Requests -> Request]
    BY <1>4, TypesOf, NoRequestType
  <2>3. answer' \in [ok : BOOLEAN, wait : Nat]
    BY <1>4 DEF Silent
  <2> QED BY <1>4, <2>1, <2>2, <2>3, Zenon DEF LimiterInv, LimiterTypeOK, Bucket, Request
<1>6. StillOwned'
  BY <1>4, TypesOf DEF LimiterInv, StillOwned, NoRequest
<1>7. \A x \in Addresses : Running(x)' = IF x = a THEN Running(x) \ {r} ELSE Running(x)
  BY <1>1, <1>4, TypesOf DEF Running, NoRequest, a
<1>8. LimiterCountsRunning'
  <2> SUFFICES ASSUME NEW x \in Addresses
               PROVE  /\ buckets'[x].inFlight = Cardinality(Running(x)')
                      /\ Running(x)' # {} => buckets'[x].made
    BY DEF LimiterCountsRunning
  <2>1. CASE x = a
    <3>1. Cardinality(Running(a) \ {r}) = Cardinality(Running(a)) - 1
      BY <1>1, RunningFinite, FS_RemoveElement
    <3>2. buckets'[a].inFlight = buckets[a].inFlight - 1 /\ buckets'[a].made = buckets[a].made
      BY <1>1, <1>4, TypesOf DEF Bucket
    <3> QED BY <1>2, <1>7, <2>1, <3>1, <3>2
  <2>2. CASE x # a
    <3>1. buckets'[x] = buckets[x] /\ Running(x)' = Running(x)
      BY <1>4, <1>7, <2>2, TypesOf
    <3> QED BY <3>1 DEF LimiterInv, LimiterCountsRunning
  <2> QED BY <2>1, <2>2
<1> QED BY <1>5, <1>6, <1>8 DEF LimiterInv

LEMMA LimiterStepInv == LimiterInv /\ [LimiterNext]_limiterVars => LimiterInv'
<1> SUFFICES ASSUME LimiterInv, [LimiterNext]_limiterVars PROVE LimiterInv'
  OBVIOUS
<1>1. CASE LimiterNext
  BY <1>1, TickInv, ReleaseInv, AcquireInv DEF LimiterNext
<1>2. CASE UNCHANGED limiterVars
  <2>1. UNCHANGED <<ticks, lastSweep, buckets, request, answer>>
    BY <1>2 DEF limiterVars
  <2>2. LimiterTypeOK'
    BY <2>1, Zenon DEF LimiterInv, LimiterTypeOK
  <2>3. \A x : Running(x)' = Running(x)
    BY <2>1 DEF Running
  <2>4. LimiterCountsRunning' /\ StillOwned'
    BY <2>1, <2>3 DEF LimiterInv, LimiterCountsRunning, StillOwned
  <2> QED BY <2>2, <2>4 DEF LimiterInv
<1> QED BY <1>1, <1>2

\* The types of the limiter, for any rates, times, addresses and requests.
THEOREM LimiterTypes == LimiterSpec => []LimiterTypeOK
<1>1. LimiterInv => LimiterTypeOK
  BY DEF LimiterInv
<1> QED BY <1>1, LimiterInitInv, LimiterStepInv, PTL DEF LimiterSpec

\* The concurrency cap of Acquire goes by the requests that run, across every
\* sweep and every late release.
THEOREM CountsRunning == LimiterSpec => []LimiterCountsRunning
<1>1. LimiterInv => LimiterCountsRunning
  BY DEF LimiterInv
<1> QED BY <1>1, LimiterInitInv, LimiterStepInv, PTL DEF LimiterSpec
-----------------------------------------------------------------------------
(* The promise of RateLimit. *)

Level == [a \in Addresses |-> LevelNow(buckets[a])]
Busy  == [a \in Addresses |-> buckets[a].inFlight]

\* A bucket is seen exactly when it is refilled, so the sweep goes by the time
\* it has had to fill up.
SeenAtRefill == \A a \in Addresses : buckets[a].seen = buckets[a].refilled

LEMMA ProductGrows ==
  ASSUME NEW x \in Nat, NEW y \in Nat, NEW r \in Nat, x >= y
  PROVE  x * r >= y * r
<1>1. (x - y) * r \in Nat
  <2>1. x - y \in Nat
    OBVIOUS
  <2>2. \A u, v \in Nat : u * v \in Nat
    OBVIOUS
  <2> QED BY <2>1, <2>2
<1>2. x * r = y * r + (x - y) * r
  OBVIOUS
<1> QED BY <1>1, <1>2

\* One more than what a division leaves out covers it.
LEMMA WaitBrings ==
  ASSUME NEW n \in Nat, NEW r \in Nat \ {0}
  PROVE  (n \div r + 1) * r >= n
<1> DEFINE d == n \div r
<1>1. d \in Nat
  OBVIOUS
<1>2. n < r * d + r
  OBVIOUS
<1> HIDE DEF d
<1>3. (d + 1) * r = r * d + r /\ r * d \in Nat
  BY <1>1
<1>4. (d + 1) * r >= n
  BY <1>2, <1>3
<1> QED BY <1>4 DEF d

\* A bucket that has just been refilled holds its tokens.
LEMMA LevelOfRefilled ==
  ASSUME ticks \in Nat, NEW b \in Bucket(ticks), b.made, b.refilled = ticks
  PROVE  LevelNow(b) = b.tokens
<1>1. b.tokens \in 0..Cap
  BY DEF Bucket
<1>2. (ticks - b.refilled) * Rate = 0
  BY LimiterAssumption
<1> QED BY <1>1, <1>2, LimiterAssumption DEF LevelNow

\* A bucket nobody has used for longer than it takes to fill up is full: to drop
\* it changes nothing.
LEMMA SweepUnseen ==
  ASSUME LimiterInv, SeenAtRefill, NEW a \in Addresses
  PROVE  LevelNow(AfterSweep(a)) = LevelNow(buckets[a])
<1> USE LimiterAssumption
<1>1. CASE ~(SweepDue /\ Swept(a))
  BY <1>1 DEF AfterSweep
<1>2. CASE SweepDue /\ Swept(a)
  <2> DEFINE b == buckets[a]
             units == b.tokens + (ticks - b.refilled) * Rate
  <2>1. LevelNow(AfterSweep(a)) = Cap
    BY <1>2 DEF AfterSweep, LevelNow, Gone
  <2>2. b.tokens \in Nat /\ b.refilled \in 0..ticks /\ ticks - b.refilled > BucketTTL
    BY <1>2, TypesOf DEF Swept, SeenAtRefill, Bucket
  <2>3. (ticks - b.refilled) * Rate >= BucketTTL * Rate
    <3>1. ticks - b.refilled \in Nat /\ ticks - b.refilled >= BucketTTL
      BY <2>2, TypesOf
    <3> QED BY <3>1, ProductGrows
  <2>4. units \in Int /\ units >= Cap
    <3>1. (ticks - b.refilled) * Rate \in Int /\ BucketTTL * Rate \in Int
      BY <2>2, TypesOf
    <3> QED BY <2>2, <2>3, <3>1
  <2>5. LevelNow(b) = IF ~b.made \/ units > Cap THEN Cap ELSE units
    BY DEF LevelNow
  <2> HIDE DEF b, units
  <2>6. LevelNow(b) = Cap
    BY <2>4, <2>5
  <2> QED BY <2>1, <2>6 DEF b
<1> QED BY <1>1, <1>2

\* The refill brings a bucket to the level it stands for.
LEMMA RefillLevel ==
  ASSUME LimiterInv, SeenAtRefill, NEW a \in Addresses
  PROVE  /\ Refilled(a).tokens = LevelNow(buckets[a])
         /\ Refilled(a).refilled = ticks /\ Refilled(a).seen = ticks
<1> USE LimiterAssumption
<1> DEFINE new == [made |-> TRUE, tokens |-> Cap, refilled |-> ticks, inFlight |-> 0, seen |-> ticks]
           b == IF AfterSweep(a).made THEN AfterSweep(a) ELSE new
           units == b.tokens + (ticks - b.refilled) * Rate
           level == IF units > Cap THEN Cap ELSE units
<1>1. ticks \in Nat
  BY TypesOf
<1>2. b \in Bucket(ticks)
  <2>1. new \in Bucket(ticks)
    BY <1>1 DEF Bucket
  <2> QED BY <2>1, SweepKeeps
<1>3. level = LevelNow(AfterSweep(a))
  <2>1. CASE AfterSweep(a).made
    BY <2>1 DEF LevelNow
  <2>2. CASE ~AfterSweep(a).made
    <3>1. b.tokens = Cap /\ b.refilled = ticks
      BY <2>2
    <3> HIDE DEF b
    <3>2. (ticks - b.refilled) * Rate = 0
      BY <1>1, <3>1
    <3>3. level = Cap
      BY <3>1, <3>2
    <3> QED BY <2>2, <3>3 DEF LevelNow
  <2> QED BY <2>1, <2>2
<1>4. Refilled(a) = [b EXCEPT !.tokens = level, !.refilled = ticks, !.seen = ticks]
  BY DEF Refilled
<1> HIDE DEF b, level
<1>5. Refilled(a).tokens = level /\ Refilled(a).refilled = ticks /\ Refilled(a).seen = ticks
  BY <1>2, <1>4 DEF Bucket
<1> QED BY <1>3, <1>5, SweepUnseen

\* What Acquire does, in terms of the levels.
LEMMA AcquireLevels ==
  ASSUME LimiterInv, SeenAtRefill, NEW r \in Requests, NEW a \in Addresses, Acquire(r, a)
  PROVE  LET admitted == Level[a] >= Cost /\ Busy[a] < Concurrent
         IN  /\ Level' = IF admitted THEN [Level EXCEPT ![a] = @ - Cost] ELSE Level
             /\ Busy' = IF admitted THEN [Busy EXCEPT ![a] = @ + 1] ELSE Busy
             /\ answer' = IF admitted THEN Silent
                          ELSE [ok |-> FALSE, wait |-> IF Level[a] < Cost THEN Wait(Level[a]) ELSE 1]
             /\ Level[a] \in 0..Cap
             /\ SeenAtRefill'
<1> USE LimiterAssumption
<1> DEFINE b == Refilled(a)
           swept == [x \in Addresses |-> AfterSweep(x)]
           admitted == b.tokens >= Cost /\ b.inFlight < Concurrent
           left == IF b.tokens < Cost THEN b
                   ELSE IF b.inFlight >= Concurrent THEN b
                   ELSE [b EXCEPT !.tokens = @ - Cost, !.inFlight = @ + 1]
<1>1. /\ buckets' = [swept EXCEPT ![a] = left]
      /\ answer' = IF admitted THEN Silent
                   ELSE [ok |-> FALSE, wait |-> IF b.tokens < Cost THEN Wait(b.tokens) ELSE 1]
      /\ UNCHANGED ticks
  BY Zenon DEF Acquire, Early
<1>2. b \in Bucket(ticks) /\ b.made /\ b.inFlight = Busy[a] /\ b.tokens = Level[a]
      /\ b.refilled = ticks /\ b.seen = ticks
  BY RefillKeeps, RefillLevel DEF Level, Busy
<1>3. \A x \in Addresses : /\ LevelNow(swept[x]) = Level[x] /\ swept[x].inFlight = Busy[x]
                           /\ swept[x].seen = swept[x].refilled
  <2> TAKE x \in Addresses
  <2>1. swept[x] = AfterSweep(x)
    OBVIOUS
  <2>2. AfterSweep(x).seen = AfterSweep(x).refilled
    BY DEF AfterSweep, Gone, SeenAtRefill
  <2> HIDE DEF swept
  <2> QED BY <2>1, <2>2, SweepKeeps, SweepUnseen DEF Level, Busy
<1>4. ticks \in Nat
  BY TypesOf
<1> HIDE DEF b
<1>5. b.tokens \in 0..Cap /\ b.inFlight \in 0..Concurrent
  BY <1>2 DEF Bucket
<1>6. /\ left \in Bucket(ticks) /\ left.made /\ left.refilled = ticks /\ left.seen = ticks
      /\ left.tokens = IF admitted THEN b.tokens - Cost ELSE b.tokens
      /\ left.inFlight = IF admitted THEN b.inFlight + 1 ELSE b.inFlight
  <2>1. CASE admitted
    <3>1. left = [b EXCEPT !.tokens = @ - Cost, !.inFlight = @ + 1]
      BY <1>5, <2>1
    <3>2. b.tokens - Cost \in 0..Cap /\ b.inFlight + 1 \in 0..Concurrent
      BY <1>5, <2>1
    <3>3. left \in Bucket(ticks)
      BY <1>2, <3>1, <3>2 DEF Bucket
    <3>4. /\ left.made = b.made /\ left.inFlight = b.inFlight + 1 /\ left.tokens = b.tokens - Cost
          /\ left.refilled = b.refilled /\ left.seen = b.seen
      BY <1>2, <3>1 DEF Bucket
    <3> HIDE DEF left
    <3> QED BY <1>2, <2>1, <3>3, <3>4
  <2>2. CASE ~admitted
    <3>1. left = b
      BY <1>5, <2>2
    <3> HIDE DEF left, admitted
    <3> QED BY <1>2, <2>2, <3>1
  <2> QED BY <2>1, <2>2
<1> HIDE DEF left, swept
<1>7. \A x \in Addresses : buckets'[x] = IF x = a THEN left ELSE swept[x]
  BY <1>1 DEF swept
<1>8. \A x \in Addresses : Level'[x] = LevelNow(IF x = a THEN left ELSE swept[x])
  BY <1>1, <1>7 DEF Level, LevelNow
<1>9. LevelNow(left) = left.tokens
  BY <1>4, <1>6, LevelOfRefilled
<1> DEFINE ok == Level[a] >= Cost /\ Busy[a] < Concurrent
<1>10. ok = admitted /\ Level[a] \in 0..Cap
  BY <1>2, <1>5
<1>11. Level' = IF ok THEN [Level EXCEPT ![a] = @ - Cost] ELSE Level
  <2>1. \A x \in Addresses : Level'[x] = IF x = a /\ ok THEN Level[x] - Cost ELSE Level[x]
    BY <1>2, <1>3, <1>6, <1>8, <1>9, <1>10
  <2>2. DOMAIN Level = Addresses /\ Level = [x \in Addresses |-> Level[x]]
        /\ Level' = [x \in Addresses |-> Level'[x]]
    BY DEF Level
  <2> HIDE DEF ok
  <2> QED BY <2>1, <2>2
<1>12. Busy' = IF ok THEN [Busy EXCEPT ![a] = @ + 1] ELSE Busy
  <2>1. \A x \in Addresses : Busy'[x] = IF x = a /\ ok THEN Busy[x] + 1 ELSE Busy[x]
    BY <1>2, <1>3, <1>6, <1>7, <1>10 DEF Busy
  <2>2. Busy = [x \in Addresses |-> Busy[x]] /\ Busy' = [x \in Addresses |-> Busy'[x]]
    BY DEF Busy
  <2> HIDE DEF ok
  <2> QED BY <2>1, <2>2
<1>13. answer' = IF ok THEN Silent
                 ELSE [ok |-> FALSE, wait |-> IF Level[a] < Cost THEN Wait(Level[a]) ELSE 1]
  BY <1>1, <1>2, <1>10
<1>14. SeenAtRefill'
  BY <1>3, <1>6, <1>7 DEF SeenAtRefill
<1> QED BY <1>10, <1>11, <1>12, <1>13, <1>14

LEMMA SeenStep == LimiterInv /\ SeenAtRefill /\ [LimiterNext]_limiterVars => SeenAtRefill'
<1> SUFFICES ASSUME LimiterInv, SeenAtRefill, [LimiterNext]_limiterVars PROVE SeenAtRefill'
  OBVIOUS
<1>1. CASE LimiterTick \/ UNCHANGED limiterVars
  BY <1>1 DEF LimiterTick, limiterVars, SeenAtRefill
<1>2. ASSUME NEW r \in Requests, Release(r)
      PROVE  SeenAtRefill'
  BY <1>2, TypesOf DEF Release, SeenAtRefill, Bucket
<1>3. ASSUME NEW r \in Requests, NEW a \in Addresses, Acquire(r, a)
      PROVE  SeenAtRefill'
  BY <1>3, AcquireLevels
<1> QED BY <1>1, <1>2, <1>3 DEF LimiterNext

\* A tick fills every level alike, up to the cap.
LEMMA TickLevels ==
  ASSUME LimiterInv, LimiterTick, NEW a \in Addresses
  PROVE  Level'[a] = IF Level[a] + Rate > Cap THEN Cap ELSE Level[a] + Rate
<1> USE LimiterAssumption
<1> DEFINE b == buckets[a]
           t == ticks - b.refilled
<1>1. ticks' = ticks + 1 /\ UNCHANGED buckets
  BY DEF LimiterTick
<1>2. b.tokens \in Nat /\ t \in Nat
  BY TypesOf DEF Bucket
<1>3. ticks' - b.refilled = t + 1
  BY <1>1, TypesOf DEF Bucket
<1>4. (t + 1) * Rate = t * Rate + Rate /\ t * Rate \in Nat
  <2>1. \A u, v \in Nat : u * v \in Nat
    OBVIOUS
  <2> HIDE DEF t
  <2> QED BY <1>2, <2>1
<1>5. Level[a] = IF ~b.made \/ b.tokens + t * Rate > Cap THEN Cap ELSE b.tokens + t * Rate
  BY DEF Level, LevelNow
<1>6. Level'[a] = IF ~b.made \/ b.tokens + (t + 1) * Rate > Cap
                  THEN Cap ELSE b.tokens + (t + 1) * Rate
  <2>1. Level'[a] = IF ~b.made \/ b.tokens + (ticks' - b.refilled) * Rate > Cap
                    THEN Cap ELSE b.tokens + (ticks' - b.refilled) * Rate
    BY <1>1 DEF Level, LevelNow
  <2> HIDE DEF t, b
  <2> QED BY <1>3, <2>1
<1> HIDE DEF b, t
<1> QED BY <1>2, <1>4, <1>5, <1>6

LEMMA LimiterStepRefines ==
  LimiterInv /\ SeenAtRefill /\ [LimiterNext]_limiterVars => [Promise!RateNext]_(Promise!rateVars)
<1> SUFFICES ASSUME LimiterInv, SeenAtRefill, [LimiterNext]_limiterVars
             PROVE  [Promise!RateNext]_(Promise!rateVars)
  OBVIOUS
<1> USE LimiterAssumption
<1>1. CASE LimiterTick
  <2>1. Level' = [a \in Addresses |-> Promise!Capped(Level[a] + Rate)]
    <3>1. Level' = [a \in Addresses |-> Level'[a]]
      BY DEF Level
    <3> QED BY <1>1, <3>1, TickLevels DEF Promise!Capped
  <2>2. Busy' = Busy /\ answer' = Silent
    BY <1>1 DEF LimiterTick, Busy
  <2>3. Promise!Refill
    BY <2>1, <2>2 DEF Promise!Refill, Promise!Silent, Silent, Level, Busy
  <2> QED BY <2>3 DEF Promise!RateNext
<1>2. ASSUME NEW r \in Requests, NEW a \in Addresses, Acquire(r, a)
      PROVE  Promise!Admit(a) \/ Promise!Refuse(a)
  <2> DEFINE admitted == Level[a] >= Cost /\ Busy[a] < Concurrent
             wait == IF Level[a] < Cost THEN Wait(Level[a]) ELSE 1
  <2>1. /\ Level' = IF admitted THEN [Level EXCEPT ![a] = @ - Cost] ELSE Level
        /\ Busy' = IF admitted THEN [Busy EXCEPT ![a] = @ + 1] ELSE Busy
        /\ answer' = IF admitted THEN Silent ELSE [ok |-> FALSE, wait |-> wait]
        /\ Level[a] \in 0..Cap
    BY <1>2, AcquireLevels, Zenon
  <2>2. CASE admitted
    BY <2>1, <2>2 DEF Promise!Admit, Promise!Silent, Silent, Level, Busy
  <2>3. CASE ~admitted
    <3>1. wait \in Nat \ {0} /\ Level[a] + wait * Rate >= Cost
      <4>1. CASE Level[a] < Cost
        <5> DEFINE n == Cost - Level[a]
        <5>1. n \in Nat
          BY <2>1, <4>1
        <5>2. wait = n \div Rate + 1
          BY <4>1 DEF Wait
        <5> HIDE DEF n, wait
        <5>3. n \div Rate \in Nat
          BY <5>1
        <5>4. wait * Rate >= n /\ wait * Rate \in Int
          BY <5>1, <5>2, <5>3, WaitBrings
        <5>5. Level[a] + wait * Rate >= Cost
          BY <2>1, <5>4 DEF n
        <5> QED BY <5>2, <5>3, <5>5
      <4>2. CASE ~(Level[a] < Cost)
        BY <2>1, <4>2
      <4> QED BY <4>1, <4>2
    <3>2. Level[a] < Cost \/ Busy[a] >= Concurrent
      <4>1. Busy[a] \in Nat
        BY TypesOf DEF Busy, Bucket
      <4> QED BY <2>1, <2>3, <4>1
    <3>3. Level' = Level /\ Busy' = Busy /\ answer' = [ok |-> FALSE, wait |-> wait]
      BY <2>1, <2>3
    <3> HIDE DEF wait, admitted
    <3>4. answer'.ok = FALSE /\ answer'.wait = wait
      BY <3>3
    <3> QED BY <3>1, <3>2, <3>3, <3>4 DEF Promise!Refuse, Level, Busy
  <2> QED BY <2>2, <2>3
<1>3. ASSUME NEW r \in Requests, Release(r)
      PROVE  \E a \in Addresses : Promise!Finish(a)
  <2>0. PICK a \in Addresses : a = request[r].addr
    BY TypesOf DEF Request
  <2>1. a \in Addresses /\ r \in Running(a) /\ request[r].owned
    BY <1>3, <2>0 DEF Release, Running, LimiterInv, StillOwned
  <2>2. buckets[a].inFlight # 0 /\ buckets[a] \in Bucket(ticks)
    BY <2>1, NotRunning, TypesOf
  <2>3. buckets[a].inFlight > 0
    BY <2>2 DEF Bucket
  <2>4. buckets' = [buckets EXCEPT ![a].inFlight = IF request[r].owned /\ @ > 0 THEN @ - 1 ELSE @]
        /\ answer' = Silent /\ UNCHANGED ticks
    BY <1>3, <2>0 DEF Release
  <2>5. buckets' = [buckets EXCEPT ![a].inFlight = buckets[a].inFlight - 1]
    BY <2>1, <2>3, <2>4
  <2>6. \A x \in Addresses : /\ buckets'[x].made = buckets[x].made
                             /\ buckets'[x].tokens = buckets[x].tokens
                             /\ buckets'[x].refilled = buckets[x].refilled
                             /\ buckets'[x].inFlight = IF x = a THEN buckets[a].inFlight - 1
                                                       ELSE buckets[x].inFlight
    BY <2>1, <2>5, TypesOf DEF Bucket
  <2>7. Level' = Level
    BY <2>4, <2>6 DEF Level, LevelNow
  <2>8. Busy' = [Busy EXCEPT ![a] = @ - 1]
    BY <2>1, <2>6 DEF Busy
  <2>9. Busy[a] > 0
    BY <2>1, <2>3 DEF Busy
  <2>10. Promise!Finish(a)
    BY <2>4, <2>7, <2>8, <2>9 DEF Promise!Finish, Promise!Silent, Silent, Level, Busy
  <2> QED BY <2>10
<1>4. CASE UNCHANGED limiterVars
  BY <1>4 DEF limiterVars, Promise!rateVars, LevelNow
<1> QED BY <1>1, <1>2, <1>3, <1>4 DEF LimiterNext, Promise!RateNext

\* The limiter keeps what RateLimit promises, for any rates and times under which
\* a bucket outlives its refill window: neither the refill on demand nor the
\* sweep can be seen, and a retry after the wait a client is told finds its token.
THEOREM LimiterImplementsRateLimit == LimiterSpec => LimiterKeepsPromise
<1>1. LimiterInit => Promise!RateInit /\ SeenAtRefill
  BY DEF LimiterInit, Promise!RateInit, Promise!Silent, Silent, SeenAtRefill, LevelNow, Gone
<1> QED BY <1>1, LimiterInitInv, LimiterStepInv, SeenStep, LimiterStepRefines, PTL
        DEF LimiterSpec, LimiterKeepsPromise, Promise!RateSpec

-----------------------------------------------------------------------------
(***************************************************************************)
(* LiveFeed: nobody is left connected to a loop that has ended, the blocks *)
(* a browser was sent have no hole, and nothing is announced twice.        *)
(*                                                                         *)
(* None of the three is inductive. What a browser holds is a copy of the   *)
(* ring, so the ring must have no hole either, and dropping its oldest     *)
(* event must make none (RingClosed); and what has been announced must lie *)
(* at or below the heights the loop goes on from (SentInv, LoopInv).       *)
(***************************************************************************)

FeedEvent == [kind : {"block", "tx"}, h : Int, current : BOOLEAN]

\* Where the step that is under way has read its height, and not ended.
StepPlaces == {"blocks", "announce", "txs", "forward"}
InStep == loop.at \in StepPlaces

\* The subscribed are the connections that came and did not go; only they are sent
\* anything, and the loop runs for them.
SubsInv ==
  /\ subs = {c \in Clients : client[c] # "away"}
  /\ \A c \in full : client[c] = "live"
  /\ \A c \in Clients : client[c] = "live" => running
  /\ \A c \in Clients : c \notin subs \/ c \in full => got[c] = {}

\* The last height announced in the sequence: blocks run ahead of transactions
\* while a step is under way.
UpTo(kind, l, last) == IF kind = "tx" /\ l.at \in StepPlaces THEN l.from ELSE last

LoopInv ==
  /\ loop \in [at : {"off", "top", "height", "blocks", "announce", "txs", "forward"},
               from : Nat, height : Nat, upto : Int]
  /\ InStep => loop.from <= lastBlock /\ loop.upto <= MaxMinted
  /\ loop.at = "forward" => loop.upto <= lastBlock

\* What is current was announced in this sequence.
SentInv ==
  /\ recent \in Seq(FeedEvent)
  /\ \A i \in 1..Len(recent) : recent[i].current => recent[i].h <= UpTo(recent[i].kind, loop, lastBlock)
  /\ got \in [Clients -> SUBSET FeedEvent]
  /\ \A c \in Clients : \A e \in got[c] : e.current /\ e.h <= UpTo(e.kind, loop, lastBlock)

\* Behind a current block of the ring come all later ones, so that dropping the
\* oldest event makes no hole.
RingClosed ==
  \A i \in 1..Len(recent) : recent[i].current /\ recent[i].kind = "block" =>
    \A h \in recent[i].h..lastBlock : \E j \in i..Len(recent) : recent[j] = Event("block", h)

GotClosed ==
  \A c \in Clients : \A e \in got[c] : e.kind = "block" =>
    \A h \in e.h..lastBlock : Event("block", h) \in got[c]

FeedInv ==
  FeedTypeOK /\ feedTip <= minted /\ SubsInv /\ LoopInv /\ SentInv /\ RingClosed /\ GotClosed

-----------------------------------------------------------------------------
\* What the ring holds after an event is pushed: the event last, and before it the
\* old events in their order, all but the first of them.
Ring(n, s, e) == LastOf(n, Append(s, e))

LEMMA Pushed ==
  ASSUME NEW S, NEW s \in Seq(S), NEW e \in S, NEW n \in Nat \ {0},
         NEW new, new = Ring(n, s, e)
  PROVE  /\ new \in Seq(S) /\ Len(new) \in Nat /\ Len(s) \in Nat
         /\ 0 < Len(new) /\ Len(new) <= n /\ new[Len(new)] = e
         /\ Len(new) <= Len(s) + 1
         /\ \A i \in 1..(Len(new) - 1) : new[i] = s[i + (Len(s) + 1 - Len(new))]
<1> DEFINE all == Append(s, e)
           m == Len(s) + 1
           first == IF m > n THEN m - n + 1 ELSE 1
<1>1. /\ all \in Seq(S) /\ Len(all) = m /\ Len(s) \in Nat
      /\ all[m] = e /\ \A i \in 1..Len(s) : all[i] = s[i]
  OBVIOUS
<1>2. new = SubSeq(all, first, m)
  BY <1>1 DEF LastOf, Ring
<1>3. first \in Int /\ m \in Int /\ 1 <= first /\ first <= m /\ m - first + 1 <= n
  BY <1>1
<1> HIDE DEF all
<1>4. \A i \in first..m : all[i] \in S
  BY <1>1, <1>3
<1> HIDE DEF first
<1>5. /\ new \in Seq(S) /\ Len(new) = m - first + 1
      /\ \A i \in 1..(m - first + 1) : new[i] = all[first + i - 1]
  <2> HIDE DEF m
  <2>1. /\ SubSeq(all, first, m) \in Seq(S)
        /\ Len(SubSeq(all, first, m)) = IF first <= m THEN m - first + 1 ELSE 0
        /\ \A i \in 1..(m - first + 1) : SubSeq(all, first, m)[i] = all[first + i - 1]
    BY <1>3, <1>4, SubSeqProperties
  <2> QED BY <1>2, <1>3, <2>1
<1>6. Len(new) \in Nat /\ 0 < Len(new) /\ Len(new) <= n
  BY <1>1, <1>3, <1>5
<1>7. new[Len(new)] = e
  <2>1. Len(new) \in 1..(m - first + 1) /\ first + Len(new) - 1 = m
    BY <1>1, <1>3, <1>5
  <2>2. new[Len(new)] = all[first + Len(new) - 1]
    BY <1>5, <2>1
  <2> QED BY <1>1, <2>1, <2>2
<1>8. first - 1 \in Nat /\ Len(new) = Len(s) + 1 - (first - 1)
  BY <1>1, <1>3, <1>5
<1>9. ASSUME NEW i \in 1..(Len(new) - 1)
      PROVE  new[i] = s[i + (Len(s) + 1 - Len(new))]
  <2>1. i \in 1..(m - first + 1) /\ first + i - 1 = i + (first - 1) /\ i + (first - 1) \in 1..Len(s)
       /\ Len(s) + 1 - Len(new) = first - 1
    BY <1>1, <1>3, <1>5, <1>9
  <2>2. new[i] = all[first + i - 1]
    BY <1>5, <2>1
  <2> QED BY <1>1, <2>1, <2>2
<1> QED BY <1>1, <1>5, <1>6, <1>7, <1>8, <1>9

\* An event that goes out, be it the next block or a transaction of one announced.
LEMMA Broadcasting ==
  ASSUME FeedInv, NEW e \in FeedEvent, e.current, Broadcast(e),
         UNCHANGED <<subs, full, client, running>>,
         \/ e.kind = "tx" /\ lastBlock' = lastBlock
         \/ e = Event("block", lastBlock + 1) /\ lastBlock' = lastBlock + 1,
         \A kind \in {"block", "tx"} :
           /\ UpTo(kind, loop, lastBlock) \in Int /\ UpTo(kind, loop', lastBlock') \in Int
           /\ UpTo(kind, loop, lastBlock) <= UpTo(kind, loop', lastBlock'),
         e.h <= UpTo(e.kind, loop', lastBlock')
  PROVE  /\ Len(recent') <= LiveReplay /\ recent'[Len(recent')] = e
         /\ SubsInv' /\ SentInv' /\ RingClosed' /\ GotClosed'
<1> USE DEF FeedInv
<1> DEFINE n == Len(recent')
<1>1. recent' = Ring(LiveReplay, recent, e) /\ LiveReplay \in Nat \ {0}
  BY FeedAssumption DEF Broadcast, Ring
<1>2. /\ recent' \in Seq(FeedEvent) /\ n \in Nat /\ Len(recent) \in Nat
      /\ 0 < n /\ n <= LiveReplay /\ recent'[n] = e /\ n <= Len(recent) + 1
      /\ \A i \in 1..(n - 1) : recent'[i] = recent[i + (Len(recent) + 1 - n)]
  <2>1. recent \in Seq(FeedEvent)
    BY DEF SentInv
  <2>2. LiveReplay \in Nat \ {0} /\ e \in FeedEvent
    BY <1>1
  <2>3. PICK r : r = recent'
    OBVIOUS
  <2>4. r = Ring(LiveReplay, recent, e)
    BY <1>1, <2>3
  <2>5. /\ r \in Seq(FeedEvent) /\ Len(r) \in Nat /\ Len(recent) \in Nat
        /\ 0 < Len(r) /\ Len(r) <= LiveReplay /\ r[Len(r)] = e
        /\ Len(r) <= Len(recent) + 1
        /\ \A i \in 1..(Len(r) - 1) : r[i] = recent[i + (Len(recent) + 1 - Len(r))]
    BY ONLY <2>1, <2>2, <2>4, Pushed
  <2> QED BY <2>3, <2>5
<1>3. PICK d \in Nat : n = Len(recent) + 1 - d /\ \A i \in 1..(n - 1) : recent'[i] = recent[i + d]
  <2> HIDE DEF n
  <2> DEFINE m == Len(recent) + 1 - n
  <2>1. m \in Nat /\ n = Len(recent) + 1 - m
    BY <1>2
  <2>2. \A i \in 1..(n - 1) : recent'[i] = recent[i + m]
    BY <1>2
  <2> HIDE DEF m
  <2> QED BY <2>1, <2>2
<1> HIDE DEF n
<1>4. \A i \in 1..n : i = n \/ (i \in 1..(n - 1) /\ i + d \in 1..Len(recent))
  <2>1. TAKE i \in 1..n
  <2>2. n \in Nat /\ Len(recent) \in Nat /\ d \in Nat /\ n = Len(recent) + 1 - d
    BY <1>2, <1>3
  <2> QED BY <2>2
<1>5. got' = [c \in Clients |-> IF c \in subs \ full THEN got[c] \union {e} ELSE got[c]]
  BY DEF Broadcast
<1>6. \A x \in FeedEvent : x.kind \in {"block", "tx"} /\ x.h \in Int
  BY DEF FeedEvent
<1>7. \A x \in FeedEvent :
        x.h <= UpTo(x.kind, loop, lastBlock) => x.h <= UpTo(x.kind, loop', lastBlock')
  BY <1>6
<1>8. SubsInv'
  BY <1>5 DEF SubsInv
<1>9. SentInv'
  <2>1. \A i \in 1..n : recent'[i].current => 
          recent'[i].h <= UpTo(recent'[i].kind, loop', lastBlock')
    <3>1. TAKE i \in 1..n
    <3>2. CASE i = n
      BY <1>2, <3>2
    <3>3. CASE i \in 1..(n - 1) /\ i + d \in 1..Len(recent)
      <4>1. recent'[i] = recent[i + d]
        BY <1>3, <3>3
      <4>2. recent[i + d] \in FeedEvent
        BY <3>3 DEF SentInv
      <4> QED BY <1>7, <3>3, <4>1, <4>2 DEF SentInv
    <3> QED BY <1>4, <3>2, <3>3
  <2>2. got' \in [Clients -> SUBSET FeedEvent]
    BY <1>5 DEF SentInv
  <2>3. \A c \in Clients : \A x \in got'[c] : x.current /\ x.h <= UpTo(x.kind, loop', lastBlock')
    <3>1. TAKE c \in Clients
    <3>2. \A x \in got[c] : x \in FeedEvent /\ x.current /\ x.h <= UpTo(x.kind, loop, lastBlock)
      BY DEF SentInv
    <3> QED BY <1>5, <1>7, <3>2
  <2> QED BY <1>2, <2>1, <2>2, <2>3 DEF SentInv, n
<1>10. RingClosed'
  <2>1. SUFFICES ASSUME NEW i \in 1..n, recent'[i].current, recent'[i].kind = "block",
                        NEW h \in recent'[i].h..lastBlock'
                 PROVE  \E j \in i..n : recent'[j] = Event("block", h)
    BY DEF RingClosed, n
  <2>2. lastBlock \in Int /\ h \in Int
    BY DEF FeedTypeOK
  <2>3. CASE e.kind = "block" /\ h = lastBlock + 1
    BY <1>2, <1>4, <2>3
  <2>4. CASE h <= lastBlock /\ i # n
    <3>1. recent'[i] = recent[i + d] /\ i + d \in 1..Len(recent)
      BY <1>3, <1>4, <2>4
    <3>2. h \in recent[i + d].h..lastBlock
      BY <2>1, <2>2, <2>4, <3>1
    <3>3. PICK k \in (i + d)..Len(recent) : recent[k] = Event("block", h)
      BY <2>1, <3>1, <3>2 DEF RingClosed
    <3>4. k - d \in i..n /\ k - d \in 1..(n - 1) /\ (k - d) + d = k
      <4>1. n \in Nat /\ Len(recent) \in Nat /\ n = Len(recent) + 1 - d /\ i \in 1..n
        BY <1>2, <1>3
      <4>2. k \in Int /\ i + d <= k /\ k <= Len(recent)
        BY <3>3, <4>1
      <4> QED BY <4>1, <4>2
    <3>5. recent'[k - d] = recent[k]
      BY <1>3, <3>4
    <3> QED BY <3>3, <3>4, <3>5
  <2>5. CASE i = n /\ ~ (e.kind = "block" /\ h = lastBlock + 1)
    <3>1. e = Event("block", lastBlock + 1) /\ lastBlock' = lastBlock + 1
      BY <1>2, <2>1, <2>5
    <3>2. e.h = lastBlock + 1 /\ e.kind = "block"
      BY <3>1 DEF Event
    <3>3. h = lastBlock + 1
      BY <1>2, <2>1, <2>2, <2>5, <3>1, <3>2
    <3> QED BY <2>5, <3>2, <3>3
  <2>6. h <= lastBlock \/ (e.kind = "block" /\ h = lastBlock + 1)
    BY <2>1, <2>2 DEF Event
  <2> QED BY <2>3, <2>4, <2>5, <2>6
<1>11. GotClosed'
  <2>1. SUFFICES ASSUME NEW c \in Clients, NEW x \in got'[c], x.kind = "block",
                        NEW h \in x.h..lastBlock'
                 PROVE  Event("block", h) \in got'[c]
    BY DEF GotClosed
  <2>2. lastBlock \in Int /\ h \in Int
    BY DEF FeedTypeOK
  <2>3. CASE c \notin subs \ full
    <3>1. got'[c] = got[c] /\ got[c] = {}
      BY <1>5, <2>3 DEF SubsInv
    <3> QED BY <2>1, <3>1
  <2>4. CASE c \in subs \ full
    <3>1. got'[c] = got[c] \union {e}
      BY <1>5, <2>4
    <3>2. CASE x \in got[c] /\ h <= lastBlock
      <4>1. h \in x.h..lastBlock
        BY <2>1, <2>2, <3>2
      <4> QED BY <2>1, <3>1, <3>2, <4>1 DEF GotClosed
    <3>3. CASE x = e
      <4>1. e = Event("block", lastBlock + 1) /\ lastBlock' = lastBlock + 1
        BY <2>1, <3>3
      <4>2. e.h = lastBlock + 1
        BY <4>1 DEF Event
      <4>3. h = lastBlock + 1
        BY <2>1, <2>2, <3>3, <4>1, <4>2
      <4> QED BY <3>1, <4>1, <4>3
    <3>4. CASE x \in got[c] /\ ~ (h <= lastBlock)
      <4>1. e = Event("block", lastBlock + 1) /\ h = lastBlock + 1
        BY <2>1, <2>2, <3>4
      <4> QED BY <3>1, <4>1
    <3> QED BY <2>1, <3>1, <3>2, <3>3, <3>4
  <2> QED BY <2>3, <2>4
<1> QED BY <1>2, <1>8, <1>9, <1>10, <1>11 DEF n

-----------------------------------------------------------------------------
LEMMA FeedInitInv ==
  ASSUME FeedInit
  PROVE  FeedInv
<1> USE DEF FeedInit
<1>1. /\ loop = [at |-> "off", from |-> 0, height |-> 0, upto |-> 0] /\ recent = <<>>
      /\ \A c \in Clients : client[c] = "away" /\ got[c] = {}
      /\ Len(recent) = 0
  BY DEF Loop
<1>2. FeedTypeOK /\ feedTip <= minted
  BY <1>1, FeedAssumption DEF FeedTypeOK
<1>3. SubsInv
  BY <1>1 DEF SubsInv
<1>4. LoopInv
  BY <1>1 DEF LoopInv, InStep, StepPlaces
<1>5. SentInv
  <2>1. recent \in Seq(FeedEvent)
    BY <1>1
  <2>2. got \in [Clients -> SUBSET FeedEvent]
    OBVIOUS
  <2> QED BY <1>1, <2>1, <2>2 DEF SentInv
<1>6. RingClosed /\ GotClosed
  BY <1>1 DEF RingClosed, GotClosed
<1> QED BY <1>2, <1>3, <1>4, <1>5, <1>6 DEF FeedInv

\* A loop that moves on, announcing nothing, and stays in the sequence.
LEMMA LoopMoves ==
  ASSUME SentInv, RingClosed, GotClosed, UNCHANGED <<recent, got, lastBlock>>,
         lastBlock \in Nat, loop.from \in Nat, loop'.from \in Nat,
         UpTo("tx", loop, lastBlock) <= UpTo("tx", loop', lastBlock)
  PROVE  SentInv' /\ RingClosed' /\ GotClosed'
<1>1. \A kind : kind \in {"block", "tx"} =>
        /\ UpTo(kind, loop, lastBlock) \in Nat /\ UpTo(kind, loop', lastBlock) \in Nat
        /\ UpTo(kind, loop, lastBlock) <= UpTo(kind, loop', lastBlock)
  BY DEF UpTo
<1>2. \A x \in FeedEvent : x.kind \in {"block", "tx"} /\ x.h \in Int
  BY DEF FeedEvent
<1>3. \A x \in FeedEvent :
        x.h <= UpTo(x.kind, loop, lastBlock) => x.h <= UpTo(x.kind, loop', lastBlock)
  BY <1>1, <1>2
<1>4. SentInv'
  <2>1. \A i \in 1..Len(recent) : recent[i] \in FeedEvent
    BY DEF SentInv
  <2>2. \A c \in Clients : \A e \in got[c] : e \in FeedEvent
    BY DEF SentInv
  <2> QED BY <1>3, <2>1, <2>2 DEF SentInv
<1>5. RingClosed' /\ GotClosed'
  BY DEF RingClosed, GotClosed
<1> QED BY <1>4, <1>5

LEMMA MintStep ==
  ASSUME FeedInv, Mint
  PROVE  FeedInv'
<1> USE DEF FeedInv, clientVars
<1>1. UNCHANGED <<subs, full, client, running, lastBlock, recent, loop, got>>
  BY DEF Mint
<1>2. FeedTypeOK' /\ (feedTip <= minted)'
  BY <1>1, FeedAssumption DEF Mint, FeedTypeOK
<1>3. SubsInv' /\ LoopInv' /\ SentInv' /\ RingClosed' /\ GotClosed'
  BY <1>1 DEF SubsInv, LoopInv, InStep, SentInv, RingClosed, GotClosed
<1> QED BY <1>2, <1>3

\* A connection comes, or is found without a running loop, or stops reading, or goes.
LEMMA ConnectionStep ==
  ASSUME FeedInv, NEW c \in Clients,
         Subscribe(c) \/ EnsureRunning(c) \/ Stall(c) \/ Unsubscribe(c)
  PROVE  FeedInv'
<1> USE DEF FeedInv, chainVars
<1>1. UNCHANGED <<feedTip, minted, feedFaults, lastBlock, recent>>
  BY DEF Subscribe, EnsureRunning, Stall, Unsubscribe
<1>2. /\ got \in [Clients -> SUBSET FeedEvent] /\ client \in [Clients -> {"away", "added", "replayed", "live"}]
      /\ lastBlock \in Nat /\ loop.from \in Nat
  BY FeedAssumption DEF SentInv, FeedTypeOK, LoopInv
<1>3. CASE Subscribe(c) \/ EnsureRunning(c)
  <2>1. UNCHANGED <<full, got>> /\ c \notin full
    BY <1>3 DEF Subscribe, EnsureRunning, SubsInv
  <2>2. CASE Subscribe(c)
    <3>1. /\ client' = [client EXCEPT ![c] = "added"] /\ subs' = subs \union {c}
          /\ UNCHANGED <<running, loop>> /\ c \notin subs
      BY <2>2 DEF Subscribe, SubsInv
    <3>2. FeedTypeOK' /\ (feedTip <= minted)'
      BY <1>1, <1>2, <2>1, <3>1 DEF FeedTypeOK
    <3>3. SubsInv'
      BY <1>2, <2>1, <3>1 DEF SubsInv
    <3>4. LoopInv' /\ SentInv'
      BY <1>1, <2>1, <3>1 DEF LoopInv, InStep, SentInv
    <3>5. RingClosed' /\ GotClosed'
      BY <1>1, <2>1, <3>1 DEF RingClosed, GotClosed
    <3> QED BY <3>2, <3>3, <3>4, <3>5
  <2>3. CASE EnsureRunning(c)
    <3>1. /\ client' = [client EXCEPT ![c] = "live"] /\ client[c] = "replayed" /\ subs' = subs
          /\ running' = TRUE /\ loop' = IF running THEN loop ELSE Loop("top")
      BY <2>3 DEF EnsureRunning
    <3>2. loop'.at # "off" /\ loop'.at \in {"top", "height", "blocks", "announce", "txs", "forward"}
      BY <3>1 DEF FeedTypeOK, Loop
    <3>3. FeedTypeOK' /\ (feedTip <= minted)'
      BY <1>1, <1>2, <2>1, <3>1, <3>2 DEF FeedTypeOK
    <3>4. SubsInv'
      BY <1>2, <2>1, <3>1 DEF SubsInv
    <3>5. CASE running
      BY <1>1, <2>1, <3>1, <3>3, <3>4, <3>5 DEF LoopInv, InStep, SentInv, RingClosed, GotClosed
    <3>6. CASE ~ running
      <4>1. loop.at = "off" /\ loop' = [at |-> "top", from |-> 0, height |-> 0, upto |-> 0]
        BY <3>1, <3>6 DEF FeedTypeOK, Loop
      <4>2. LoopInv'
        BY <4>1 DEF LoopInv, InStep, StepPlaces
      <4>3. SentInv' /\ RingClosed' /\ GotClosed'
        BY <1>1, <1>2, <2>1, <4>1, LoopMoves DEF UpTo, StepPlaces
      <4> QED BY <3>3, <3>4, <4>2, <4>3
    <3> QED BY <3>5, <3>6
  <2> QED BY <1>3, <2>2, <2>3
<1>4. CASE Stall(c) \/ Unsubscribe(c)
  <2>1. got' = [got EXCEPT ![c] = {}] /\ UNCHANGED <<running, loop>> /\ client[c] = "live"
    BY <1>4 DEF Stall, Unsubscribe
  <2>2. FeedTypeOK' /\ (feedTip <= minted)' /\ SubsInv'
    <3>1. CASE Stall(c)
      BY <1>1, <1>2, <2>1, <3>1 DEF Stall, FeedTypeOK, SubsInv
    <3>2. CASE Unsubscribe(c)
      BY <1>1, <1>2, <2>1, <3>2 DEF Unsubscribe, FeedTypeOK, SubsInv
    <3> QED BY <1>4, <3>1, <3>2
  <2>3. \A x \in Clients : got'[x] = got[x] \/ got'[x] = {}
    BY <1>2, <2>1
  <2>4. SentInv'
    <3>1. got' \in [Clients -> SUBSET FeedEvent]
      BY <1>2, <2>1
    <3> QED BY <1>1, <2>1, <2>3, <3>1 DEF SentInv
  <2>5. LoopInv' /\ RingClosed' /\ GotClosed'
    BY <1>1, <2>1, <2>3 DEF LoopInv, InStep, RingClosed, GotClosed
  <2> QED BY <2>2, <2>4, <2>5
<1> QED BY <1>3, <1>4

\* The replay brings what is current in the ring, which has no hole.
LEMMA ReplayStep ==
  ASSUME FeedInv, NEW c \in Clients, Replay(c)
  PROVE  FeedInv'
<1> USE DEF FeedInv, chainVars
<1> DEFINE replayed == {e \in Events(recent) : e.current}
<1>1. /\ client[c] = "added" /\ client' = [client EXCEPT ![c] = "replayed"]
      /\ got' = [got EXCEPT ![c] = @ \union replayed]
      /\ UNCHANGED <<feedTip, minted, feedFaults, lastBlock, recent, subs, full, running, loop>>
  BY DEF Replay
<1>2. /\ got \in [Clients -> SUBSET FeedEvent] /\ client \in [Clients -> {"away", "added", "replayed", "live"}]
      /\ recent \in Seq(FeedEvent)
  BY DEF SentInv, FeedTypeOK
<1>3. \A e \in replayed : \E i \in 1..Len(recent) : e = recent[i] /\ recent[i].current
  BY DEF Events
<1>4. \A i \in 1..Len(recent) : recent[i].current => recent[i] \in replayed
  BY DEF Events
<1> HIDE DEF replayed
<1>5. \A e \in replayed : e \in FeedEvent /\ e.current /\ e.h <= UpTo(e.kind, loop, lastBlock)
  BY <1>2, <1>3 DEF SentInv
<1>6. \A e \in replayed : e.kind = "block" => \A h \in e.h..lastBlock : Event("block", h) \in replayed
  <2>1. TAKE e \in replayed
  <2>2. PICK i \in 1..Len(recent) : e = recent[i] /\ recent[i].current
    BY <1>3
  <2>3. HAVE e.kind = "block"
  <2>4. TAKE h \in e.h..lastBlock
  <2>5. PICK j \in i..Len(recent) : recent[j] = Event("block", h)
    BY <2>2, <2>3, <2>4 DEF RingClosed
  <2>6. Event("block", h).current /\ j \in 1..Len(recent)
    BY <2>2, <2>5 DEF Event
  <2> QED BY <1>4, <2>5, <2>6
<1>7. \A x \in Clients : got'[x] = IF x = c THEN got[c] \union replayed ELSE got[x]
  BY <1>1, <1>2
<1>8. FeedTypeOK' /\ (feedTip <= minted)'
  BY <1>1, <1>2 DEF FeedTypeOK
<1>9. SubsInv'
  <2>1. c \in subs /\ c \notin full
    BY <1>1 DEF SubsInv
  <2> QED BY <1>1, <1>2, <1>7, <2>1 DEF SubsInv
<1>10. SentInv'
  <2>1. got' \in [Clients -> SUBSET FeedEvent]
    <3>1. replayed \subseteq FeedEvent
      BY <1>5
    <3> QED BY <1>1, <1>2, <3>1
  <2> QED BY <1>1, <1>5, <1>7, <2>1 DEF SentInv
<1>11. LoopInv' /\ RingClosed'
  BY <1>1 DEF LoopInv, InStep, RingClosed
<1>12. GotClosed'
  BY <1>1, <1>6, <1>7 DEF GotClosed
<1> QED BY <1>8, <1>9, <1>10, <1>11, <1>12

-----------------------------------------------------------------------------
\* The height is read, or the loop finds nobody subscribed.
LEMMA HeightStep ==
  ASSUME FeedInv, StopIfIdle \/ PollHeight
  PROVE  FeedInv'
<1> USE DEF FeedInv, chainVars, clientVars
<1>1. UNCHANGED <<feedTip, minted, feedFaults, subs, full, client>>
  BY DEF StopIfIdle, PollHeight
<1>2. /\ lastBlock \in 0..MaxMinted /\ lastBlock \in Nat /\ loop.from \in Nat /\ MaxMinted \in Nat
      /\ feedTip \in 1..MaxMinted
  BY FeedAssumption DEF FeedTypeOK, LoopInv
<1>3. CASE StopIfIdle
  <2>1. /\ loop.at = "top" /\ running' = (subs # {})
        /\ loop' = [at |-> IF subs = {} THEN "off" ELSE "height",
                    from |-> 0, height |-> 0, upto |-> 0]
        /\ UNCHANGED <<lastBlock, recent, got>>
    BY <1>3 DEF StopIfIdle, Loop
  <2>2. LoopInv'
    BY <2>1 DEF LoopInv, InStep, StepPlaces
  <2>3. running' <=> loop'.at # "off"
    BY <2>1
  <2>4. FeedTypeOK' /\ (feedTip <= minted)'
    BY <1>1, <2>1, <2>3 DEF FeedTypeOK
  <2>5. SubsInv'
    BY <1>1, <2>1 DEF SubsInv
  <2>6. SentInv' /\ RingClosed' /\ GotClosed'
    BY <1>2, <2>1, LoopMoves DEF UpTo, StepPlaces
  <2> QED BY <2>2, <2>4, <2>5, <2>6
<1>4. CASE PollHeight
  <2>1. PICK h \in FeedReplies :
          /\ lastBlock' = IF lastBlock = 0 \/ h < lastBlock THEN h
                          ELSE IF h - lastBlock > MaxCatchup THEN h - MaxCatchup
                          ELSE lastBlock
          /\ loop' = IF h <= lastBlock' THEN Loop("top")
                     ELSE [at |-> "blocks", from |-> lastBlock', height |-> h, upto |-> h]
    BY <1>4 DEF PollHeight
  <2>2. loop.at = "height" /\ UNCHANGED running /\ running
    BY <1>4 DEF PollHeight, FeedTypeOK
  <2>3. h \in 1..MaxMinted
    BY <1>2 DEF FeedReplies
  <2>4. lastBlock' \in 0..MaxMinted
    BY <1>2, <2>1, <2>3, FeedAssumption
  <2>5. /\ loop' \in [at : {"top", "blocks"}, from : Nat, height : Nat, upto : Int]
        /\ loop'.at = "blocks" => loop'.from = lastBlock' /\ loop'.upto = h
    BY <2>1, <2>3, <2>4 DEF Loop
  <2>6. LoopInv'
    BY <2>3, <2>4, <2>5 DEF LoopInv, InStep, StepPlaces
  <2>7. CASE lastBlock' = lastBlock
    <3>1. UNCHANGED <<recent, got>>
      BY <1>4, <2>7 DEF PollHeight
    <3>2. FeedTypeOK' /\ (feedTip <= minted)' /\ SubsInv'
      BY <1>1, <2>2, <2>5, <2>7, <3>1 DEF FeedTypeOK, SubsInv
    <3>3. SentInv' /\ RingClosed' /\ GotClosed'
      BY <1>2, <2>2, <2>5, <2>7, <3>1, LoopMoves DEF UpTo, StepPlaces
    <3> QED BY <2>6, <3>2, <3>3
  <2>8. CASE lastBlock' # lastBlock
    <3>1. recent' = Outdated(recent) /\ got' = [c \in Clients |-> {}]
      BY <1>4, <2>8 DEF PollHeight
    <3>2. recent \in Seq(FeedEvent) /\ Len(recent) \in Nat
      BY DEF SentInv
    <3>3. recent' = [i \in 1..Len(recent) |-> [recent[i] EXCEPT !.current = FALSE]]
      BY <3>1, <3>2 DEF Outdated
    <3>4. \A i \in 1..Len(recent) : /\ [recent[i] EXCEPT !.current = FALSE] \in FeedEvent
                                   /\ ~ [recent[i] EXCEPT !.current = FALSE].current
      <4>1. \A x \in FeedEvent : [x EXCEPT !.current = FALSE] \in FeedEvent
                               /\ ~ [x EXCEPT !.current = FALSE].current
        BY DEF FeedEvent
      <4>2. \A i \in 1..Len(recent) : recent[i] \in FeedEvent
        BY <3>2
      <4> QED BY <4>1, <4>2
    <3>5. /\ recent' \in Seq(FeedEvent) /\ Len(recent') = Len(recent)
          /\ \A i \in 1..Len(recent') : ~ recent'[i].current
      <4> DEFINE past(i) == [recent[i] EXCEPT !.current = FALSE]
      <4>1. /\ recent' = [i \in 1..Len(recent) |-> past(i)]
            /\ \A i \in 1..Len(recent) : past(i) \in FeedEvent /\ ~ past(i).current
        BY <3>3, <3>4
      <4> HIDE DEF past
      <4> QED BY <3>2, <4>1
    <3>6. FeedTypeOK' /\ (feedTip <= minted)'
      BY <1>1, <2>2, <2>4, <2>5, <3>5 DEF FeedTypeOK
    <3>7. SubsInv'
      BY <1>1, <2>2, <3>1 DEF SubsInv
    <3>8. SentInv' /\ RingClosed' /\ GotClosed'
      <4>1. got' \in [Clients -> SUBSET FeedEvent] /\ \A c \in Clients : got'[c] = {}
        BY <3>1
      <4> QED BY <3>5, <4>1 DEF SentInv, RingClosed, GotClosed
    <3> QED BY <2>6, <3>6, <3>7, <3>8
  <2> QED BY <2>7, <2>8
<1> QED BY <1>3, <1>4

\* A step that goes on keeps what it announces from.
LEMMA GoesOn ==
  ASSUME FeedInv, InStep, lastBlock' = lastBlock, lastBlock \in Nat, MaxMinted \in Nat,
         loop' \in [at : StepPlaces, from : Nat, height : Nat, upto : Int],
         loop'.from = loop.from, loop'.upto <= MaxMinted,
         loop'.at = "forward" => loop'.upto <= lastBlock
  PROVE  /\ LoopInv' /\ running /\ loop'.at # "off"
         /\ UpTo("tx", loop, lastBlock) <= UpTo("tx", loop', lastBlock)
<1>1. loop'.at \in StepPlaces /\ loop.from <= lastBlock /\ loop.from \in Nat /\ loop.at \in StepPlaces
  BY DEF FeedInv, LoopInv, InStep
<1>2. loop' \in [at : {"off", "top", "height", "blocks", "announce", "txs", "forward"},
                from : Nat, height : Nat, upto : Int]
  BY DEF StepPlaces
<1>3. LoopInv'
  BY <1>1, <1>2 DEF LoopInv
<1>4. running /\ loop'.at # "off"
  BY <1>1 DEF FeedInv, FeedTypeOK, StepPlaces
<1> QED BY <1>1, <1>3, <1>4 DEF UpTo

\* A step of the loop that announces nothing: it reads, it is done with the blocks or
\* with the transactions, or a call fails.
LEMMA QuietStep ==
  ASSUME FeedInv,
         \/ PollBlocks \/ PollTxs \/ PollFails
         \/ Announce /\ ~ (lastBlock < loop.upto)
         \/ Forward /\ ~ (loop.from < loop.upto)
  PROVE  FeedInv'
<1> USE DEF FeedInv, chainVars, clientVars
<1>1. /\ UNCHANGED <<feedTip, minted, subs, full, client, running, recent, lastBlock, got>>
      /\ feedFaults' \in 0..MaxFeedFaults
  <2>1. CASE PollFails
    <3>1. feedFaults \in 0..MaxFeedFaults /\ MaxFeedFaults \in Nat
      BY FeedAssumption DEF FeedTypeOK
    <3>2. feedFaults < MaxFeedFaults /\ feedFaults' = feedFaults + 1
      BY <2>1 DEF PollFails
    <3> QED BY <2>1, <3>1, <3>2 DEF PollFails
  <2>2. CASE ~ PollFails
    BY <2>2 DEF PollBlocks, PollTxs, Announce, Forward, FeedTypeOK
  <2> QED BY <2>1, <2>2
<1>2. /\ lastBlock \in 0..MaxMinted /\ lastBlock \in Nat /\ MaxMinted \in Nat
      /\ loop \in [at : {"off", "top", "height", "blocks", "announce", "txs", "forward"},
                   from : Nat, height : Nat, upto : Int]
      /\ InStep => loop.from <= lastBlock /\ loop.upto <= MaxMinted
  BY FeedAssumption DEF FeedTypeOK, LoopInv
<1>3. \A t \in FeedReplies : t \in Nat
  BY FeedAssumption DEF FeedReplies, FeedTypeOK
<1>4. /\ LoopInv' /\ running /\ loop'.at # "off"
      /\ UpTo("tx", loop, lastBlock) <= UpTo("tx", loop', lastBlock)
  <2>1. CASE PollBlocks
    <3>1. PICK t \in FeedReplies :
            loop' = [loop EXCEPT !.at = "announce", !.upto = IF t < @ THEN t ELSE @]
      BY <2>1 DEF PollBlocks
    <3>2. loop.at = "blocks" /\ InStep
      BY <2>1 DEF PollBlocks, InStep, StepPlaces
    <3>3. /\ loop'.at = "announce" /\ loop'.from = loop.from /\ loop'.upto <= MaxMinted
          /\ loop' \in [at : {"announce"}, from : Nat, height : Nat, upto : Int]
      <4>1. PICK u : u = IF t < loop.upto THEN t ELSE loop.upto
        OBVIOUS
      <4>2. u \in Int /\ u <= MaxMinted
        BY <1>2, <1>3, <3>2, <4>1
      <4>3. loop' = [at |-> "announce", from |-> loop.from, height |-> loop.height, upto |-> u]
        BY <1>2, <3>1, <4>1
      <4> QED BY <1>2, <4>2, <4>3
    <3>4. loop' \in [at : StepPlaces, from : Nat, height : Nat, upto : Int]
      BY <3>3 DEF StepPlaces
    <3> QED BY <1>1, <1>2, <3>2, <3>3, <3>4, GoesOn
  <2>2. CASE PollTxs
    <3>1. PICK t \in FeedReplies :
            loop' = [loop EXCEPT !.at = "forward", !.upto = IF t < lastBlock THEN t ELSE lastBlock]
      BY <2>2 DEF PollTxs
    <3>2. loop.at = "txs" /\ InStep
      BY <2>2 DEF PollTxs, InStep, StepPlaces
    <3>3. /\ loop'.at = "forward" /\ loop'.from = loop.from /\ loop'.upto <= lastBlock
          /\ loop'.upto <= MaxMinted
          /\ loop' \in [at : {"forward"}, from : Nat, height : Nat, upto : Int]
      <4>1. PICK u : u = IF t < lastBlock THEN t ELSE lastBlock
        OBVIOUS
      <4>2. u \in Int /\ u <= lastBlock /\ u <= MaxMinted
        BY <1>2, <1>3, <4>1
      <4>3. loop' = [at |-> "forward", from |-> loop.from, height |-> loop.height, upto |-> u]
        BY <1>2, <3>1, <4>1
      <4> QED BY <1>2, <4>2, <4>3
    <3>4. loop' \in [at : StepPlaces, from : Nat, height : Nat, upto : Int]
      BY <3>3 DEF StepPlaces
    <3> QED BY <1>1, <1>2, <3>2, <3>3, <3>4, GoesOn
  <2>3. CASE Announce /\ ~ (lastBlock < loop.upto)
    <3>1. loop.at = "announce" /\ InStep /\ loop' = [loop EXCEPT !.at = "txs"]
      BY <2>3 DEF Announce, InStep, StepPlaces
    <3>2. /\ loop'.at = "txs" /\ loop'.from = loop.from /\ loop'.upto = loop.upto
          /\ loop' \in [at : {"txs"}, from : Nat, height : Nat, upto : Int]
      BY <1>2, <3>1
    <3>3. loop' \in [at : StepPlaces, from : Nat, height : Nat, upto : Int]
      BY <3>2 DEF StepPlaces
    <3> QED BY <1>1, <1>2, <3>1, <3>2, <3>3, GoesOn
  <2>4. CASE PollFails \/ (Forward /\ ~ (loop.from < loop.upto))
    <3>1. loop.at \in {"height", "blocks", "txs", "forward"}
      BY <2>4 DEF Forward, PollFails
    <3>2. loop' = [at |-> "top", from |-> 0, height |-> 0, upto |-> 0]
      BY <2>4 DEF PollFails, Forward, Loop
    <3> QED BY <1>2, <3>1, <3>2 DEF LoopInv, InStep, StepPlaces, UpTo, FeedTypeOK
  <2> QED BY <2>1, <2>2, <2>3, <2>4
<1>5. FeedTypeOK' /\ (feedTip <= minted)'
  <2>1. loop'.at \in {"off", "top", "height", "blocks", "announce", "txs", "forward"}
    BY <1>4 DEF LoopInv
  <2> QED BY <1>1, <1>4, <2>1 DEF FeedTypeOK
<1>6. SubsInv'
  BY <1>1 DEF SubsInv
<1>7. SentInv' /\ RingClosed' /\ GotClosed'
  <2>1. loop'.from \in Nat
    BY <1>4 DEF LoopInv
  <2> QED BY <1>1, <1>2, <1>4, <2>1, LoopMoves
<1> QED BY <1>4, <1>5, <1>6, <1>7

\* The next block, or the next transaction, goes out: it is not one that went out
\* before.
NextEvent(e) ==
  \/ /\ loop.at = "announce" /\ lastBlock < loop.upto
     /\ e = Event("block", lastBlock + 1) /\ lastBlock' = lastBlock + 1 /\ loop' = loop
  \/ /\ loop.at = "forward" /\ loop.from < loop.upto
     /\ e = Event("tx", loop.from + 1) /\ lastBlock' = lastBlock
     /\ loop' = [loop EXCEPT !.from = @ + 1]

LEMMA NextEventFacts ==
  ASSUME FeedInv, NEW e, NextEvent(e)
  PROVE  /\ e \in FeedEvent /\ e.current /\ e.h \in Int
         /\ e.kind \in {"block", "tx"} /\ e.h > UpTo(e.kind, loop, lastBlock)
         /\ e.kind = "tx" => e.h <= lastBlock
         /\ \/ e.kind = "tx" /\ lastBlock' = lastBlock
            \/ e = Event("block", lastBlock + 1) /\ lastBlock' = lastBlock + 1
         /\ \A kind \in {"block", "tx"} :
              /\ UpTo(kind, loop, lastBlock) \in Int /\ UpTo(kind, loop', lastBlock') \in Int
              /\ UpTo(kind, loop, lastBlock) <= UpTo(kind, loop', lastBlock')
         /\ e.h <= UpTo(e.kind, loop', lastBlock')
         /\ LoopInv' /\ loop'.at = loop.at /\ lastBlock' \in 0..MaxMinted
<1>1. /\ lastBlock \in 0..MaxMinted /\ lastBlock \in Nat /\ MaxMinted \in Nat
      /\ loop \in [at : {"off", "top", "height", "blocks", "announce", "txs", "forward"},
                   from : Nat, height : Nat, upto : Int]
      /\ InStep => loop.from <= lastBlock /\ loop.upto <= MaxMinted
      /\ loop.at = "forward" => loop.upto <= lastBlock
  BY FeedAssumption DEF FeedInv, FeedTypeOK, LoopInv
<1>2. CASE loop.at = "announce" /\ e = Event("block", lastBlock + 1)
  <2>1. /\ lastBlock < loop.upto /\ lastBlock' = lastBlock + 1 /\ loop' = loop /\ InStep
        /\ e \in FeedEvent /\ e.current /\ e.h = lastBlock + 1 /\ e.kind = "block"
    BY <1>1, <1>2 DEF NextEvent, Event, FeedEvent, InStep, StepPlaces
  <2>2. lastBlock' \in 0..MaxMinted
    BY <1>1, <2>1
  <2>3. LoopInv'
    BY <1>1, <1>2, <2>1 DEF LoopInv, InStep
  <2> QED BY <1>1, <1>2, <2>1, <2>2, <2>3 DEF UpTo
<1>3. CASE loop.at = "forward" /\ e = Event("tx", loop.from + 1)
  <2>1. /\ loop.from < loop.upto /\ lastBlock' = lastBlock /\ InStep
        /\ loop' = [loop EXCEPT !.from = @ + 1]
        /\ e \in FeedEvent /\ e.current /\ e.h = loop.from + 1 /\ e.kind = "tx"
    BY <1>1, <1>3 DEF NextEvent, Event, FeedEvent, InStep, StepPlaces
  <2>2. /\ loop'.from = loop.from + 1 /\ loop'.from <= lastBlock /\ loop'.at = "forward"
        /\ loop'.upto = loop.upto
        /\ loop' \in [at : {"off", "top", "height", "blocks", "announce", "txs", "forward"},
                      from : Nat, height : Nat, upto : Int]
    BY <1>1, <1>3, <2>1
  <2>3. LoopInv'
    BY <1>1, <1>3, <2>1, <2>2 DEF LoopInv, InStep
  <2> QED BY <1>1, <1>3, <2>1, <2>2, <2>3 DEF UpTo, StepPlaces
<1> QED BY <1>2, <1>3 DEF NextEvent

LEMMA AnnounceStep ==
  ASSUME FeedInv, NEW e, NextEvent(e), Broadcast(e),
         UNCHANGED <<chainVars, clientVars, running>>
  PROVE  FeedInv'
<1>1. UNCHANGED <<feedTip, minted, feedFaults, subs, full, client, running>>
  BY DEF chainVars, clientVars
<1>2. LoopInv' /\ loop'.at = loop.at /\ lastBlock' \in 0..MaxMinted
  BY NextEventFacts
<1>3. /\ Len(recent') <= LiveReplay
      /\ SubsInv' /\ SentInv' /\ RingClosed' /\ GotClosed'
  BY <1>1, NextEventFacts, Broadcasting
<1>4. FeedTypeOK' /\ (feedTip <= minted)'
  BY <1>1, <1>2, <1>3 DEF FeedInv, FeedTypeOK
<1> QED BY <1>2, <1>3, <1>4 DEF FeedInv

-----------------------------------------------------------------------------
\* What the loop and the connections can do, in the parts that were looked at.
LEMMA FeedSteps ==
  ASSUME FeedNext
  PROVE  \/ Mint
         \/ \E c \in Clients : Subscribe(c) \/ EnsureRunning(c) \/ Stall(c) \/ Unsubscribe(c)
         \/ \E c \in Clients : Replay(c)
         \/ StopIfIdle \/ PollHeight
         \/ PollBlocks \/ PollTxs \/ PollFails
         \/ Announce /\ ~ (lastBlock < loop.upto)
         \/ Forward /\ ~ (loop.from < loop.upto)
         \/ \E e : NextEvent(e) /\ Broadcast(e) /\ UNCHANGED <<chainVars, clientVars, running>>
<1>1. CASE Announce /\ lastBlock < loop.upto
  <2>1. /\ NextEvent(Event("block", lastBlock + 1)) /\ Broadcast(Event("block", lastBlock + 1))
        /\ UNCHANGED <<chainVars, clientVars, running>>
    BY <1>1 DEF Announce, NextEvent
  <2> QED BY <2>1
<1>2. CASE Forward /\ loop.from < loop.upto
  <2>1. /\ NextEvent(Event("tx", loop.from + 1)) /\ Broadcast(Event("tx", loop.from + 1))
        /\ UNCHANGED <<chainVars, clientVars, running>>
    BY <1>2 DEF Forward, NextEvent
  <2> QED BY <2>1
<1> QED BY <1>1, <1>2 DEF FeedNext, Poll, Connection

LEMMA FeedInvKept ==
  ASSUME FeedInv, [FeedNext]_feedVars
  PROVE  FeedInv'
<1>1. CASE FeedNext
  BY <1>1, FeedSteps, MintStep, ConnectionStep, ReplayStep, HeightStep, QuietStep, AnnounceStep
<1>2. CASE UNCHANGED feedVars
  <2>1. UNCHANGED <<feedTip, minted, feedFaults, subs, full, client, running, lastBlock, recent,
                    loop, got>>
    BY <1>2 DEF feedVars, chainVars, clientVars
  <2>2. FeedTypeOK' /\ (feedTip <= minted)' /\ SubsInv' /\ LoopInv'
    BY <2>1 DEF FeedInv, FeedTypeOK, SubsInv, LoopInv, InStep
  <2>3. SentInv' /\ RingClosed' /\ GotClosed'
    BY <2>1 DEF FeedInv, SentInv, RingClosed, GotClosed
  <2> QED BY <2>2, <2>3 DEF FeedInv
<1> QED BY <1>1, <1>2

\* FeedInv holds in every reachable state: it is the inductive invariant behind the
\* theorems about the feed.
THEOREM FeedInvHolds == FeedSpec => []FeedInv
<1>1. FeedInit => FeedInv
  BY FeedInitInv
<1>2. FeedInv /\ [FeedNext]_feedVars => FeedInv'
  BY FeedInvKept
<1> QED BY <1>1, <1>2, PTL DEF FeedSpec

\* A browser that is connected is polled for, however its subscription and the exit
\* of the loop interleave.
THEOREM NobodyStranded == FeedSpec => []FeedNobodyStranded
<1>1. FeedInv => FeedNobodyStranded
  <2>1. ASSUME FeedInv, NEW c \in Clients, client[c] = "live"
        PROVE  running
    BY <2>1 DEF FeedInv, SubsInv
  <2> QED BY <2>1 DEF FeedNobodyStranded
<1> QED BY <1>1, FeedInvHolds, PTL

\* Between the replay and the broadcasts that follow it no block is missing.
THEOREM NoHoleInFeed == FeedSpec => []FeedNoHole
<1>1. FeedInv => FeedNoHole
  <2>1. ASSUME FeedInv, NEW c \in Clients,
               NEW x \in got[c], x.kind = "block", NEW k \in x.h..lastBlock
        PROVE  \E e \in got[c] : e.kind = "block" /\ e.h = k
    <3>1. Event("block", k) \in got[c]
      BY <2>1 DEF FeedInv, GotClosed
    <3>2. Event("block", k).kind = "block" /\ Event("block", k).h = k
      BY DEF Event
    <3> QED BY <3>1, <3>2
  <2> QED BY <2>1 DEF FeedNoHole
<1> QED BY <1>1, FeedInvHolds, PTL

\* No event goes out twice in a sequence, and no transaction before its block.
THEOREM AnnouncedOnce == FeedSpec => FeedOnce
<1> DEFINE A == recent' # recent /\ loop.at # "height" =>
                  LET e == recent'[Len(recent')]
                  IN /\ e \notin Events(recent)
                     /\ \A c \in subs : client[c] = "live" => e \notin got[c]
                     /\ e.kind = "tx" => e.h <= lastBlock
<1>1. ASSUME FeedInv, [FeedNext]_feedVars
      PROVE  [A]_feedVars
  <2>1. ASSUME NEW e, NextEvent(e), Broadcast(e), UNCHANGED <<chainVars, clientVars, running>>
        PROVE  A
    <3>1. recent'[Len(recent')] = e
      BY <1>1, <2>1, NextEventFacts, Broadcasting DEF clientVars
    <3>2. e.h \in Int /\ e.h > UpTo(e.kind, loop, lastBlock) /\ UpTo(e.kind, loop, lastBlock) \in Int
          /\ (e.kind = "tx" => e.h <= lastBlock) /\ e.current
      BY <1>1, <2>1, NextEventFacts
    <3>3. e \notin Events(recent)
      BY <1>1, <3>2 DEF FeedInv, SentInv, Events
    <3>4. \A c \in subs : e \notin got[c]
      BY <1>1, <3>2 DEF FeedInv, SentInv, FeedTypeOK
    <3> QED BY <3>1, <3>2, <3>3, <3>4
  <2>2. CASE UNCHANGED recent
    BY <2>2
  <2>3. CASE PollHeight
    BY <2>3 DEF PollHeight
  <2>4. FeedNext => UNCHANGED recent \/ PollHeight \/
          \E e : NextEvent(e) /\ Broadcast(e) /\ UNCHANGED <<chainVars, clientVars, running>>
    BY FeedSteps DEF Mint, Subscribe, EnsureRunning, Stall, Unsubscribe, Replay, StopIfIdle,
       PollBlocks, PollTxs, PollFails, Announce, Forward
  <2> HIDE DEF A
  <2> QED BY <1>1, <2>1, <2>2, <2>3, <2>4
<1>2. FeedSpec => [][A]_feedVars
  BY <1>1, FeedInvHolds, PTL DEF FeedSpec
<1> QED BY <1>2 DEF FeedOnce

-----------------------------------------------------------------------------
(***************************************************************************)
(* TrafficLog: every request served has its row in one place, in the       *)
(* buffer, in a batch on its way, in the table, or gone; and no id links   *)
(* two days.                                                               *)
(*                                                                         *)
(* That the places together hold as many rows as were served needs that    *)
(* they are disjoint and no two rows of one request (PlacesInv). That ids  *)
(* of two days differ needs that the key in memory made ids of its own day *)
(* only (KeyInv).                                                          *)
(***************************************************************************)

\* The key in memory has made ids for its own day only.
KeyInv == \A x \in Logged : x.id # 0 /\ x.id = salt.key => x.day = salt.day

\* Every request that was served has one row, and that row lies in one place.
PlacesInv ==
  /\ \A x, y \in Logged : x.n = y.n => x = y
  /\ {x.n : x \in Logged} = 1..served
  /\ buffer \cap Taken = {} /\ buffer \cap rows = {} /\ buffer \cap gone = {}
  /\ Taken \cap rows = {} /\ Taken \cap gone = {} /\ rows \cap gone = {}
  /\ \A v, w \in Writers : v # w => batch[v] \cap batch[w] = {}

\* Requests under way, which the bound on requests counts too.
UnderWay == {c \in Connections : began[c] # NotServing}

TrafficInv ==
  /\ TrafficTypeOK /\ keys \in Nat /\ life \in Nat \ {0}
  /\ served + Cardinality(UnderWay) <= MaxServed
  /\ KeyInv /\ SaltUnlinkable /\ PlacesInv

-----------------------------------------------------------------------------
RowsOf(s, t, l, k) == [n : 1..s, day : 0..t, life : 1..l, id : 0..k]

\* The type invariant with its kind of row named, and what it makes of Logged.
LEMMA TrafficTypes ==
  /\ TrafficTypeOK <=>
       /\ today \in 0..LastDay
       /\ salt \in [day : NotServing..today, key : 0..keys]
       /\ began \in [Connections -> NotServing..today]
       /\ served \in 0..MaxServed
       /\ buffer \subseteq RowsOf(served, today, life, keys)
       /\ rows \subseteq RowsOf(served, today, life, keys)
       /\ gone \subseteq RowsOf(served, today, life, keys)
       /\ batch \in [Writers -> SUBSET RowsOf(served, today, life, keys)]
       /\ exiting \in BOOLEAN
       /\ trafficFaults \in 0..MaxTrafficFaults
       /\ Cardinality(buffer) <= BufferLimit
  /\ TrafficTypeOK => Logged \subseteq RowsOf(served, today, life, keys)
<1>1. TrafficTypeOK => Taken \subseteq RowsOf(served, today, life, keys)
  BY DEF TrafficTypeOK, Taken, RowsOf
<1> QED BY <1>1 DEF TrafficTypeOK, RowsOf, Logged

LEMMA RowsGrow ==
  ASSUME NEW s \in Nat, NEW s1 \in Nat, s <= s1, NEW t \in Nat, NEW t1 \in Nat, t <= t1,
         NEW l \in Nat, NEW l1 \in Nat, l <= l1, NEW k \in Nat, NEW k1 \in Nat, k <= k1
  PROVE  RowsOf(s, t, l, k) \subseteq RowsOf(s1, t1, l1, k1)
<1>1. 1..s \subseteq 1..s1 /\ 0..t \subseteq 0..t1 /\ 1..l \subseteq 1..l1 /\ 0..k \subseteq 0..k1
  OBVIOUS
<1> QED BY <1>1 DEF RowsOf

\* The rows the three writers hold.
LEMMA ThreeWriters ==
  ASSUME NEW b
  PROVE  UNION {b[w] : w \in Writers} = b["timer"] \union b["handler"] \union b["close"]
BY DEF Writers

\* The rows that exist are as many as the requests served.
LEMMA LoggedFinite ==
  ASSUME PlacesInv, served \in Nat
  PROVE  IsFiniteSet(Logged) /\ Cardinality(Logged) = served
<1> DEFINE f == [x \in Logged |-> x.n]
<1>1. IsFiniteSet(1..served) /\ Cardinality(1..served) = served
  <2>1. /\ IsFiniteSet(1..served)
        /\ Cardinality(1..served) = IF 1 > served THEN 0 ELSE served - 1 + 1
    <3>1. 1 \in Int /\ served \in Int
      OBVIOUS
    <3> QED BY <3>1, FS_Interval, Zenon
  <2> QED BY <2>1
<1>2. f \in [Logged -> 1..served] /\ \A k \in 1..served : \E x \in Logged : f[x] = k
  BY DEF PlacesInv
<1>3. \A x, y \in Logged : f[x] = f[y] => x = y
  BY DEF PlacesInv
<1>4. DOMAIN f = Logged
  OBVIOUS
<1> HIDE DEF f
<1>5. f \in Injection(Logged, 1..served) /\ f \in Surjection(Logged, 1..served)
  BY <1>2, <1>3, <1>4 DEF Injection, IsInjective, Surjection
<1> QED BY <1>1, <1>5, FS_Injection

\* Two disjoint finite sets together.
LEMMA DisjointUnion ==
  ASSUME NEW S, NEW T, IsFiniteSet(S), IsFiniteSet(T), S \cap T = {}
  PROVE  /\ IsFiniteSet(S \union T) /\ Cardinality(S) \in Nat /\ Cardinality(T) \in Nat
         /\ Cardinality(S \union T) = Cardinality(S) + Cardinality(T)
<1>1. Cardinality(S \cap T) = 0
  BY FS_EmptySet
<1>2. IsFiniteSet(S \cup T) /\ Cardinality(S \cup T) = Cardinality(S) + Cardinality(T) - Cardinality(S \cap T)
  BY FS_Union, Zenon
<1>3. Cardinality(S) \in Nat /\ Cardinality(T) \in Nat
  BY FS_CardinalityType
<1> QED BY <1>1, <1>2, <1>3

LEMMA KeptFromPlaces ==
  ASSUME PlacesInv, served \in Nat
  PROVE  TrafficKept
<1>1. IsFiniteSet(Logged) /\ Cardinality(Logged) = served
  BY LoggedFinite
<1>2. IsFiniteSet(buffer) /\ IsFiniteSet(Taken) /\ IsFiniteSet(rows) /\ IsFiniteSet(gone)
  <2>1. buffer \subseteq Logged /\ Taken \subseteq Logged /\ rows \subseteq Logged /\ gone \subseteq Logged
    BY DEF Logged
  <2> QED BY <1>1, <2>1, FS_Subset
<1> DEFINE two == buffer \union Taken
           three == two \union rows
<1>3. /\ IsFiniteSet(two) /\ Cardinality(buffer) \in Nat /\ Cardinality(Taken) \in Nat
      /\ Cardinality(two) = Cardinality(buffer) + Cardinality(Taken)
  BY <1>2, DisjointUnion DEF PlacesInv
<1>4. /\ IsFiniteSet(three) /\ Cardinality(rows) \in Nat
      /\ Cardinality(three) = Cardinality(two) + Cardinality(rows)
  <2>1. two \cap rows = {}
    BY DEF PlacesInv
  <2> HIDE DEF two
  <2> QED BY <1>2, <1>3, <2>1, DisjointUnion
<1>5. /\ Cardinality(gone) \in Nat
      /\ Cardinality(three \union gone) = Cardinality(three) + Cardinality(gone)
  <2>1. three \cap gone = {}
    BY DEF PlacesInv
  <2> HIDE DEF three
  <2> QED BY <1>2, <1>4, <2>1, DisjointUnion
<1>6. three \union gone = Logged
  BY DEF Logged
<1> HIDE DEF two, three
<1> QED BY <1>1, <1>3, <1>4, <1>5, <1>6 DEF TrafficKept, PlacesInv

\* A step that only moves rows about.
LEMMA RowsMove ==
  ASSUME TrafficInv, Logged' = Logged, served' = served, salt' = salt \/ salt' = NoSalt
  PROVE  /\ KeyInv' /\ SaltUnlinkable'
         /\ \A x, y \in Logged' : x.n = y.n => x = y
         /\ {x.n : x \in Logged'} = 1..served'
BY DEF TrafficInv, KeyInv, SaltUnlinkable, PlacesInv, NoSalt

\* A step that leaves the rows alone.
LEMMA RowsRest ==
  ASSUME TrafficInv, UNCHANGED <<salt, served, buffer, batch, rows, gone>>
  PROVE  KeyInv' /\ SaltUnlinkable' /\ PlacesInv'
<1>1. Logged' = Logged /\ Taken' = Taken
  BY DEF Logged, Taken
<1>2. KeyInv' /\ SaltUnlinkable'
  BY <1>1, RowsMove
<1>3. PlacesInv'
  BY <1>1 DEF TrafficInv, PlacesInv
<1> QED BY <1>2, <1>3

-----------------------------------------------------------------------------
LEMMA TrafficInitInv ==
  ASSUME TrafficInit
  PROVE  TrafficInv
<1> USE DEF TrafficInit
<1>1. Taken = {} /\ Logged = {}
  BY DEF Taken, Logged
<1>2. Cardinality(buffer) = 0 /\ Cardinality(UnderWay) = 0
  <2>1. UnderWay = {}
    BY DEF UnderWay
  <2> QED BY <2>1, FS_EmptySet
<1>3. salt \in [day : NotServing..today, key : 0..keys]
  BY DEF NoSalt, NotServing
<1>4. TrafficTypeOK
  <2>1. /\ today \in 0..LastDay /\ served \in 0..MaxServed /\ trafficFaults \in 0..MaxTrafficFaults
        /\ Cardinality(buffer) <= BufferLimit
    BY <1>2, TrafficAssumption
  <2>2. began \in [Connections -> NotServing..today]
    BY DEF NotServing
  <2>3. batch \in [Writers -> SUBSET RowsOf(served, today, life, keys)]
    OBVIOUS
  <2> QED BY <1>3, <2>1, <2>2, <2>3, TrafficTypes
<1>5. KeyInv /\ SaltUnlinkable
  BY <1>1 DEF KeyInv, SaltUnlinkable
<1>6. PlacesInv
  BY <1>1 DEF PlacesInv
<1>7. served + Cardinality(UnderWay) <= MaxServed
  BY <1>2, TrafficAssumption
<1> QED BY <1>4, <1>5, <1>6, <1>7 DEF TrafficInv

\* The day turns, or the process is told to stop.
LEMMA DayTurnsStep ==
  ASSUME TrafficInv, DayTurns \/ StopTraffic
  PROVE  TrafficInv'
<1>1. /\ today' \in 0..LastDay /\ today <= today' /\ today \in Nat /\ today' \in Nat
      /\ trafficFaults' \in 0..MaxTrafficFaults /\ exiting' \in BOOLEAN
      /\ UNCHANGED <<salt, keys, began, served, buffer, batch, rows, gone, life>>
  <2>1. /\ today \in 0..LastDay /\ LastDay \in Nat /\ exiting \in BOOLEAN
        /\ trafficFaults \in 0..MaxTrafficFaults /\ MaxTrafficFaults \in Nat
    BY TrafficAssumption DEF TrafficInv, TrafficTypeOK
  <2>2. CASE DayTurns
    BY <2>1, <2>2 DEF DayTurns
  <2>3. CASE StopTraffic
    BY <2>1, <2>3 DEF StopTraffic, Fault
  <2> QED BY <2>2, <2>3
<1>2. served \in Nat /\ life \in Nat /\ keys \in Nat
  BY TrafficAssumption DEF TrafficInv, TrafficTypeOK
<1>3. RowsOf(served, today, life, keys) \subseteq RowsOf(served, today', life, keys)
  BY <1>1, <1>2, RowsGrow
<1>4. NotServing..today \subseteq NotServing..today'
  BY <1>1 DEF NotServing
<1>5. TrafficTypeOK'
  <2>1. salt' \in [day : NotServing..today', key : 0..keys']
    BY <1>1, <1>4 DEF TrafficInv, TrafficTypeOK
  <2>2. began' \in [Connections -> NotServing..today']
    BY <1>1, <1>4 DEF TrafficInv, TrafficTypeOK
  <2>3. /\ buffer' \subseteq RowsOf(served', today', life', keys')
        /\ rows' \subseteq RowsOf(served', today', life', keys')
        /\ gone' \subseteq RowsOf(served', today', life', keys')
        /\ batch' \in [Writers -> SUBSET RowsOf(served', today', life', keys')]
    BY <1>1, <1>3, TrafficTypes DEF TrafficInv
  <2> QED BY <1>1, <2>1, <2>2, <2>3, TrafficTypes DEF TrafficInv, TrafficTypeOK, RowsOf
<1>6. KeyInv' /\ SaltUnlinkable' /\ PlacesInv'
  BY <1>1, RowsRest
<1>7. UnderWay' = UnderWay
  BY <1>1 DEF UnderWay
<1> QED BY <1>1, <1>5, <1>6, <1>7 DEF TrafficInv

\* A request begins: the bound on requests covers it.
LEMMA BeginStep ==
  ASSUME TrafficInv, NEW c \in Connections, BeginRequest(c)
  PROVE  TrafficInv'
<1>1. /\ began[c] = NotServing /\ began' = [began EXCEPT ![c] = today]
      /\ served + Cardinality(UnderWay) < MaxServed
      /\ UNCHANGED <<today, salt, keys, served, buffer, batch, rows, gone, life, exiting,
                     trafficFaults>>
  BY DEF BeginRequest, UnderWay
<1>2. began \in [Connections -> NotServing..today] /\ today \in Nat /\ served \in Nat
  BY TrafficAssumption DEF TrafficInv, TrafficTypeOK
<1>3. TrafficTypeOK'
  <2>1. today \in NotServing..today
    BY <1>2 DEF NotServing
  <2>2. began' \in [Connections -> NotServing..today]
    BY <1>1, <1>2, <2>1
  <2> QED BY <1>1, <2>2 DEF TrafficInv, TrafficTypeOK
<1>4. KeyInv' /\ SaltUnlinkable' /\ PlacesInv'
  BY <1>1, RowsRest
<1>5. served' + Cardinality(UnderWay') <= MaxServed
  <2>1. IsFiniteSet(UnderWay) /\ Cardinality(UnderWay) \in Nat
    BY TrafficAssumption, FS_Subset, FS_CardinalityType DEF UnderWay
  <2>2. UnderWay' = UnderWay \union {c} /\ c \notin UnderWay
    BY <1>1, <1>2 DEF UnderWay, NotServing
  <2>3. Cardinality(UnderWay') = Cardinality(UnderWay) + 1
    BY <2>1, <2>2, FS_AddElement
  <2> QED BY <1>1, <1>2, <2>1, <2>3, TrafficAssumption
<1> QED BY <1>1, <1>3, <1>4, <1>5 DEF TrafficInv

\* What is left of the invariant where rows move between the buffer, the writers, the
\* table and what is gone, and no request begins or ends.
LEMMA RowsMoved ==
  ASSUME TrafficInv, Logged' = Logged, UNCHANGED <<today, keys, served>>,
         salt' = salt \/ salt' = NoSalt,
         life' \in Nat, life <= life', exiting' \in BOOLEAN,
         began' = began \/ began' = [c \in Connections |-> NotServing],
         trafficFaults' \in 0..MaxTrafficFaults,
         DOMAIN batch' = Writers, batch' = [w \in DOMAIN batch' |-> batch'[w]],
         buffer' = buffer \/ buffer' = {},
         /\ buffer' \cap Taken' = {} /\ buffer' \cap rows' = {} /\ buffer' \cap gone' = {}
         /\ Taken' \cap rows' = {} /\ Taken' \cap gone' = {} /\ rows' \cap gone' = {}
         /\ \A v, w \in Writers : v # w => batch'[v] \cap batch'[w] = {}
  PROVE  TrafficInv'
<1>1. /\ served \in Nat /\ today \in Nat /\ life \in Nat /\ keys \in Nat
      /\ BufferLimit \in Nat
  BY TrafficAssumption DEF TrafficInv, TrafficTypeOK
<1>2. Logged' \subseteq RowsOf(served, today, life', keys)
  <2>1. RowsOf(served, today, life, keys) \subseteq RowsOf(served, today, life', keys)
    <3>1. 1..life \subseteq 1..life'
      BY <1>1
    <3> QED BY <3>1 DEF RowsOf
  <2> QED BY <2>1, TrafficTypes DEF TrafficInv
<1>3. /\ buffer' \subseteq Logged' /\ rows' \subseteq Logged' /\ gone' \subseteq Logged'
      /\ \A w \in Writers : batch'[w] \subseteq Logged'
  BY DEF Logged, Taken
<1>4. batch' \in [Writers -> SUBSET RowsOf(served, today, life', keys)]
  BY <1>2, <1>3
<1>5. Cardinality(buffer') <= BufferLimit
  <2>1. CASE buffer' = buffer
    BY <2>1 DEF TrafficInv, TrafficTypeOK
  <2>2. CASE buffer' = {}
    <3>1. Cardinality(buffer') = 0
      BY <2>2, FS_EmptySet
    <3> QED BY <1>1, <3>1
  <2> QED BY <2>1, <2>2
<1>6. salt' \in [day : NotServing..today, key : 0..keys]
  <2>1. NoSalt \in [day : NotServing..today, key : 0..keys]
    BY <1>1 DEF NoSalt, NotServing
  <2> QED BY <2>1 DEF TrafficInv, TrafficTypeOK
<1>7. began' \in [Connections -> NotServing..today]
  <2>1. NotServing \in NotServing..today
    BY <1>1 DEF NotServing
  <2> QED BY <2>1 DEF TrafficInv, TrafficTypeOK
<1>8. TrafficTypeOK'
  <2>1. today' \in 0..LastDay /\ served' \in 0..MaxServed
    BY DEF TrafficInv, TrafficTypeOK
  <2>2. /\ buffer' \subseteq RowsOf(served', today', life', keys')
        /\ rows' \subseteq RowsOf(served', today', life', keys')
        /\ gone' \subseteq RowsOf(served', today', life', keys')
        /\ batch' \in [Writers -> SUBSET RowsOf(served', today', life', keys')]
    BY <1>2, <1>3, <1>4
  <2> QED BY <1>5, <1>6, <1>7, <2>1, <2>2, TrafficTypes DEF TrafficTypeOK, RowsOf
<1>9. KeyInv' /\ SaltUnlinkable' /\ PlacesInv'
  BY RowsMove DEF PlacesInv
<1>10. served' + Cardinality(UnderWay') <= MaxServed
  <2>1. CASE began' = began
    BY <2>1 DEF TrafficInv, UnderWay
  <2>2. CASE began' = [c \in Connections |-> NotServing]
    <3>1. UnderWay' = {}
      BY <2>2 DEF UnderWay
    <3>2. Cardinality(UnderWay') = 0
      BY <3>1, FS_EmptySet
    <3>3. MaxServed \in Nat /\ served \in 0..MaxServed
      BY TrafficAssumption DEF TrafficInv, TrafficTypeOK
    <3> QED BY <3>2, <3>3
  <2> QED BY <2>1, <2>2
<1> QED BY <1>1, <1>8, <1>9, <1>10 DEF TrafficInv

LEMMA TakeStep ==
  ASSUME TrafficInv, NEW w \in Writers, TakeRows(w)
  PROVE  TrafficInv'
<1>1. /\ batch[w] = {} /\ batch' = [batch EXCEPT ![w] = buffer] /\ buffer' = {}
      /\ UNCHANGED <<today, salt, keys, began, served, rows, gone, life, exiting, trafficFaults>>
  BY DEF TakeRows
<1>2. /\ DOMAIN batch = Writers /\ life \in Nat /\ exiting \in BOOLEAN
      /\ trafficFaults \in 0..MaxTrafficFaults /\ batch = [v \in Writers |-> batch[v]]
  BY DEF TrafficInv, TrafficTypeOK
<1>3. \A v \in Writers : batch'[v] = IF v = w THEN buffer ELSE batch[v]
  BY <1>1, <1>2
<1>4. Taken' = Taken \union buffer
  BY <1>1, <1>3 DEF Taken
<1>5. Logged' = Logged
  BY <1>1, <1>4 DEF Logged
<1>6. /\ buffer \cap Taken = {} /\ buffer \cap rows = {} /\ buffer \cap gone = {}
      /\ Taken \cap rows = {} /\ Taken \cap gone = {} /\ rows \cap gone = {}
      /\ \A v, u \in Writers : v # u => batch[v] \cap batch[u] = {}
      /\ \A v \in Writers : batch[v] \subseteq Taken
  BY DEF TrafficInv, PlacesInv, Taken
<1>7. \A v, u \in Writers : v # u => batch'[v] \cap batch'[u] = {}
  BY <1>3, <1>6
<1>8. DOMAIN batch' = Writers /\ batch' = [v \in DOMAIN batch' |-> batch'[v]]
  BY <1>1, <1>2
<1> QED BY <1>1, <1>2, <1>4, <1>5, <1>6, <1>7, <1>8, RowsMoved

LEMMA WriteStep ==
  ASSUME TrafficInv, NEW w \in Writers, WriteRows(w)
  PROVE  TrafficInv'
<1>1. /\ batch' = [batch EXCEPT ![w] = {}]
      /\ \/ rows' = rows \union batch[w] /\ gone' = gone
         \/ gone' = gone \union batch[w] /\ rows' = rows
      /\ UNCHANGED <<today, salt, keys, began, served, buffer, life, exiting>>
  BY DEF WriteRows
<1>2. /\ DOMAIN batch = Writers /\ life \in Nat /\ exiting \in BOOLEAN
      /\ trafficFaults \in 0..MaxTrafficFaults /\ MaxTrafficFaults \in Nat
      /\ batch = [v \in Writers |-> batch[v]]
  BY TrafficAssumption DEF TrafficInv, TrafficTypeOK
<1>3. trafficFaults' \in 0..MaxTrafficFaults
  BY <1>2 DEF WriteRows, Fault
<1>4. \A v \in Writers : batch'[v] = IF v = w THEN {} ELSE batch[v]
  BY <1>1, <1>2
<1>5. /\ buffer \cap Taken = {} /\ buffer \cap rows = {} /\ buffer \cap gone = {}
      /\ Taken \cap rows = {} /\ Taken \cap gone = {} /\ rows \cap gone = {}
      /\ \A v, u \in Writers : v # u => batch[v] \cap batch[u] = {}
      /\ \A v \in Writers : batch[v] \subseteq Taken
  BY DEF TrafficInv, PlacesInv, Taken
<1>6. Taken' = Taken \ batch[w]
  <2>1. \A x : x \in Taken' <=> \E v \in Writers : x \in batch'[v]
    BY DEF Taken
  <2>2. \A x : x \in Taken <=> \E v \in Writers : x \in batch[v]
    BY DEF Taken
  <2>3. \A x : x \in Taken' <=> x \in Taken /\ x \notin batch[w]
    BY <1>4, <1>5, <2>1, <2>2
  <2> QED BY <2>3
<1>7. Logged' = Logged
  BY <1>1, <1>5, <1>6 DEF Logged
<1>8. \A v, u \in Writers : v # u => batch'[v] \cap batch'[u] = {}
  BY <1>4, <1>5
<1>9. DOMAIN batch' = Writers /\ batch' = [v \in DOMAIN batch' |-> batch'[v]]
  BY <1>1, <1>2
<1>10. /\ buffer' \cap Taken' = {} /\ buffer' \cap rows' = {} /\ buffer' \cap gone' = {}
       /\ Taken' \cap rows' = {} /\ Taken' \cap gone' = {} /\ rows' \cap gone' = {}
  BY <1>1, <1>5, <1>6
<1> QED BY <1>1, <1>2, <1>3, <1>7, <1>8, <1>9, <1>10, RowsMoved

LEMMA PruneStep ==
  ASSUME TrafficInv, Prune
  PROVE  TrafficInv'
<1> DEFINE old == {x \in rows : Expired(x)}
<1>1. /\ rows' = rows \ old /\ gone' = gone \union old /\ old \subseteq rows
      /\ UNCHANGED <<today, salt, keys, began, served, buffer, batch, life, exiting, trafficFaults>>
  BY DEF Prune
<1> HIDE DEF old
<1>2. /\ DOMAIN batch = Writers /\ life \in Nat /\ exiting \in BOOLEAN
      /\ trafficFaults \in 0..MaxTrafficFaults /\ batch = [v \in Writers |-> batch[v]]
  BY DEF TrafficInv, TrafficTypeOK
<1>3. Taken' = Taken
  BY <1>1 DEF Taken
<1>4. Logged' = Logged
  BY <1>1, <1>3 DEF Logged
<1>5. /\ buffer \cap Taken = {} /\ buffer \cap rows = {} /\ buffer \cap gone = {}
      /\ Taken \cap rows = {} /\ Taken \cap gone = {} /\ rows \cap gone = {}
      /\ \A v, u \in Writers : v # u => batch[v] \cap batch[u] = {}
  BY DEF TrafficInv, PlacesInv
<1>6. /\ buffer' \cap Taken' = {} /\ buffer' \cap rows' = {} /\ buffer' \cap gone' = {}
      /\ Taken' \cap rows' = {} /\ Taken' \cap gone' = {} /\ rows' \cap gone' = {}
  BY <1>1, <1>3, <1>5
<1>7. \A v, u \in Writers : v # u => batch'[v] \cap batch'[u] = {}
  BY <1>1, <1>5
<1> QED BY <1>1, <1>2, <1>4, <1>6, <1>7, RowsMoved

\* The process ends: what it held is gone, and the next life has a key of its own.
LEMMA ExitStep ==
  ASSUME TrafficInv, ExitTraffic
  PROVE  TrafficInv'
<1>1. /\ batch["close"] = {} /\ exiting' = FALSE /\ life' = life + 1
      /\ gone' = gone \union buffer \union batch["timer"] \union batch["handler"]
      /\ buffer' = {} /\ batch' = [w \in Writers |-> {}] /\ salt' = NoSalt
      /\ began' = [c \in Connections |-> NotServing]
      /\ UNCHANGED <<today, keys, served, rows, trafficFaults>>
  BY DEF ExitTraffic
<1>2. /\ life' \in Nat /\ life <= life' /\ trafficFaults' \in 0..MaxTrafficFaults
      /\ exiting' \in BOOLEAN
  <2>1. life \in Nat /\ trafficFaults \in 0..MaxTrafficFaults
    BY DEF TrafficInv, TrafficTypeOK
  <2>2. trafficFaults' = trafficFaults
    BY <1>1
  <2>3. exiting' \in BOOLEAN
    BY <1>1
  <2>4. life' = life + 1
    BY <1>1
  <2>5. life' \in Nat /\ life <= life'
    BY <2>1, <2>4
  <2> QED BY <2>1, <2>2, <2>3, <2>5
<1>3. Taken' = {} /\ Taken = batch["timer"] \union batch["handler"]
  BY <1>1, ThreeWriters DEF Taken
<1>4. Logged' = Logged
  BY <1>1, <1>3 DEF Logged
<1>5. rows \cap buffer = {} /\ rows \cap Taken = {} /\ rows \cap gone = {}
  BY DEF TrafficInv, PlacesInv
<1>6. /\ buffer' \cap Taken' = {} /\ buffer' \cap rows' = {} /\ buffer' \cap gone' = {}
      /\ Taken' \cap rows' = {} /\ Taken' \cap gone' = {} /\ rows' \cap gone' = {}
  BY <1>1, <1>3, <1>5
<1>7. /\ DOMAIN batch' = Writers /\ batch' = [v \in DOMAIN batch' |-> batch'[v]]
      /\ \A v, u \in Writers : v # u => batch'[v] \cap batch'[u] = {}
  BY <1>1
<1> QED BY <1>1, <1>2, <1>4, <1>6, <1>7, RowsMoved

\* A request ends: its row is new, and so is the key it was made with unless that is
\* one of the same day.
LEMMA EndStep ==
  ASSUME TrafficInv, NEW c \in Connections, EndRequest(c)
  PROVE  TrafficInv'
<1> DEFINE row == [n |-> served + 1, day |-> began[c], life |-> life, id |-> salt'.key]
<1>1. /\ began[c] # NotServing /\ served' = served + 1
      /\ began' = [began EXCEPT ![c] = NotServing]
      /\ UNCHANGED <<today, batch, rows, life, exiting>>
      /\ Record(row)
  BY DEF EndRequest
<1>2. /\ served \in Nat /\ today \in Nat /\ life \in Nat /\ life > 0 /\ keys \in Nat
      /\ salt \in [day : NotServing..today, key : 0..keys]
      /\ began \in [Connections -> NotServing..today] /\ BufferLimit \in Nat
      /\ trafficFaults \in 0..MaxTrafficFaults /\ MaxTrafficFaults \in Nat
  BY TrafficAssumption DEF TrafficInv, TrafficTypeOK
<1>3. began[c] \in 0..today
  BY <1>1, <1>2 DEF NotServing
<1>4. \/ salt' = salt /\ salt.day = began[c] /\ keys' = keys /\ trafficFaults' = trafficFaults
      \/ /\ salt' = [day |-> began[c], key |-> keys + 1] /\ keys' = keys + 1
         /\ trafficFaults' = trafficFaults
      \/ salt' = [day |-> began[c], key |-> 0] /\ keys' = keys /\ Fault
  BY DEF EndRequest, HasKey
<1>5. /\ salt'.day = began[c] /\ salt'.key \in 0..keys' /\ keys' \in Nat /\ keys <= keys'
      /\ salt' \in [day : NotServing..today, key : 0..keys']
  <2>1. CASE salt' = salt /\ salt.day = began[c] /\ keys' = keys
    BY <1>2, <2>1
  <2>2. CASE salt' = [day |-> began[c], key |-> keys + 1] /\ keys' = keys + 1
    BY <1>2, <2>2
  <2>3. CASE salt' = [day |-> began[c], key |-> 0] /\ keys' = keys
    BY <1>2, <2>3
  <2> QED BY <1>4, <2>1, <2>2, <2>3
<1>6. trafficFaults' \in 0..MaxTrafficFaults
  BY <1>2, <1>4 DEF Fault
<1>7. /\ row.n = served + 1 /\ row.day = began[c] /\ row.id = salt'.key
      /\ row \in RowsOf(served', today, life, keys')
  BY <1>1, <1>2, <1>3, <1>5 DEF RowsOf
<1> HIDE DEF row
<1>8. /\ Logged \subseteq RowsOf(served, today, life, keys)
      /\ RowsOf(served, today, life, keys) \subseteq RowsOf(served', today, life, keys')
  <2>1. 1..served \subseteq 1..served' /\ 0..keys \subseteq 0..keys'
    BY <1>1, <1>2, <1>5
  <2>2. RowsOf(served, today, life, keys) \subseteq RowsOf(served', today, life, keys')
    BY <2>1 DEF RowsOf
  <2> QED BY <2>2, TrafficTypes DEF TrafficInv
<1>9. \/ Cardinality(buffer) < BufferLimit /\ buffer' = buffer \union {row} /\ gone' = gone
      \/ buffer' = buffer /\ gone' = gone \union {row}
  <2>1. IsFiniteSet(buffer)
    BY <1>2, LoggedFinite, FS_Subset DEF TrafficInv, Logged
  <2>2. Cardinality(buffer) \in Nat
    BY <2>1, FS_CardinalityType
  <2> QED BY <1>1, <1>2, <2>2 DEF Record
<1>10. Taken' = Taken /\ Logged' = Logged \union {row}
  <2>1. Taken' = Taken
    BY <1>1 DEF Taken
  <2> QED BY <1>1, <1>9, <2>1 DEF Logged
<1>11. \A x \in Logged : x.n \in 1..served /\ x.id \in 0..keys
  BY <1>8 DEF RowsOf
<1>12. row \notin Logged
  BY <1>2, <1>7, <1>11
<1>13. KeyInv'
  <2>1. \A x \in Logged : x.id # 0 /\ x.id = salt'.key => x.day = salt'.day
    <3>1. CASE salt' = salt
      BY <3>1 DEF TrafficInv, KeyInv
    <3>2. CASE salt'.key = keys + 1
      BY <1>2, <1>11, <3>2
    <3>3. CASE salt'.key = 0
      BY <3>3
    <3> QED BY <1>4, <3>1, <3>2, <3>3
  <2> QED BY <1>5, <1>7, <1>10, <2>1 DEF KeyInv
<1>14. SaltUnlinkable'
  <2>1. \A x \in Logged : x.id = row.id /\ row.id # 0 => x.day = row.day
    BY <1>5, <1>7, <1>10, <1>13 DEF KeyInv
  <2> QED BY <1>10, <2>1 DEF SaltUnlinkable, TrafficInv
<1>15. PlacesInv'
  <2>1. \A x, y \in Logged' : x.n = y.n => x = y
    BY <1>2, <1>7, <1>10, <1>11 DEF TrafficInv, PlacesInv
  <2>2. {x.n : x \in Logged'} = 1..served'
    <3>1. {x.n : x \in Logged} = 1..served
      BY DEF TrafficInv, PlacesInv
    <3>2. {x.n : x \in Logged'} = {x.n : x \in Logged} \union {served + 1}
      BY <1>7, <1>10
    <3>3. 1..served' = 1..served \union {served + 1}
      BY <1>1, <1>2
    <3> QED BY <3>1, <3>2, <3>3
  <2>3. /\ buffer \cap Taken = {} /\ buffer \cap rows = {} /\ buffer \cap gone = {}
        /\ Taken \cap rows = {} /\ Taken \cap gone = {} /\ rows \cap gone = {}
        /\ \A v, u \in Writers : v # u => batch[v] \cap batch[u] = {}
        /\ row \notin buffer /\ row \notin Taken /\ row \notin rows /\ row \notin gone
    BY <1>12 DEF TrafficInv, PlacesInv, Logged
  <2>4. /\ buffer' \cap Taken' = {} /\ buffer' \cap rows' = {} /\ buffer' \cap gone' = {}
        /\ Taken' \cap rows' = {} /\ Taken' \cap gone' = {} /\ rows' \cap gone' = {}
    BY <1>1, <1>9, <1>10, <2>3
  <2> QED BY <1>1, <2>1, <2>2, <2>3, <2>4 DEF PlacesInv
<1>16. /\ served' + Cardinality(UnderWay') <= MaxServed
       /\ served' \in 0..MaxServed
  <2>1. IsFiniteSet(UnderWay) /\ Cardinality(UnderWay) \in Nat
    BY TrafficAssumption, FS_Subset, FS_CardinalityType DEF UnderWay
  <2>2. UnderWay' = UnderWay \ {c} /\ c \in UnderWay
    BY <1>1, <1>2 DEF UnderWay
  <2>3. IsFiniteSet(UnderWay') /\ Cardinality(UnderWay') = Cardinality(UnderWay) - 1
    BY <2>1, <2>2, FS_RemoveElement
  <2>4. Cardinality(UnderWay') \in Nat
    BY <2>3, FS_CardinalityType
  <2>5. served + Cardinality(UnderWay) <= MaxServed /\ MaxServed \in Nat
    BY TrafficAssumption DEF TrafficInv
  <2> QED BY <1>1, <1>2, <2>1, <2>3, <2>4, <2>5
<1>17. Cardinality(buffer') <= BufferLimit
  <2>1. CASE buffer' = buffer
    BY <2>1 DEF TrafficInv, TrafficTypeOK
  <2>2. CASE Cardinality(buffer) < BufferLimit /\ buffer' = buffer \union {row}
    <3>1. IsFiniteSet(buffer)
      BY <1>2, LoggedFinite, FS_Subset DEF TrafficInv, Logged
    <3>2. Cardinality(buffer) \in Nat
      BY <3>1, FS_CardinalityType
    <3>3. Cardinality(buffer') <= Cardinality(buffer) + 1
      BY <2>2, <3>1, <3>2, FS_AddElement
    <3>4. Cardinality(buffer') \in Nat
      BY <2>2, <3>1, FS_AddElement, FS_CardinalityType
    <3> QED BY <1>2, <2>2, <3>2, <3>3, <3>4
  <2> QED BY <1>9, <2>1, <2>2
<1>18. TrafficTypeOK'
  <2>1. began' \in [Connections -> NotServing..today]
    <3>1. NotServing \in NotServing..today
      BY <1>2 DEF NotServing
    <3> QED BY <1>1, <1>2, <3>1
  <2>2. Logged' \subseteq RowsOf(served', today, life, keys')
    BY <1>7, <1>8, <1>10
  <2>3. /\ buffer' \subseteq RowsOf(served', today', life', keys')
        /\ rows' \subseteq RowsOf(served', today', life', keys')
        /\ gone' \subseteq RowsOf(served', today', life', keys')
    BY <1>1, <2>2 DEF Logged
  <2>4. batch' \in [Writers -> SUBSET RowsOf(served', today', life', keys')]
    BY <1>1, <1>8, TrafficTypes DEF TrafficInv
  <2>5. today' \in 0..LastDay /\ exiting' \in BOOLEAN
    BY <1>1 DEF TrafficInv, TrafficTypeOK
  <2> QED BY <1>1, <1>5, <1>6, <1>16, <1>17, <2>1, <2>3, <2>4, <2>5, TrafficTypes
         DEF TrafficTypeOK, RowsOf
<1> QED BY <1>1, <1>2, <1>5, <1>13, <1>14, <1>15, <1>16, <1>18 DEF TrafficInv

-----------------------------------------------------------------------------
LEMMA TrafficInvKept ==
  ASSUME TrafficInv, [TrafficNext]_trafficVars
  PROVE  TrafficInv'
<1>1. CASE TrafficNext
  BY <1>1, DayTurnsStep, PruneStep, ExitStep, BeginStep, EndStep, TakeStep, WriteStep
     DEF TrafficNext
<1>2. CASE UNCHANGED trafficVars
  <2>1. UNCHANGED <<today, salt, keys, began, served, buffer, batch, rows, gone, life, exiting,
                    trafficFaults>>
    BY <1>2 DEF trafficVars
  <2>2. KeyInv' /\ SaltUnlinkable' /\ PlacesInv'
    BY <2>1, RowsRest DEF TrafficInv
  <2> QED BY <2>1, <2>2 DEF TrafficInv, TrafficTypeOK, UnderWay
<1> QED BY <1>1, <1>2

\* TrafficInv holds in every reachable state: it is the inductive invariant behind the
\* theorems about the request log.
THEOREM TrafficInvHolds == TrafficSpec => []TrafficInv
<1>1. TrafficInit => TrafficInv
  BY TrafficInitInv
<1>2. TrafficInv /\ [TrafficNext]_trafficVars => TrafficInv'
  BY TrafficInvKept
<1> QED BY <1>1, <1>2, PTL DEF TrafficSpec

\* The log keeps its types, and its buffer never holds more than bufferLimit rows.
THEOREM TrafficTyped == TrafficSpec => []TrafficTypeOK
<1>1. TrafficInv => TrafficTypeOK
  BY DEF TrafficInv
<1> QED BY <1>1, TrafficInvHolds, PTL

\* Every request that was served has its row in one place and once, however flushes,
\* prunes and a stop interleave.
THEOREM RowsAccountedFor == TrafficSpec => []TrafficKept
<1>1. TrafficInv => TrafficKept
  <2>1. ASSUME TrafficInv
        PROVE  TrafficKept
    <3>1. served \in Nat
      BY <2>1, TrafficAssumption DEF TrafficInv, TrafficTypeOK
    <3> QED BY <2>1, <3>1, KeptFromPlaces DEF TrafficInv
  <2> QED BY <2>1
<1> QED BY <1>1, TrafficInvHolds, PTL

\* No two days share a key, so ids of different days can not be linked.
THEOREM DaysUnlinkable == TrafficSpec => []SaltUnlinkable
<1>1. TrafficInv => SaltUnlinkable
  BY DEF TrafficInv
<1> QED BY <1>1, TrafficInvHolds, PTL

-----------------------------------------------------------------------------
(***************************************************************************)
(* ViewCount: every open is counted at most once and lost only by a failed *)
(* write or a stop, and an answer misses none that it should have.         *)
(*                                                                         *)
(* The accounting alone does not carry the answer through: a request that  *)
(* has flushed must know that what it found in the buffer is counted or    *)
(* held by then (AskedInv), and that no batch outlives its flush           *)
(* (IdleInv). What the flushers hold together is a sum over a set of any   *)
(* size: it is taken as the number of pairs of a flusher and a place in    *)
(* its batch, so that the change of one batch changes it by as much        *)
(* (SumChanges).                                                           *)
(***************************************************************************)

OpensSeen == views + Held + lostViews

\* A reader whose flush has taken the buffer has nothing more to wait for than
\* what flushes hold.
AskedInv ==
  \A f \in Flushers : flusher[f].at \in {"write", "read"} => flusher[f].asOf <= OpensSeen

\* Only a flush under way holds opens.
IdleInv == \A f \in Flushers : flusher[f].at # "write" => flusher[f].batch = 0

ViewInv == ViewTypeOK /\ opened = OpensSeen + pending /\ AskedInv /\ IdleInv

-----------------------------------------------------------------------------
(* Sums of batches, as numbers of pairs. *)
BatchesTyped(fl) == \A f \in Flushers : fl[f].batch \in 0..MaxOpened
PairsOf(fl) == {b \in Flushers \X (1..MaxOpened) : b[2] <= fl[b[1]].batch}
OthersOf(fl, f) == {b \in PairsOf(fl) : b[1] # f}

LEMMA PairsFinite ==
  ASSUME NEW fl
  PROVE  IsFiniteSet(PairsOf(fl)) /\ Cardinality(PairsOf(fl)) \in Nat
<1>1. IsFiniteSet(Flushers)
  BY ViewAssumption, FS_AddElement DEF Flushers
<1>2. IsFiniteSet(1..MaxOpened)
  BY ViewAssumption, FS_Interval, 1 \in Int, MaxOpened \in Int
<1>3. IsFiniteSet(Flushers \X (1..MaxOpened))
  BY <1>1, <1>2, FS_Product
<1>4. PairsOf(fl) \subseteq Flushers \X (1..MaxOpened)
  BY DEF PairsOf
<1>5. IsFiniteSet(PairsOf(fl))
  BY <1>3, <1>4, FS_Subset
<1> QED BY <1>5, FS_CardinalityType

\* The sum is the batch of one, and what the others hold.
LEMMA SumSplits ==
  ASSUME NEW fl, BatchesTyped(fl), NEW f \in Flushers
  PROVE  /\ Cardinality(OthersOf(fl, f)) \in Nat
         /\ Cardinality(PairsOf(fl)) = Cardinality(OthersOf(fl, f)) + fl[f].batch
<1> DEFINE n == fl[f].batch
           O == OthersOf(fl, f)
           M == {f} \X (1..n)
<1>1. n \in 0..MaxOpened /\ n \in Int /\ 1 \in Int
  BY ViewAssumption DEF BatchesTyped
<1>2. IsFiniteSet(O) /\ Cardinality(O) \in Nat
  <2>1. O \subseteq PairsOf(fl)
    BY DEF OthersOf
  <2>2. IsFiniteSet(O)
    BY <2>1, PairsFinite, FS_Subset
  <2> QED BY <2>2, FS_CardinalityType
<1>3. PairsOf(fl) = O \union M /\ O \intersect M = {}
  <2>1. \A b \in M : b[1] = f /\ b[2] \in 1..n /\ b = <<b[1], b[2]>>
    OBVIOUS
  <2>2. M \subseteq PairsOf(fl)
    BY <1>1, <2>1, ViewAssumption DEF PairsOf
  <2>3. \A b \in PairsOf(fl) : b[1] = f => b \in M
    BY <1>1, ViewAssumption DEF PairsOf
  <2> HIDE DEF M
  <2> QED BY <2>1, <2>2, <2>3 DEF OthersOf
<1>4. IsFiniteSet(M) /\ Cardinality(M) = n
  <2> HIDE DEF n
  <2>1. IsFiniteSet(1..n) /\ Cardinality(1..n) = IF 1 > n THEN 0 ELSE n - 1 + 1
    BY <1>1, FS_Interval, Zenon
  <2>2. IsFiniteSet({f}) /\ Cardinality({f}) = 1
    BY FS_Singleton
  <2>3. IsFiniteSet(M) /\ Cardinality(M) = Cardinality({f}) * Cardinality(1..n)
    BY <2>1, <2>2, FS_Product
  <2>4. Cardinality(1..n) = n
    BY <1>1, <2>1
  <2> QED BY <1>1, <2>2, <2>3, <2>4
<1> HIDE DEF M, O
<1>5. Cardinality(PairsOf(fl)) = Cardinality(O) + Cardinality(M) - Cardinality(O \intersect M)
  BY <1>2, <1>3, <1>4, FS_Union
<1>6. Cardinality(O \intersect M) = 0
  BY <1>3, FS_EmptySet
<1> QED BY <1>1, <1>2, <1>4, <1>5, <1>6 DEF O

\* The batch of one flusher changes the sum by as much as it changes.
LEMMA SumChanges ==
  ASSUME NEW fl, BatchesTyped(fl), NEW gl, BatchesTyped(gl), NEW f \in Flushers,
         \A g \in Flushers \ {f} : gl[g].batch = fl[g].batch
  PROVE  /\ Cardinality(PairsOf(fl)) \in Nat /\ Cardinality(PairsOf(gl)) \in Nat
         /\ Cardinality(PairsOf(gl)) = Cardinality(PairsOf(fl)) + gl[f].batch - fl[f].batch
         /\ fl[f].batch <= Cardinality(PairsOf(fl))
<1>1. OthersOf(fl, f) = OthersOf(gl, f)
  BY DEF OthersOf, PairsOf
<1>2. fl[f].batch \in Nat /\ gl[f].batch \in Nat
  BY DEF BatchesTyped
<1>3. /\ Cardinality(OthersOf(fl, f)) \in Nat
      /\ Cardinality(PairsOf(fl)) = Cardinality(OthersOf(fl, f)) + fl[f].batch
      /\ Cardinality(PairsOf(gl)) = Cardinality(OthersOf(gl, f)) + gl[f].batch
  BY SumSplits
<1> QED BY <1>1, <1>2, <1>3

LEMMA SumOfNone ==
  ASSUME NEW fl, \A f \in Flushers : fl[f].batch = 0
  PROVE  Cardinality(PairsOf(fl)) = 0
<1>1. PairsOf(fl) = {}
  BY ViewAssumption DEF PairsOf
<1> QED BY <1>1, FS_EmptySet

-----------------------------------------------------------------------------
FlushStage(n) == [at : {"rest", "asked", "write", "read"}, batch : 0..MaxOpened, asOf : 0..n]

LEMMA RestIsStage ==
  ASSUME NEW n \in Nat
  PROVE  /\ Rest \in FlushStage(n) /\ Rest.at = "rest" /\ Rest.batch = 0
         /\ [Rest EXCEPT !.at = "asked", !.asOf = n] \in FlushStage(n)
         /\ [Rest EXCEPT !.at = "asked", !.asOf = n].at = "asked"
         /\ [Rest EXCEPT !.at = "asked", !.asOf = n].batch = 0
<1>1. 0 \in 0..MaxOpened /\ 0 \in 0..n /\ n \in 0..n
  BY ViewAssumption
<1> QED BY <1>1 DEF Rest, FlushStage

LEMMA ViewTypes ==
  ASSUME ViewTypeOK
  PROVE  /\ opened \in Nat /\ pending \in Nat /\ views \in Nat /\ lostViews \in Nat
         /\ opened <= MaxOpened /\ MaxOpened \in Nat /\ viewFaults \in Nat
         /\ flusher \in [Flushers -> FlushStage(opened)] /\ BatchesTyped(flusher)
         /\ Held = Cardinality(PairsOf(flusher)) /\ Held \in Nat
<1>1. flusher \in [Flushers -> FlushStage(opened)]
  BY DEF ViewTypeOK, FlushStage
<1>2. BatchesTyped(flusher)
  BY <1>1 DEF FlushStage, BatchesTyped
<1>3. Held = Cardinality(PairsOf(flusher))
  BY DEF Held, PairsOf
<1> QED BY <1>1, <1>2, <1>3, PairsFinite, ViewAssumption DEF ViewTypeOK

LEMMA PartsOfWhole ==
  ASSUME NEW a \in Nat, NEW b \in Nat, NEW c \in Nat, NEW d \in Nat, NEW n \in Nat,
         (a + b + c) + d <= n
  PROVE  a \in 0..n /\ c \in 0..n /\ d \in 0..n
OBVIOUS

\* A step that leaves the account even keeps the types of what it counts.
LEMMA KeepsEven ==
  ASSUME ViewInv, opened' \in 0..MaxOpened, opened <= opened',
         pending' \in Nat, views' \in Nat, lostViews' \in Nat,
         opened' = OpensSeen' + pending', Held' \in Nat,
         flusher' \in [Flushers -> FlushStage(opened')],
         viewFaults' \in 0..MaxViewFaults, ending' \in Endings, AskedInv', IdleInv'
  PROVE  ViewInv'
<1>1. pending' \in 0..MaxOpened /\ views' \in 0..MaxOpened /\ lostViews' \in 0..MaxOpened
  <2>1. opened' \in Int /\ opened' <= MaxOpened /\ MaxOpened \in Nat
    BY ViewAssumption
  <2>2. opened' = (views' + Held' + lostViews') + pending'
    BY DEF OpensSeen
  <2>3. (views' + Held' + lostViews') + pending' <= MaxOpened
    BY <2>1, <2>2
  <2> QED BY <2>1, <2>3, PartsOfWhole
<1> QED BY <1>1 DEF ViewInv, ViewTypeOK, FlushStage

LEMMA InitViewInv == ViewInit => ViewInv
<1> SUFFICES ASSUME ViewInit PROVE ViewInv
  OBVIOUS
<1>1. \A f \in Flushers : flusher[f] = Rest
  BY DEF ViewInit
<1>2. Held = 0
  <2>1. \A f \in Flushers : flusher[f].batch = 0
    BY <1>1 DEF Rest
  <2> QED BY <2>1, SumOfNone DEF Held, PairsOf
<1>3. Rest \in FlushStage(0) /\ Rest.at = "rest"
  BY ViewAssumption DEF Rest, FlushStage
<1>4. ViewTypeOK
  <2>1. flusher \in [Flushers -> FlushStage(opened)]
    BY <1>3 DEF ViewInit
  <2>2. /\ opened = 0 /\ pending = 0 /\ views = 0 /\ lostViews = 0 /\ viewFaults = 0
        /\ ending = "running"
    BY DEF ViewInit
  <2>3. 0 \in 0..MaxOpened /\ 0 \in 0..MaxViewFaults
    BY ViewAssumption
  <2> QED BY <2>1, <2>2, <2>3 DEF ViewTypeOK, FlushStage, Endings
<1>5. AskedInv
  <2>1. \A f \in Flushers : flusher[f].at = "rest"
    BY <1>1, <1>3
  <2> QED BY <2>1 DEF AskedInv
<1>6. opened = OpensSeen + pending
  BY <1>2 DEF ViewInit, OpensSeen
<1>7. IdleInv
  BY <1>1 DEF IdleInv, Rest
<1> QED BY <1>4, <1>5, <1>6, <1>7 DEF ViewInv

\* Record, and a signal: the flushers go on.
LEMMA ViewAsideStep ==
  ASSUME ViewInv, RecordView \/ StopViews
  PROVE  ViewInv'
<1>1. /\ opened' \in 0..MaxOpened /\ opened <= opened' /\ pending' = pending + (opened' - opened)
      /\ UNCHANGED <<flusher, views, lostViews>>
      /\ viewFaults' \in 0..MaxViewFaults /\ ending' \in Endings
  <2>1. /\ opened \in 0..MaxOpened /\ pending \in 0..MaxOpened /\ MaxOpened \in Nat
        /\ viewFaults \in 0..MaxViewFaults /\ ending \in Endings /\ MaxViewFaults \in Nat
    BY ViewAssumption DEF ViewInv, ViewTypeOK
  <2>2. CASE RecordView
    BY <2>1, <2>2 DEF RecordView
  <2>3. CASE StopViews
    BY <2>1, <2>3 DEF StopViews, Endings
  <2> QED BY <2>2, <2>3
<1>2. Held' = Held
  BY <1>1 DEF Held
<1>3. OpensSeen' = OpensSeen
  BY <1>1, <1>2 DEF OpensSeen
<1>4. flusher' \in [Flushers -> FlushStage(opened')]
  <2>1. FlushStage(opened) \subseteq FlushStage(opened')
    BY <1>1, ViewTypes DEF ViewInv, FlushStage
  <2> QED BY <1>1, <2>1, ViewTypes DEF ViewInv
<1>5. AskedInv'
  BY <1>1, <1>3 DEF ViewInv, AskedInv
<1>6. /\ pending' \in Nat /\ views' \in Nat /\ lostViews' \in Nat /\ Held' \in Nat
      /\ opened' = OpensSeen' + pending'
  BY <1>1, <1>2, <1>3, ViewTypes DEF ViewInv, OpensSeen
<1>7. IdleInv'
  BY <1>1 DEF ViewInv, IdleInv
<1> QED BY <1>1, <1>4, <1>5, <1>6, <1>7, KeepsEven

LEMMA SumsBalance ==
  ASSUME NEW v \in Nat, NEW h \in Nat, NEW l \in Nat, NEW p \in Nat, NEW b \in Nat,
         NEW v1 \in Nat, NEW h1 \in Nat, NEW l1 \in Nat, NEW p1 \in Nat, NEW b1 \in Nat,
         v1 + l1 + p1 + b1 = v + l + p + b, h1 = h + b1 - b, p1 <= p
  PROVE  /\ (v1 + h1 + l1) + p1 = (v + h + l) + p
         /\ v1 + h1 + l1 >= v + h + l
OBVIOUS

\* One flusher goes on: the account changes by what its batch changes by.
LEMMA OneGoesOn ==
  ASSUME ViewInv, NEW f \in Flushers, NEW stage \in FlushStage(opened),
         flusher' = [flusher EXCEPT ![f] = stage], opened' = opened,
         pending' \in Nat, views' \in Nat, lostViews' \in Nat,
         views' + lostViews' + pending' + stage.batch =
           views + lostViews + pending + flusher[f].batch,
         pending' <= pending, stage.at # "write" => stage.batch = 0,
         stage.at \in {"write", "read"} =>
           \/ pending' = 0
           \/ flusher[f].at \in {"write", "read"} /\ stage.asOf = flusher[f].asOf,
         viewFaults' \in 0..MaxViewFaults, ending' \in Endings
  PROVE  ViewInv'
<1>1. flusher' \in [Flushers -> FlushStage(opened')]
  BY ViewTypes DEF ViewInv
<1>2. /\ BatchesTyped(flusher') /\ BatchesTyped(flusher) /\ flusher'[f] = stage
      /\ \A g \in Flushers \ {f} : flusher'[g] = flusher[g]
  BY <1>1, ViewTypes DEF ViewInv, BatchesTyped, FlushStage
<1>3. Held = Cardinality(PairsOf(flusher)) /\ Held' = Cardinality(PairsOf(flusher'))
  BY DEF Held, PairsOf
<1>4. Held \in Nat /\ Held' \in Nat /\ Held' = Held + stage.batch - flusher[f].batch
  <2> DEFINE fl == flusher
             gl == flusher'
  <2>1. \A g \in Flushers \ {f} : gl[g].batch = fl[g].batch
    BY <1>2
  <2>2. BatchesTyped(fl) /\ BatchesTyped(gl)
    BY <1>2
  <2> HIDE DEF fl, gl
  <2>3. /\ Cardinality(PairsOf(fl)) \in Nat /\ Cardinality(PairsOf(gl)) \in Nat
        /\ Cardinality(PairsOf(gl)) = Cardinality(PairsOf(fl)) + gl[f].batch - fl[f].batch
    BY <2>1, <2>2, SumChanges
  <2> QED BY <1>2, <1>3, <2>3 DEF fl, gl
<1>5. /\ opened' = OpensSeen' + pending' /\ OpensSeen' >= OpensSeen /\ OpensSeen' \in Nat
      /\ opened \in Nat /\ (pending' = 0 => OpensSeen' = opened)
  <2>1. stage.batch \in Nat /\ flusher[f].batch \in Nat
    BY <1>2, ViewTypes DEF ViewInv, BatchesTyped, FlushStage
  <2>2. opened \in Nat /\ pending \in Nat /\ views \in Nat /\ lostViews \in Nat
    BY ViewTypes DEF ViewInv
  <2>3. OpensSeen = views + Held + lostViews /\ OpensSeen' = views' + Held' + lostViews'
    BY DEF OpensSeen
  <2>4. /\ (views' + Held' + lostViews') + pending' = (views + Held + lostViews) + pending
        /\ views' + Held' + lostViews' >= views + Held + lostViews
    BY <1>4, <2>1, <2>2, SumsBalance
  <2>5. opened = (views + Held + lostViews) + pending
    BY <2>3 DEF ViewInv
  <2> QED BY <1>4, <2>2, <2>3, <2>4, <2>5
<1>6. AskedInv'
  <2>1. SUFFICES ASSUME NEW g \in Flushers, flusher'[g].at \in {"write", "read"}
                 PROVE  flusher'[g].asOf <= OpensSeen'
    BY DEF AskedInv
  <2>2. \A h \in Flushers : flusher[h].at \in {"write", "read"} => flusher[h].asOf <= OpensSeen
    BY DEF ViewInv, AskedInv
  <2>3. \A h \in Flushers : flusher[h].asOf \in Nat /\ flusher'[h].asOf \in 0..opened
    BY <1>1, ViewTypes DEF ViewInv, FlushStage
  <2>4. CASE pending' = 0
    <3>1. OpensSeen' = opened /\ opened \in Nat
      BY <1>5, <2>4
    <3>2. flusher'[g].asOf \in 0..opened
      BY <2>3
    <3> QED BY <3>1, <3>2
  <2>5. CASE flusher[g].at \in {"write", "read"} /\ flusher'[g].asOf = flusher[g].asOf
    BY <1>5, <2>2, <2>3, <2>5, ViewTypes DEF ViewInv, OpensSeen
  <2>6. CASE g = f
    <3>1. stage.at \in {"write", "read"}
      BY <1>2, <2>1, <2>6
    <3> QED BY <1>2, <2>4, <2>5, <2>6, <3>1
  <2>7. CASE g # f
    <3>1. flusher'[g] = flusher[g]
      BY <1>2, <2>7
    <3> QED BY <2>1, <2>5, <3>1
  <2> QED BY <2>6, <2>7
<1>7. opened' \in 0..MaxOpened /\ opened <= opened'
  BY ViewTypes DEF ViewInv
<1>8. IdleInv'
  BY <1>2 DEF ViewInv, IdleInv
<1> QED BY <1>1, <1>4, <1>5, <1>6, <1>7, <1>8, KeepsEven

\* A request begins, or the table has been read: no batch is touched.
LEMMA ViewRequestStep ==
  ASSUME ViewInv, NEW r \in ViewReaders, AskViews(r) \/ ReadViews(r)
  PROVE  ViewInv'
<1> DEFINE stage == IF AskViews(r) THEN [Rest EXCEPT !.at = "asked", !.asOf = opened] ELSE Rest
<1>1. /\ flusher' = [flusher EXCEPT ![r] = stage]
      /\ UNCHANGED <<opened, pending, views, viewFaults, ending, lostViews>>
  BY DEF AskViews, ReadViews
<1>2. r \in Flushers
  BY DEF Flushers
<1>3. stage \in FlushStage(opened) /\ stage.batch = 0 /\ stage.at \in {"rest", "asked"}
  <2>1. opened \in Nat
    BY ViewTypes DEF ViewInv
  <2> QED BY <2>1, RestIsStage
<1> HIDE DEF stage
<1>4. flusher[r].batch = 0
  BY <1>2 DEF ViewInv, IdleInv, AskViews, ReadViews
<1>5. viewFaults \in 0..MaxViewFaults /\ ending \in Endings
  BY DEF ViewInv, ViewTypeOK
<1>6. /\ opened' = opened /\ pending' \in Nat /\ views' \in Nat /\ lostViews' \in Nat
      /\ pending' <= pending
      /\ views' + lostViews' + pending' + stage.batch =
           views + lostViews + pending + flusher[r].batch
  BY <1>1, <1>3, <1>4, ViewTypes DEF ViewInv
<1> QED BY <1>1, <1>2, <1>3, <1>5, <1>6, OneGoesOn

\* Flush takes the whole buffer.
LEMMA ViewTakeStep ==
  ASSUME ViewInv, NEW f \in Flushers, TakeViews(f)
  PROVE  ViewInv'
<1> DEFINE stage == [flusher[f] EXCEPT !.at = "write", !.batch = pending]
<1>1. /\ flusher[f].at # "write" /\ pending' = 0
      /\ flusher' = [flusher EXCEPT ![f].at = "write", ![f].batch = pending]
      /\ UNCHANGED <<opened, views, viewFaults, lostViews>>
  BY DEF TakeViews, Due, LeftBehind
<1>2. flusher' = [flusher EXCEPT ![f] = stage]
  BY <1>1
<1>3. flusher[f] \in FlushStage(opened) /\ pending \in 0..MaxOpened
  BY ViewTypes DEF ViewInv, ViewTypeOK
<1>4. stage \in FlushStage(opened) /\ stage.batch = pending /\ stage.at = "write"
  BY <1>3 DEF FlushStage
<1> HIDE DEF stage
<1>5. flusher[f].batch = 0
  BY <1>1 DEF ViewInv, IdleInv
<1>6. viewFaults' \in 0..MaxViewFaults /\ ending' \in Endings
  <2>1. viewFaults \in 0..MaxViewFaults /\ ending \in Endings
    BY DEF ViewInv, ViewTypeOK
  <2>2. ending' = ending \/ ending' = "flushing"
    BY DEF TakeViews, Due
  <2> QED BY <1>1, <2>1, <2>2 DEF Endings
<1>7. /\ opened' = opened /\ pending' \in Nat /\ views' \in Nat /\ lostViews' \in Nat
      /\ pending' <= pending
      /\ views' + lostViews' + pending' + stage.batch =
           views + lostViews + pending + flusher[f].batch
  BY <1>1, <1>4, <1>5, ViewTypes DEF ViewInv
<1> QED BY <1>1, <1>2, <1>4, <1>6, <1>7, OneGoesOn

\* AddRealmViews writes the batch or loses it.
LEMMA ViewWriteStep ==
  ASSUME ViewInv, NEW f \in Flushers, WriteViews(f)
  PROVE  ViewInv'
<1> DEFINE stage == IF f = "timer" THEN Rest ELSE [flusher[f] EXCEPT !.at = "read", !.batch = 0]
           b == flusher[f].batch
<1>1. /\ flusher[f].at = "write" /\ flusher' = [flusher EXCEPT ![f] = stage]
      /\ UNCHANGED <<opened, pending>>
  BY DEF WriteViews, AfterFlush
<1>2. flusher[f] \in FlushStage(opened) /\ b \in 0..MaxOpened /\ MaxOpened \in Nat
  BY ViewTypes DEF ViewInv, ViewTypeOK, FlushStage
<1>3. /\ stage \in FlushStage(opened) /\ stage.batch = 0 /\ stage.at \in {"rest", "read"}
      /\ stage.at = "read" => stage.asOf = flusher[f].asOf
  <2>1. CASE f = "timer"
    <3>1. opened \in Nat
      BY ViewTypes DEF ViewInv
    <3> QED BY <2>1, <3>1, RestIsStage
  <2>2. CASE f # "timer"
    <3>1. 0 \in 0..MaxOpened
      BY <1>2
    <3>2. stage = [flusher[f] EXCEPT !.at = "read", !.batch = 0]
      BY <2>2
    <3> QED BY <1>2, <3>1, <3>2 DEF FlushStage
  <2> QED BY <2>1, <2>2
<1> HIDE DEF stage
<1>4. /\ views \in Nat /\ lostViews \in Nat /\ pending \in Nat /\ opened \in Nat
      /\ viewFaults \in 0..MaxViewFaults /\ ending \in Endings /\ MaxViewFaults \in Nat
  BY ViewTypes, ViewAssumption DEF ViewInv, ViewTypeOK
<1>5. /\ views' + lostViews' = views + lostViews + b /\ views' \in Nat /\ lostViews' \in Nat
      /\ viewFaults' \in 0..MaxViewFaults
  <2> HIDE DEF b
  <2>1. CASE views' = views + b /\ UNCHANGED <<viewFaults, lostViews>>
    BY <1>2, <1>4, <2>1
  <2>2. CASE /\ viewFaults < MaxViewFaults /\ viewFaults' = viewFaults + 1
             /\ lostViews' = lostViews + b /\ UNCHANGED views
    BY <1>2, <1>4, <2>2
  <2> QED BY <2>1, <2>2 DEF WriteViews, b
<1>6. views' + lostViews' + pending' + stage.batch =
        views + lostViews + pending + flusher[f].batch
  BY <1>1, <1>2, <1>3, <1>4, <1>5
<1>7. opened' = opened /\ pending' \in Nat /\ pending' <= pending /\ ending' \in Endings
  <2>1. ending' = ending \/ ending' = "flushed"
    BY DEF WriteViews
  <2> QED BY <1>1, <1>4, <2>1 DEF Endings
<1> QED BY <1>1, <1>3, <1>5, <1>6, <1>7, OneGoesOn

\* The process ends: what was held is lost, and nobody waits for an answer.
LEMMA ViewExitStep ==
  ASSUME ViewInv, ExitViews
  PROVE  ViewInv'
<1>1. /\ ending' = "running" /\ lostViews' = lostViews + pending + Held /\ pending' = 0
      /\ flusher' = [f \in Flushers |-> Rest] /\ UNCHANGED <<opened, views, viewFaults>>
  BY DEF ExitViews
<1>2. \A f \in Flushers : flusher'[f] = Rest
  BY <1>1
<1>3. Held' = 0
  <2> DEFINE fl == flusher'
  <2>1. \A f \in Flushers : fl[f].batch = 0
    BY <1>2 DEF Rest
  <2>2. Held' = Cardinality(PairsOf(fl))
    BY DEF Held, PairsOf
  <2> HIDE DEF fl
  <2> QED BY <2>1, <2>2, SumOfNone
<1>4. Rest \in FlushStage(opened) /\ Rest.at = "rest" /\ Rest.batch = 0
  <2>1. opened \in Nat
    BY ViewTypes DEF ViewInv
  <2> QED BY <2>1, RestIsStage
<1>5. flusher' \in [Flushers -> FlushStage(opened')]
  BY <1>1, <1>4
<1>6. AskedInv' /\ IdleInv'
  BY <1>2, <1>4 DEF AskedInv, IdleInv
<1>7. /\ opened' \in 0..MaxOpened /\ opened <= opened' /\ viewFaults' \in 0..MaxViewFaults
      /\ ending' \in Endings
  <2>1. opened \in 0..MaxOpened /\ opened \in Int /\ viewFaults \in 0..MaxViewFaults
    BY ViewTypes DEF ViewInv, ViewTypeOK
  <2>2. opened' = opened /\ viewFaults' = viewFaults /\ ending' \in Endings
    BY <1>1 DEF Endings
  <2> QED BY <2>1, <2>2
<1>8. /\ pending' \in Nat /\ views' \in Nat /\ lostViews' \in Nat /\ Held' \in Nat
      /\ opened' = OpensSeen' + pending'
  BY <1>1, <1>3, ViewTypes DEF ViewInv, OpensSeen
<1> QED BY <1>5, <1>6, <1>7, <1>8, KeepsEven

LEMMA NextViewInv == ViewInv /\ [ViewNext]_viewVars => ViewInv'
<1> SUFFICES ASSUME ViewInv, [ViewNext]_viewVars PROVE ViewInv'
  OBVIOUS
<1>1. CASE RecordView \/ StopViews
  BY <1>1, ViewAsideStep
<1>2. CASE ExitViews
  BY <1>2, ViewExitStep
<1>3. CASE \E r \in ViewReaders : AskViews(r) \/ ReadViews(r)
  BY <1>3, ViewRequestStep
<1>4. CASE \E f \in Flushers : TakeViews(f) \/ WriteViews(f)
  BY <1>4, ViewTakeStep, ViewWriteStep
<1>5. CASE UNCHANGED viewVars
  BY <1>5 DEF viewVars, ViewInv, ViewTypeOK, OpensSeen, Held, AskedInv, IdleInv
<1> QED BY <1>1, <1>2, <1>3, <1>4, <1>5 DEF ViewNext

\* The invariant holds in every behaviour of the counter.
THEOREM ViewInvHolds == ViewSpec => []ViewInv
BY InitViewInv, NextViewInv, PTL DEF ViewSpec

\* Whatever flushes overlap, and wherever the process stops, the opens recorded are
\* those of the table, of the buffer, of the batches under way and the lost ones,
\* and an answer misses none that was recorded before it was asked for (Flush,
\* HandleViews).
THEOREM OpensAccountedFor == ViewSpec => []ViewsAccounted
<1>1. ViewInv => ViewsAccounted
  <2> SUFFICES ASSUME ViewInv PROVE ViewsAccounted
    OBVIOUS
  <2>1. opened = views + pending + Held + lostViews
    BY ViewTypes DEF ViewInv, OpensSeen
  <2>2. \A r \in ViewReaders :
          flusher[r].at = "read" => flusher[r].asOf <= views + Held + lostViews
    BY DEF ViewInv, AskedInv, OpensSeen, Flushers
  <2> QED BY <2>1, <2>2 DEF ViewsAccounted
<1> QED BY <1>1, ViewInvHolds, PTL

-----------------------------------------------------------------------------
(***************************************************************************)
(* Serving: what holds of each part holds of them together. A step of one  *)
(* is a stutter of the other six.                                          *)
(***************************************************************************)
LEMMA OnePartMoves ==
  ASSUME [ServingNext]_servingVars
  PROVE  /\ [PoolNext]_poolVars /\ [CacheNext]_cacheVars /\ [MemoNext]_memoVars
         /\ [FeedNext]_feedVars /\ [LimiterNext]_limiterVars /\ [ViewNext]_viewVars
         /\ [TrafficNext]_trafficVars
<1>1. CASE ServingNext
  BY <1>1 DEF ServingNext, OnlyPool, OnlyCache, OnlyMemo, OnlyFeed, OnlyLimiter, OnlyViews,
              OnlyTraffic
<1>2. CASE UNCHANGED servingVars
  BY <1>2 DEF servingVars
<1> QED BY <1>1, <1>2

\* A behaviour of the parts together is, of each part, a behaviour of that part.
THEOREM EachPartIsItsOwn ==
  ServingSpec => /\ PoolSafety /\ CacheSpec /\ MemoSpec /\ FeedSpec /\ LimiterSpec
                 /\ ViewSpec /\ TrafficSpec
<1>1. ServingInit => /\ PoolInit /\ CacheInit /\ MemoInit /\ FeedInit /\ LimiterInit
                     /\ ViewInit /\ TrafficInit
  BY DEF ServingInit
<1>2. [ServingNext]_servingVars =>
        /\ [PoolNext]_poolVars /\ [CacheNext]_cacheVars /\ [MemoNext]_memoVars
        /\ [FeedNext]_feedVars /\ [LimiterNext]_limiterVars /\ [ViewNext]_viewVars
        /\ [TrafficNext]_trafficVars
  BY OnePartMoves
<1> QED BY <1>1, <1>2, PTL DEF ServingSpec, PoolSafety, CacheSpec, MemoSpec, FeedSpec,
                                LimiterSpec, ViewSpec, TrafficSpec

\* The types of the seven parts hold of a server, for any callers, sizes, windows
\* and number of faults.
THEOREM ServingTyped == ServingSpec => []ServingTypeOK
<1>1. FeedInv /\ ViewInv => FeedTypeOK /\ ViewTypeOK
  BY DEF FeedInv, ViewInv
<1>2. PoolTypeOK /\ CacheTypeOK /\ MemoTypeOK /\ FeedTypeOK /\ LimiterTypeOK /\ ViewTypeOK
        /\ TrafficTypeOK => ServingTypeOK
  BY DEF ServingTypeOK
<1> QED BY <1>1, <1>2, EachPartIsItsOwn, PoolTypes, CacheTypes, MemoTypes, FeedInvHolds,
           LimiterTypes, ViewInvHolds, TrafficTyped, PTL
=============================================================================
