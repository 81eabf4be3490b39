# A TLA+ verification of mygnoscan

mygnoscan is an explorer for gno.land networks. One Go process reads the chains
through their tx-indexers, keeps what it read in SQLite and serves it over
HTTP. This directory specifies the parts of it whose correctness depends on
order: what is read before what is written, who else moves in between, and what
a failure or a restart leaves behind.

## The system

| part | state it keeps | operations | talks to |
|---|---|---|---|
| Sync loop (`main.go`, `pkg/syncer`, `SyncAll`) | none of its own between passes | one pass on start, then one every 30 s, per network | indexer client, store, health registry |
| Block sync (`syncBlocks`) | `blocks`, the done flag and the depth in `sync_state` | seed, head page, resume, cap test, backfill pages, floor probe, `markBackfillDone` | indexer client, store |
| Chain reset (`checkChainReset`, `DeleteNetworkData`) | `chain_fingerprint` in `sync_state` | read block 1, compare, wipe, record | indexer client, store; every cursor derived from rows |
| Walks (`syncPackages`, `syncCalls`, `syncMsgRuns`, `walkTransactions`) | `packages`, `package_submissions`, `calls`, `bank_sends`, `msg_runs`, `transactions` | page, block times, row inserts | indexer client, analyzer, store |
| Edge rollups (`syncTransferEdges`, `syncCallerEdges`) | `transfer_edges`, `caller_edges` | fold rows above the newest edge | store only |
| Block times (`backfillBlockTimes`) | `block_time` of stored rows | repair a batch of undated heights | indexer client, store |
| Token ledger (`backfillTokenTransfers`, `recordTokenTransfers`) | `token_transfers`, its cursor | a batch of history per pass; forward fill by `syncCalls` | indexer client, store |
| Session sweep (`sessions.go`) | grants, spends, memos; a pinned boundary and a cursor | pin, query a range, halve it, record, store the cursor; live half on `syncCalls` | indexer client, store |
| Coin backfill (`backfillCoinTransfers`) | `coin_transfers`, cursor, done marker | windows upward to the tip one replica reports | indexer client, store |
| User registry (`syncUsers`) | `users` | replay every event of `r/sys/users` over what is stored | indexer client, store |
| Repairs (`backfillTransactions`, `backfillValopers`, `backfillMessageArgs`) | columns an older build left empty; one cursor | a bounded batch per pass each, newest first | indexer client, store |
| Indexer client (`pkg/indexer`, `Client`) | active endpoint, last probe, fingerprint, breaker, type support | query, probe, fail over, record result | one client per network for the sync loop (parallel block fetches within a pass), another for the pages (all requests, concurrently) |
| Store (`pkg/store`) | the SQLite file; a write mutex | upserts in one transaction each; migrations; reporting queries | everybody |
| Rollups and discovery (`pkg/store`, `pkg/discover`) | derived tables | periodic rebuilds | store |
| Response cache and memo (`cache.go`, `warmer.go`, `memo.go`) | entries, claims, waiters | single flight, stale-while-revalidate, eviction, retry hold-off | handlers, store, upstream nodes |
| Live feed (`ws.go`) | subscribers, ring of recent events, last block | poll, announce, subscribe with replay, stop when idle | indexer client, browsers |
| Rate limiter (`ratelimit.go`) | a bucket per address | acquire, release, sweep | MCP handler |
| Counters (`views.go`, `pkg/traffic`) | a buffer each, their tables, the daily salt | record, flush, prune, stop | every request, store |
| HTTP handlers | none | query and render | store, indexer client |
| MCP, analyzer, prices, GitHub activity, registry, state reader, badges, web | caches of fetched or parsed data | fetch, parse, render | outside services, store |

How they interact: passes of one network run one after the other in one
goroutine, so a pass never overlaps the next; but the chain, the replicas of
the indexer and the operator (restarts with other flags, resets of a testnet)
act in between. A network has two indexer clients, each with its own pool state:
`NewSyncClient`'s is shared by the goroutines of one pass, up to ten where
blocks are fetched in parallel, and `NewClient`'s by all page requests. There are no stored
sync cursors for the forward walks: each is read back from the rows. That is
what makes the state small, and what makes a hole, a row of a dead chain or a
missing time permanent: nothing looks below a cursor again.

What is hard: replicas of one indexer that disagree about the tip; two writes
that belong together (`markBackfillDone`; wipe and record); rows stored one by
one and interrupted; answers cut at the indexer's element cap; a shared
page budget; a chain that restarts under the same name in the middle of a pass;
a lock released over a request; history walked downward while rows are written
upward; waiters that wake without the lock; a process that stops without
waiting for its goroutines. `PROJECT.json` lists each as a hazard at its
line.

What makes each part correct, in a sentence: the blocks table is a range and
says "complete" only when it is; after a reset nothing of the old chain
survives and nothing of a live chain is ever wiped; the walk skips nothing; a
row is folded exactly once; the pool stays on its chain and returns to the
first endpoint that keeps up; a backfill's cursor passes nothing that has not
answered, and the backfill ends; a replay ends in what the last answer said; a
value is computed under one claim, and no answer goes back to an older one; a
browser sees every announced block once and in order; a counted event is counted
at most once.

## Modules

| module | what | role |
|---|---|---|
| `BlockRange` | what block sync promises of its table | abstract specification |
| `BlockSync` | `syncBlocks`, `markBackfillDone`, `shouldResumeBackfill`, `fetchBlockPage` | implements `BlockRange` (`Growing == INSTANCE BlockRange WITH ...`) |
| `ChainReset` | `checkChainReset`, `DeleteNetworkData`, and one walk for each kind of cursor | |
| `TxSync` | `walkTransactions`, `transactionsFromHeight`, `syncCalls`, `backfillBlockTimes`, both edge folds | |
| `Backfill` | what a walk over old history promises of its cursor | abstract specification |
| `TokenLedger` | `TokenBackfillRange`, `backfillTokenTransfers`, with the passes that move its inputs | uses what `BlockRange` promises of the blocks; implements `Backfill` |
| `SessionSweep` | `backfillSessions`, `fetchSessionRange`, `recordSessions`, the live half | implements `Backfill` |
| `CoinBackfill` | `backfillCoinTransfers`, `CoinTransferWindow`, `recordCoinTransfers` | implements `Backfill` |
| `UserRegistry` | `syncUsers` and the statements of `UpsertUser`, demotion, deletion | |
| `HistoryRepair` | `backfillTransactions`, `backfillValopers`, `backfillMessageArgs` | the third implements `Backfill` |
| `Walks` | one of the eight walks above (block sync, the reset check, and the six of `TxSync` to `HistoryRepair`) per behaviour | composition |
| `EndpointPool` | `query`, `selectEndpoint`, `failOver`, `recordResult` | |
| `ResponseCache` | `lookup`, `done`, `put`, `store`, `refresh` and the middleware | |
| `Memo` | `memo.get` | |
| `LiveFeed` | the poll loop, `subscribe`, `stopIfIdle`, the ring | |
| `RateLimit` | a token bucket that refills every second and is never thrown away | abstract specification |
| `IPLimiter` | `Acquire`, its release, the sweep | implements `RateLimit` (`Promise == INSTANCE RateLimit WITH ...`) |
| `ViewCount` | `Record`, `Flush`, `Run`, `HandleViews`, the exit | |
| `TrafficLog` | `WithAccessLog`, `Record`, `Flush`, `Prune`, `Run`, `Close`, the salt | |
| `Serving` | one of the seven parts above per behaviour | composition |
| `MC*` | constants for TLC | |
| `Heights` | the larger and the smaller of two heights | operators `BlockSync` and `TokenLedger` share |
| `TxOrder` | the order in which the indexer returns transactions, a cut at the element cap, `dropTrailingHeight` | operators `TxSync`, `SessionSweep` and `CoinBackfill` share |
| `BlockSync_proofs`, `ChainReset_proofs`, `TxSync_proofs`, `SessionSweep_proofs`, `EndpointPool_proofs` | theorems about the module they are named for | TLAPS |
| `Backfills_proofs` | theorems about `TokenLedger`, `HistoryRepair`, `CoinBackfill`, `UserRegistry`, and about `Walks` | TLAPS |
| `Serving_proofs` | theorems about `Memo`, `ResponseCache`, `IPLimiter`, `LiveFeed`, `TrafficLog`, `ViewCount`, and about `Serving` | TLAPS |
| `OrderLemmas` | least and greatest of a set of numbers; the operators of `TxOrder` | lemmas the proofs share |

Conventions shared by the modules. A variable is *durable* when it is a row or
a `sync_state` key and survives the restart; the others are the locals of one
pass or of the process. `blockStep`, `txStep`, `ledgerStep`, `sweepStep` and so on
is the call of the pass that comes next:
every query, every write of SQLite and every `sync_state` key is a step of its
own, because the process may stop and the world may move between any two. A
write that the code does in one SQL transaction is one step. In the parts that
serve requests a step is what happens between taking a mutex and giving it
back. *History* variables record what was given up and why, so that a property
can say that nothing else was. Operators such as `CursorToEnd`, `LowerFirst` or
`DoneOnSuccess` that no specification uses are plausible bugs: each takes the
place of the definition it follows and breaks one property (`PROJECT.json`,
`mutants`), which shows that the property can fail.

**The indexer** is an address that may front several replicas. The slowest
replica is at `blockSlow` (`chainSlow`, `ledgerSlow`, ...), the chain at
`blockTip`, and every answer comes from a replica anywhere between, chosen
afresh for each query. `BlockLag` (`ChainLag`, `TxLag`, ...) bounds the distance.

**BlockSync.** `blockRows`, `done`, `depth` are the table and the two
`sync_state` keys. `StartPass` reads tip and bounds; `Seed`, `HeadSync`,
`CheckDone`, `CheckCap`, `BackfillPage`, `BackfillEnds`, `Probe`, `MarkFlag`,
`MarkDepth` follow the function from top to bottom. `tipSeen` and `minH` stay as
read while the chain moves on. A call that fails ends the pass
(`BlockCallFails`), except where the code drops the error: a done flag that
cannot be read counts as unset (`FlagUnread`), and where the oldest block time
cannot be read the cap is not tested (`CapUnread`, `PageCapUnread`). Height is also time (one block a "day"), which
keeps the cutoff of `-block-history-days` a height.

**ChainReset.** A chain is a number and a row is `<<chain, height>>`, so a row
of the old chain looks to a cursor exactly as one of the new chain does.
`Tables` holds one table for each way a cursor is derived. `Fingerprint`,
`Compare`, `Wipe` and `Record` are the steps of `checkChainReset`. `orphans`
records chains whose rows were stored before any fingerprint was on record,
the one case the check cannot tell apart.

**TxSync.** Transactions are `<<height, index>>`; `page` is what the current
answer still holds and `more` says that it was cut. `StoreRow` takes one
transaction at a time. `txLost` and `late` are history variables that name
exactly what the code gives up by design: rows whose insert failed or whose
block was interrupted, and rows that had no time when a later one was folded.

**Backfill.** History is a set of items. A step records some, excuses some (no
answer has shown them, or their write failed) and passes some, and none of the
three is ever taken back. What is passed must be recorded or excused, because
nothing looks behind a cursor again. Directions, batches, windows and markers
are not in it. The four walks over old history map to it with an
`INSTANCE Backfill WITH ...` each: what the cursor has passed is what lies from
the walk's start up to it (`PassedTransfers`), from it up to the pinned boundary
(`PassedGrants`), up to it or, once the walk is done, up to the highest row
(`PassedCoins`), and what lies above it (`ArgsPromise`).

**TokenLedger.** The ledger is the set of heights whose transfers are stored.
`low` and `high` move as `BlockRange` allows, `calls` as `syncCalls` does.
`NextBatch` reads the range, `Walk` fetches and records a batch and stops
before the first height that failed (`WalkBreaks`), `SetCursor` stores where it
came to. An insert that fails is logged and skipped, in the walk
(`WalkInsertFails`) as in the live pass (`CallsFallShort`), and the cursors go on:
its height is in `unstored` from then on. A height that was answered by a
replica without it is in `missed`.

**SessionSweep.** A transaction creates a session key, revokes one, revokes all
of a master's, or is a plain signed call. `PinStop` writes the boundary once;
`NextRange`, `QueryRange` (which halves a range that is too large, upper half
first: `Halves`), `RecordFirst`/`RecordNext` (row by row), `StoreMemos` and
`SetSwept` are the sweep; `LiveFetch` and `LiveStore` the half on `syncCalls`.
An answer is typed or raw, as the endpoint's schema makes it.

**CoinBackfill.** `LiveCoinPass` is the half on `syncCalls`; `ReadFinish` asks
one replica for the tip, `WalkWindow` one window, `SaveCursor` and
`ReachFinish` write cursor and done marker, `CannotAnswer` is an endpoint
without transfer events. Inserts fail in the live pass (`LiveInsertFails`) and in
a window (`CoinInsertFails`). `hidden` are heights that somebody asked for and no
answer has shown, `skipped` the heights nobody asked for: those between the
cursor and the rows of the live pass when the done marker is written
(`Between`). `coinLost` are transactions whose insert failed or was never reached.

**UserRegistry.** `AskRegistry` fetches all events, `ReplayEvent` and `Demote`
are the two statements of one event, `ReplayEnds` breaks off anywhere. A
statement that fails is logged and the replay goes on with the next event
(`StatementFails`): `asOf` is -1 from then on, so that `UsersMatch` claims nothing
of such a replay. The events come in block order, and no name is ever given to a
second address (`schema.go`: "r/sys/users never frees a name").

**HistoryRepair.** `gas`, `monikers` and `args` are the rows that have been
completed. Each of `FillGas`, `FillMonikers`, `FillArgs` is a batch that stops
at a call that fails; the third stores a cursor, a write that may fail by itself.

**EndpointPool.** Each query is a process. `known` and `chosen` are the locals
`selectEndpoint` carries across its unlocked probes; `fresh` is
`time.Since(lastProbe) < endpointProbeInterval` and `open` is
`time.Now().Before(skipUntil)`.

**ResponseCache.** An answer is the version of the database its handler saw. A
reader `Lookup`s under the mutex and then serves, waits, or claims the key and
goes through `Compute`, `Store`, `Done`; a stale hit starts `refresh[k]`, which
goes through the same three. The warmer is one of the readers. `mixed` marks
keys that a waiter may be computing without a claim, which the code allows when
the computation it waited for stored nothing.

**Memo.** `Ask` is the top of the loop with its copy of the entry, `Leave` and
`Land` the leader, `WakeUp` a waiter that decides without the mutex.

**LiveFeed.** `PollHeight`, `PollBlocks`, `Announce`, `PollTxs`, `Forward` are the
calls of one step of the loop, `Subscribe`, `Replay`, `EnsureRunning` those of a
connection. `Mint` grows the chain or starts another. `got` is what each
connection was sent.

**IPLimiter.** A tick is a second; an allowance is counted in units of which a
second gains `Rate` and a request costs `Cost`, so that nothing is rounded.
`request[r].owned` says that the bucket a release will write to is still the
one in the map. `RateLimit` has no buckets to lose: it refills all addresses at
every tick, and promises that a refused client who waits as told has a token.

**ViewCount, TrafficLog.** A flusher takes the buffer (`TakeViews`,
`TakeRows`) and writes it later (`WriteViews`, `WriteRows`). `StopViews` and
`ExitViews`, `StopTraffic` and `ExitTraffic` are `main.go`'s `run()`: it waits
for neither loop and for no request. `ending` is how far `Run` has come with its
last flush when that happens, and `Due` says who flushes when. In `TrafficLog` one client makes every
request, so an id is the key it was hashed with.

## Runs

| run | question | bounds | result |
|---|---|---|---|
| `walks` | do the eight walks pass over nothing, repeat nothing, survive a reset, and end | below | passes, 388 k states |
| `serving` | do the seven parts under a request keep their promises | below | passes, 563 k states |
| `block_resume` | does a capped backfill always remember its depth | 7 blocks, pages of 2, 2 per pass, depths -1, 0, 1, 3, lag 1, one fault | violated |
| `block_lag` | is the table a range when replicas lag more than a page | the same, lag 5, no fault | violated |
| `chain_reset_packages` | do the new chain's packages arrive | 2 chains of 2 blocks, no fault | violated |
| `endpoint_pool_chain` | does fail-over keep to the chain | 1 query, 2 endpoints, one foreign | violated |
| `token_ledger_complete` | has the walk read everything when it ends | transfers at 1 and 4, no fault, no lag | violated |
| `coins_no_gap` | do the coin walk and the live pass meet | 6 transactions in 5 blocks, lag 1, no fault | violated |
| `session_standing` | does a grant not marked revoked still stand | 2 keys, batches of 2, no fault, no lag | violated |
| `views_last_flush` | is the buffer empty when the process ends | 2 readers and the timer, 2 opens, 1 fault | violated |
| `memo_wakeup` | does a waiter take over from a leader that failed | 2 callers, one failure | violated |
| `visitor_salt` | do one day's requests get one id | 2 connections, 3 requests, no fault | violated |

**The two compositions.** The parts of `Walks` share no state, and those of
`Serving` neither, so running them side by side would multiply their states
and show nothing more. `Init` picks one (`walk`, `part`), `Next` is the
disjunction of their next-state relations, and in `Walks` a part that is not
taken is pinned to one of its initial states. A behaviour of the composition is one of
each part (`EachWalkIsItsOwn` and `EachPartIsItsOwn` prove it), so each property
says what the part's own specification would give.

Bounds of `walks`, for each part:

| part | bounds |
|---|---|
| blocks | 5 blocks, floor 2, pages of 2, 2 per pass, lag 2, depths -1, 0, 1, 2, 2 faults |
| reset | 3 chains of 2 blocks, lag 2, 1 fault |
| transactions | 8 in genesis and 4 blocks, cap 3, repair batch 2, lag 1, 2 faults |
| tokens | transfers at 2, 3, 4 of 4 heights, batches of 2, lag 1, 1 fault, any starting database |
| sessions | 6 transactions in 3 blocks (grants, a revocation of all, a regrant, a use, a single revocation), batches of 3, 3 rows an answer, both schemas, lag 1, 1 fault |
| coins | 5 transactions in genesis and 3 blocks, windows of 3, one a pass, cap 3, both schemas, lag 1, 1 fault |
| users | 6 events in 4 blocks: two names, three renames (one back), one deletion; lag 1, 2 faults, failed statements among them |
| repairs | rows at 0, 1, 2, 4, batches of 2, lag 1, 1 fault |

Bounds of `serving`, for each part:

| part | bounds |
|---|---|
| pool | 2 queries, 3 endpoints (one unproven, one foreign), tips to 2, 2 faults |
| cache | 2 readers, 2 keys (windows of 1 and 0), grace 1, 2 entries, clock to 2, 2 versions, 1 bad answer |
| memo | 3 callers, windows of 2 and 1, clock to 4, 2 upstream states, 2 failures |
| feed | 1 browser, ring of 2, catch-up of 2, 4 blocks over all chains, lag 1, 1 fault |
| limiter | 2 addresses, 2 requests, one at a time, 7 seconds with a bucket lifetime of 3 |
| views | 2 readers and the timer, 2 opens, 2 faults |
| traffic | 2 connections, 3 requests, buffer of 2, 3 days, horizon of 1, 1 fault |

Why these bounds are enough to be interesting. Pages of 2 under a chain of 5
give a seed page, head pages and two backfill pages, with the budget
of 2 running out between them; floor 2 makes a page that is half
pruned and a page that is empty; depths 1 and 2 are one that is resumed and one
that resumes it. Three chains give a reset between `Wipe` and `Record`. Cap 3
cuts one answer inside a block and one exactly between two; block 2 leaves no
row, which tells the page cursor from the row cursor. Three rows an answer make
the session sweep halve a range once and find one half answered and the other
not. Two coin transactions in one block put the cap of a window inside it. The
user who returns to a name meets a row demoted before. Row 0 in the repairs is
genesis, which no repair can ask for. Three endpoints are the least at which
"the next one" is not "the other one". Three callers of the memo are a leader, a
waiter that takes over and one that finds that it did. A bucket lifetime of 3
in 7 seconds lets a bucket become old while a request still holds it, and go and
come back when none does. Two
faults are a crash during the repair of a crash; where one part has one
fault, every repair is one step, and a second multiplies states without a new
kind of recovery. What the bounds do not reach: no key of the response cache is
asked for while the map is full of other keys, since there are as many entries as
keys (the theorem `ServableIsKept` is for any number of both); and no page of
backfill is empty because of a lagging replica alone, since none lags by more
than a page (that is `block_lag`).

**What the passing runs show.** `Contiguous`, `CompleteHonest` and
`DepthHonest` relate the flag, the depth and the rows over crashes between any
two writes. `NoDeadRows` holds although fingerprint and wipe are two steps,
because the wipe comes first: the mutant that records first breaks it.
`KeepsLiveRows` is the comment on `checkChainReset` that a lagging replica must
not cost a chain. `NoHoles` and `FoldedOnce` are the two halves of exactly once
on the walk and the rollup. `CursorHonest`, `SweepHonest`, `CoinsComplete` and
`ArgsHonest` say the same of four backfills with four different cursors: up a
batch, down by halves, up by cut windows, down a batch. `BackfillsKeepPromise` is
the refinement of `Backfill` by all four, and adds what no invariant can say: no
step takes a cursor back, no row that was counted goes away, nothing a cursor has
passed is taken up again, and none of the excuses is withdrawn. The excuses are
named: a transfer is in `missed`, `unstored`, `hidden`, `skipped` or `coinLost`
because of one thing the code does, and a walk that loses another one breaks the
property. A `RangeFrom` that
begins at the lowest block again, a boundary that is pinned anew, a window that
ends below the cursor and a cursor taken from the wrong rows each break it. `RevokedRightly` and
`RevocationKept` say what is safe about applying history in the wrong order,
`session_standing` what is not. `UsersMatch` is that a replay converges from
any half-finished one. `WalksSettle` is that no walk asks for the same thing
for ever, whatever failed before, and that the registry, which is replayed in
every pass, gets through again and again. `ComesBack` (`PoolComesBack`) says that neither the
breaker nor a stale probe keeps the pool on the wrong endpoint once outages end;
it says "again and again", not "from some point on", because two queries that
keep failing together advance the pool twice, off the right endpoint and back.
`PoolStaysOnChain` is that the identity is fixed, once there is one and no probe
that began without one is out (`PoolSettled`): endpoints come and go while their
answers are on the way, probes overlap and end in any order, and none of them
redefines the pool or selects a member that shows another chain. A probe that adopts an
identity for itself instead of going by the pool's breaks it.
`CacheNeverOlder` is what the claims are for, `CacheOneClaim` and `MemoOneFetch`
that none is left behind. `FeedNoHole` and `FeedOnce` hold although a step
makes three calls to three replicas; the second is of what is sent between two
falls of the height. `ViewsAccounted` and `TrafficKept` count
every event once, and name each way one may be lost.

**What the violations show.** Each is a disagreement between the code and
something the repository says of it; `PROJECT.json` quotes the line.

- `block_resume`: `markBackfillDone` writes the done flag and then the depth.
  Stop between them, and the backfill is done with no depth on record, so that
  raising `-block-history-days` never resumes it. `docs/deployment.md` says it
  resumes "no manual intervention needed".
- `block_lag`: a backfill page from a replica more than a page behind lacks
  its upper heights; the hole stays. `syncBlocks` says that there are no gaps.
  A page is 5000 blocks in production, so this takes a replica that is
  restored or catching up.
- `chain_reset_packages`: `package_submissions` is where `syncPackages` reads
  its cursor and is not among the tables a reset wipes.
- `endpoint_pool_chain`: `failOver` does not compare fingerprints, although
  "Members that disagree are never selected".
- `token_ledger_complete`: the walk's stop is the lowest row of the table it
  inserts into. Its first recovered transfer ends it.
- `coins_no_gap`: the walk is done when it has reached the tip one replica gives.
  A database that stored calls before the coin ledger existed has rows above
  that, and the live pass begins above them: nobody asks for the heights between.
  The comment on `backfillCoinTransfers` says "their union has no gap at any
  interleaving".
- `views_last_flush`: `run()` returns when the listener is closed and waits for
  no goroutine, so the process may end before `Run` has flushed once more, which
  `views.go` calls "the point of the goroutine".
- `session_standing`: the sweep goes downward, so the batch with a revocation is
  recorded before the batch with its grant. The revocation finds no row to mark,
  and the grant, when it comes, is left standing. The comment on `UpsertSessionGrant`
  still says that the backfill walks oldest first.
- `memo_wakeup`: a waiter that wakes later than `negativeTTL` after a failed
  fetch finds no entry it can use and no fetch, and becomes the leader without
  having the mutex. It gives it back twice, which stops the process.
- `visitor_salt`: a request that began before midnight and ends after one that
  began behind it asks for a key of its own day. That one is gone, so another is
  minted for it in place of the new day's, and a third for the rest of the new
  day: each day has two keys, and one client two ids.

Three more sentences of the repository are not true of the code as they stand.
The properties beside them hold because they say less, and how much less is part of
the finding:

- "Afterwards the identity is fixed" (`indexer.go`, line 609). Of two probes that
  both began while there was no identity, the later to be written redefines it.
  `PoolStaysOnChain` begins where no such probe is out.
- "Nothing is sent twice" (`ws.go`, line 251). A replica that lags makes the height
  fall, which the loop takes for a reset chain, and the blocks above are sent once
  more. `FeedOnce` is of what is sent between two such falls.
- "never a silent hole in the ledger" (`syncer.go`, line 965). A height a query did
  not answer is indeed retried; a height answered by a replica that does not have it
  yet, or one whose insert failed, is not. `CursorHonest` names both.

## Fairness

`WF(BlockPass)`, `WF(ChainPass)`, `WF(TxPass)` and so on, one for each walk of
`walks`: the loop in `main.go` runs a pass
on start and every 30 s for as long as the process lives, and every call in it
returns, because the HTTP client and SQLite have timeouts. `WF(BlockCatchUp)` and
its kind: a replica that is behind keeps replaying the chain. In the
pool, `WF(PoolQueryStep(q))` says that a request ends, by its timeout if by
nothing else, and that callers keep asking, and `WF(ProbeExpires)`,
`WF(Cooldown)` that time passes. The other parts of `serving` have safety
properties only and assume nothing. Nothing is assumed of growth, resets,
failures or restarts, which are bounded by `MaxBlockFaults`, `MaxTxFaults` and so on and the other bounds;
liveness is of the form "once these stop". No strong fairness is assumed
anywhere.

`block_resume` and `block_lag` do not check for deadlock, because an
operator may decline blocks (`-block-history-days` below 0), after which
nothing is left to do. `serving`, `views_last_flush`, `memo_wakeup` and
`visitor_salt` do not either:
their clocks, versions and counted events end at a bound, an exited process has
no next step, and neither has one that `memo` has stopped. All other runs do.

## Proofs

A theorem holds for every value of the constants that satisfies the module's
assumptions, which give their types and little more. Where a property is not
inductive, an invariant of named parts strengthens it, with one lemma for each
action.

**`BlockSync_proofs`**, for every page size, budget, floor, height, number of
faults and choice of depths: `TableIsContiguous`, `TypesHold`,
`CompleteIsHonest`, `DepthIsHonest` are the invariants of block sync that `walks` checks, and
`BlockSyncImplementsBlockRange` is that every behaviour of `BlockSync` is one of
`BlockRange`. Each assumes `ReplicasKeepUp`: `BlockLag <= PageSize`. The assumption
cannot be dropped: `block_lag` is the counterexample. It is used at one point. A
page of backfill ends at `minH - 1`, and the table is one page deep before
backfill starts, so when no replica trails by more than a page, every replica
has `minH - 1`. This is the conjunct `ReachInv`, and it is not implied by the
properties, which is why they are not inductive: nothing in `Contiguous` says
which replica may answer next. `IInv` adds to it that the pass remembers the
table's bounds correctly (`PassInv`), that what `markBackfillDone` is about to
record is true (`StopInv`), and the range itself (`RangeInv`). The refinement
maps each writing step to `Open`, `Extend`, `Finish` or `Reopen` and every other
to a stutter.

**`ChainReset_proofs`**, for every number of chains, every height, lag and
number of faults: `TypesHold`, `NoDeadRowsSurvive`, `RollupHasItsTransfers`,
`LiveRowsAreKept`. `NoDeadRows` says nothing while no fingerprint is on record,
nor of what a pass has decided but not yet done. `IInv` adds `OrphanInv` (rows
stored without a fingerprint are of chains in `orphans`, which is what makes
adopting a fingerprint sound) and `CheckInv`: a comparison is never of a chain
older than the one on record, `Wipe` is reached only from a strictly older one,
and at `Record` the listed tables are empty. That last conjunct is why two
separate writes are enough; `KeepsLiveRows` is the one before it.

**`TxSync_proofs`**, for every chain, kinds of transactions, cap, repair batch,
lag and number of faults: `TxTypes`, `WalkHasNoHoles`, `NothingFoldedTwice`,
`RollupMissesNothing`. `NoHoles` speaks of the highest row, which is a cursor read
back from the table; the page in hand is above it. `TxWalkInv` says that the walk's
own cursor has passed nothing that is not a row, in the page or lost, and
`PageInv` that a page lies above everything folded, which is why a row that comes
later is never below an edge (`FoldedOnce`, `EdgesInv`). What a query brings is
the lemma `PageIsWhole`: whole blocks from the cursor up, whether the cap cut the
answer or not. It rests on `CutIsWhole` in `OrderLemmas`: a cut that gives up its
last block keeps whole blocks, and all up to the last it keeps.

**`SessionSweep_proofs`**, for every chain of grants and revocations, batch, row
limit, lag and number of faults: `SessionTypes`, `CursorIsHonest`,
`RevocationsAreLater` and the action property `RevocationsStay`. A batch that is
under way has its rows in three places: the table, the answer that is being
recorded, and the ranges still to ask for. `LeftInv` says that the ranges halved
so far lie below the floor, one right below the other, and `BatchInv` that what is
above the floor has its row or is in the answer, so that the floor may become the
cursor whichever half fails. What one transaction does to the grants is the lemma
`MessageKeeps`, from which both facts about revocations follow.
`SweepKeepsItsPromise` is that the sweep implements `Backfill`. It needs to know
besides that the batch in hand begins at the cursor or below it, and stays above
block 0 (`SweepDown`): without the first `SetSwept` could store a cursor above what
an earlier pass had stored, without the second one that reads as none.

**`Backfills_proofs`** has five sections.
*TokenLedger*, for any transfers, batch size, lag and faults:
`LedgerCursorHonest` and `LedgerTypes`. `CursorHonest` speaks of the stored
cursor; between `Walk` and `SetCursor` the pass holds the next one, and
`BatchHonest` says that it is honest already: what the batch has come to is
recorded, was hidden by a lagging replica, or failed to be inserted, and the last
two are history that only grows. `StartKnown` says where the walk
began. `LedgerKeepsItsPromise` is the refinement of `Backfill`; that the cursor
never goes back needs `CursorBehind`, the batch in hand begins at the cursor or
above it. The boundary the walk goes up to is in neither: it does move, which is
`token_ledger_complete`. *HistoryRepair*: `ArgsCursorIsHonest`, which is inductive with its types
(`RepairTypes`): the rows a batch asked for are the newest below the cursor, so
none lies between the old cursor and the new but those that answered. For the same
reason the cursor only goes down (`FillArgsGoesDown`), and `ArgsKeepTheirPromise`
follows without another invariant.
*CoinBackfill*: `CoinTypes` and `CoinLedgerComplete`. `CoinsComplete` speaks of
the end of the walk; on the way, `CoinWindowInv` and `CoinWalkInv` say that what
the window and the cursor have passed is accounted for, and `CoinLiveInv` that
once the walk is done the live pass leaves no gap below its own rows. The
finish line is the tip one replica reported; what the windows of another do
not show below it is `hidden`, and what is between it and the rows of the live
pass is `skipped`, so the theorem leaves open the very stretch `coins_no_gap`
is about and closes every other. In `CoinsKeepTheirPromise` what is passed has two
bounds, the cursor and, once the marker is set, the highest row. `WindowAhead` says
that the next cursor is not below the stored one, `TopRises` that rows which stay
keep the second bound from falling. *UserRegistry*: `UserTyped` and `RegistryMatches`.
`UsersMatch` speaks of the end of a replay. In the middle the table is a mixture
of the old and the new, and `ReplayInv` says that it is right about every address
the replay has met, as the registry was after that many events; `LogInv` says
which events these are, and `DemoteInv` what is true between the two statements of
one. That an older row cannot spoil it needs that a name is never given to a second
address, so that what one address did leaves the names of the others alone
(`NamesAreKept`). *Walks*: a step of one walk is a stutter of the other seven, so
a behaviour of the composition is one of every walk (`EachWalkIsItsOwn`), and
`WalksTyped` and `WalksKeepPromise` follow from the theorems about the walks.
None of these needs fairness: they are stated of `TxSafety`, `SessionSafety` and so
on, the specifications without it.

**`EndpointPool_proofs`**: `PoolStays` and `PoolTypes`, for any pool and any
number of queries. A query writes its choice some time after it probed, when the
pool may have moved on. The invariant `VerdictAgrees` says that a choice in hand
shows the fingerprint it was made under (`known`), or none; from `PoolSettled` on,
`known` is the pool's identity or nothing, so that the write leaves the identity as
it is and selects no foreign member. That `PoolSettled` is never left again is
half of the theorem: a probe that begins takes the identity with it.

**`Serving_proofs`** has seven sections. *IPLimiter*: `LimiterTypes`, `CountsRunning` and
`LimiterImplementsRateLimit`, for all addresses, requests and rates. A request
whose bucket was swept would release into nothing, and the next bucket would
allow one request too many. `StillOwned` says that it does not happen: a bucket with
requests in flight is not swept, so every release finds the bucket that counted
it, and the number in flight is the number of requests that run. The refinement maps a bucket to the allowance it would have if it were
refilled now, and no bucket to a full one. That a sweep cannot be seen needs
that a bucket unused for `BucketTTL` is full (`BucketTTL * Rate >= Cap`, which
is the code's "Longer than any refill window") and that a bucket is refilled
whenever it is seen (`SeenAtRefill`). `WaitBrings` is the arithmetic of the
`Retry-After` header: cut to whole seconds, plus one, it brings a token.

*Memo*, for any callers and lifetimes: `MemoTypes`, `OneFetch` and `GoodIsKept`.
The invariant adds to `MemoOneFetch` that the copy of the entry a leader carries
through its fetch is still the entry (`LeaderCurrent`), since nobody else may write
one meanwhile.

*ResponseCache*, for any readers, keys, windows, map sizes and failures:
`CacheTypes`, `OneClaim`, `AnswersGetNewer`, `ServableIsKept`. `ClaimInv` adds to
the claims what stage each reader and refresh is at (`CacheStages`), that a claim
in the map has someone computing under it (`ClaimHeld`), and that whoever waits,
waits for such a key (`WaitsOnClaim`). That there is one claimant and not two is
stated by equality of any two, not by a cardinality, which keeps it within
first-order reasoning. `AnswersGetNewer` rests on it: whoever computes without a
claim has marked the key (`Marked`), so an answer in hand for an unmarked key is
the only one, and it is not older than the entry it will replace
(`NewerInHand`). `ServableIsKept` and the bound on the map (in `CacheTypes`) are
facts about `Put` alone, `PutDrops` and `PutIs`.

*LiveFeed*, for any browsers, ring, step, lag and faults: `NobodyStranded`,
`NoHoleInFeed`, `AnnouncedOnce` (once between two falls of the height). A browser gets a copy of the ring and then what
is pushed on it. `RingClosed` says that behind a block of the ring come all later
ones, so that dropping the oldest event makes no hole; `SentInv` and `LoopInv`
that all that went out lies at or below the heights the loop goes on from.

*TrafficLog*: `TrafficTyped`, `RowsAccountedFor`, `DaysUnlinkable`. `PlacesInv`
says that buffer, batches, table and what is gone are disjoint and hold no request
twice, from which the count follows; `KeyInv` that the key in memory has made ids
of its own day only.

*ViewCount*: `OpensAccountedFor`. What the flushers hold together is a sum over a
set of any size. The module takes it as the number of pairs of a flusher and a
place in its batch, because a fold would be an induction over data; `SumChanges`
is that one batch changes it by as much as it changes itself. `AskedInv` carries
the promise to a reader from its flush to its answer.

*Serving*: as for `Walks`, `EachPartIsItsOwn` and from it `ServingTyped`.

What the theorems assume of the constants, beyond their types: `ReplicasKeepUp`
where it is named above; that a chain holds finitely many transactions and the
counters have finitely many connections and readers (`IsFiniteSet`), because
their properties count; that a bucket outlives its refill window; that the
registry emits in block order and gives no name twice; and that the bounds which
count from one (`MaxMinted`, `MaxVersion`) are not zero.

**Only model-checked.** All liveness (`CatchesUp`, `WalksResync`, `WalksSettle`,
`PoolComesBack`): it rests on fairness and so on ENABLED, which TLAPS does not
reason about. And the properties of the `violation` runs, which the code does not
have. Every other property of a run is a theorem.

## What the models take as the code has it

Behaviour one might not expect. The models have it as it is, and the properties are
stated so that they allow it. Where the repository says otherwise, the sentence is
among the findings above.

- The coin walk starts above height 0 at a database that has none, so a transfer
  of genesis is recorded by the live pass or not at all; `CoinsComplete` is of
  transfers above genesis.
- An endpoint whose schema has no transfer events marks the coin backfill done
  for good.
- A single block with `ElementCap` rows or more stops the transaction walk at
  the block before it, and one with more rows than a session query may return
  stops the sweep. Chains with such blocks are not among the instances.
- While the users are replayed, readers see names of the past. `UsersMatch`
  holds when a replay has gone through with every statement; when one failed, a
  name stays wrong until the next pass replays everything again.
- A key revoked and granted again within one block has one row; a batch walked
  again closes the newer grant. `SessionSweep` has revocation and regrant in
  different blocks.
- A row whose insert fails is logged and not asked for again, in every walk but the
  registry's. The properties excuse it by name: `txLost`, `unstored`, `coinLost`,
  and `late` for a row that is dated after a later one was folded.
- A `revoke_all` in an answer of the raw schema is not decoded.
- When the third call of the feed's step fails, the transactions of that step
  are not sent (`ws.go`, line 303). `FeedNoHole` is of blocks.
- `run()` in `main.go` waits for neither the view counter's loop, nor the traffic
  log's, nor requests under way. What they hold then is lost, and counted as lost.
  `ExitTraffic` allows more than the code does: `Close` flushes the buffer before
  the process ends (`traffic.go`, lines 432-437), and the model lets it end without.
  So `TrafficKept` says that no row is doubled or unaccounted for, not that `Close`
  saves any.
- A rate or a concurrency that is not positive switches the limiter off
  (`ratelimit.go`, lines 62, 94 and 113). `LimiterAssumption` excludes it: there is
  no promise to keep then.
- A finished block backfill may be resumed without need, and a cap go untested for
  one pass, when a read fails whose error `syncBlocks` drops.
- Two queries that fail over together may retry on the endpoint that has just
  failed both.

## Not modelled

- *Sync health registry*: one mutex around a map; the last writer wins.
- *Rollups, first_seen, discover events*: rebuilt from rows, each in one SQL
  transaction; no step of theirs interleaves with another.
- *HTTP handlers, MCP server, reporting queries* (`analytics.go`, `accounts.go`,
  `packages.go`, `search`, `govdao`): each request is a query and a rendering of
  its result. They keep no state between calls, and what they compute is SQL over
  rows, for which a specification would be a second implementation.
- *Migrations* (`schema.go`): run once, before anything else, in order.
- *Package analyzer, tokenizer, decoders, prices, GitHub activity, badges,
  achievements, registry*: pure functions over text or fetched documents.
- *Configuration, web frontend, glossary, stdlib index, tools and tests*: static
  data, parsing, assets, or not part of the running system.
- *Type support cache of the indexer client*: which fields a query asks for. Its
  effect on the coin and session walks, an answer in the other schema, is an
  input of their models.
- *Tip events, SSE framing, X-Cache counters, path and agent classification,
  summaries and holders of the ledger*: data that no control reads.

Most of the repository, by lines, is of the third kind. The parts that keep state
between steps, which is where order can go wrong, are the ones modelled.

## Plan

1. Done: block sync and chain reset with their proofs; the transaction walk;
   the endpoint pool; the token ledger.
2. Done: the remaining backfills, the caches, the live feed, the limiter with its
   abstract specification, the two counters.
3. Done: theorems about every safety invariant and action property that a passing
   run checks, and all refinements: the two composed specifications, an abstract
   specification of the cursor of a backfill, and the four walks that implement it.
4. Left, in this order: the type support cache as a part of `EndpointPool`; an
   endpoint pool composed with the reset check, for a fail-over to a foreign member
   in the middle of one.
