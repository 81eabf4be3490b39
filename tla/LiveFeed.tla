------------------------------- MODULE LiveFeed -------------------------------
(***************************************************************************)
(* The live feed of one network (pkg/httpapi/ws.go): a loop that polls the *)
(* indexer while anybody is subscribed, announces new blocks and their     *)
(* transactions to every subscriber, and keeps a tail of what it announced *)
(* to replay to whoever subscribes next.                                   *)
(*                                                                         *)
(* Every block carries one transaction.  An event is [kind, h, current]:   *)
(* it stops being current where the feed itself breaks its sequence and    *)
(* starts another, that is on its first height, when the height falls (a   *)
(* reset chain, or a replica that lags, which then repeats what was sent), *)
(* and when it skips a backlog.  Tip events hold no block and are left     *)
(* out.  A channel holds 256 events; one whose browser stopped reading     *)
(* fills up, and loses what is sent to it then.                            *)
(***************************************************************************)
EXTENDS Integers, Sequences, FiniteSetsExt

CONSTANTS
  Clients,       \* connections to /api/live
  LiveReplay,    \* liveReplay: how many events the ring keeps
  MaxCatchup,    \* maxLiveCatchup
  MaxMinted,     \* bound: how many blocks are minted, over all chains
  MaxFeedLag,    \* how many blocks a replica may trail
  MaxFeedFaults  \* bound: failed calls and chain resets

ASSUME FeedAssumption ==
  /\ {MaxFeedLag, MaxFeedFaults} \subseteq Nat
  /\ {LiveReplay, MaxCatchup, MaxMinted} \subseteq Nat \ {0}

VARIABLES
  feedTip,    \* the chain's height
  minted,     \* blocks minted so far
  feedFaults, \* faults so far
  subs,       \* f.clients
  full,       \* connections whose channel takes no more
  client,     \* where each connection is
  running,    \* f.running
  lastBlock,  \* f.lastBlock
  recent,     \* f.recent
  loop,       \* the poll loop: [at, from, height, upto]
  got         \* history: the current events each connection was sent

chainVars  == <<feedTip, minted, feedFaults>>
clientVars == <<subs, full, client>>
feedVars   == <<chainVars, clientVars, running, lastBlock, recent, loop, got>>

Loop(place) == [at |-> place, from |-> 0, height |-> 0, upto |-> 0]

Event(kind, h) == [kind |-> kind, h |-> h, current |-> TRUE]

Outdated(seq) == [i \in DOMAIN seq |-> [seq[i] EXCEPT !.current = FALSE]]

FeedReplies == {h \in 1..feedTip : h >= feedTip - MaxFeedLag}

LastOf(n, seq) == SubSeq(seq, IF Len(seq) > n THEN Len(seq) - n + 1 ELSE 1, Len(seq))

Events(seq) == {seq[i] : i \in 1..Len(seq)}

-----------------------------------------------------------------------------
FeedInit ==
  /\ feedTip = 1 /\ minted = 1
  /\ feedFaults = 0
  /\ subs = {} /\ full = {}
  /\ client = [c \in Clients |-> "away"]
  /\ running = FALSE
  /\ lastBlock = 0
  /\ recent = <<>>
  /\ loop = Loop("off")
  /\ got = [c \in Clients |-> {}]

\* A block is minted, or the network starts over from a new genesis.
Mint ==
  /\ minted < MaxMinted
  /\ minted' = minted + 1
  /\ \/ feedTip' = feedTip + 1 /\ UNCHANGED feedFaults
     \/ /\ feedFaults < MaxFeedFaults
        /\ feedTip' = 1
        /\ feedFaults' = feedFaults + 1
  /\ UNCHANGED <<clientVars, running, lastBlock, recent, loop, got>>

\* ---- A connection ----

\* addClientChan: into the map under one lock, then the replay under another,
\* then the loop is started if it does not run.
Subscribe(c) ==
  /\ client[c] = "away"
  /\ client' = [client EXCEPT ![c] = "added"]
  /\ subs' = subs \union {c}
  /\ UNCHANGED <<chainVars, full, running, lastBlock, recent, loop, got>>

Replay(c) ==
  /\ client[c] = "added"
  /\ client' = [client EXCEPT ![c] = "replayed"]
  /\ got' = [got EXCEPT ![c] = @ \union {e \in Events(recent) : e.current}]
  /\ UNCHANGED <<chainVars, subs, full, running, lastBlock, recent, loop>>

EnsureRunning(c) ==
  /\ client[c] = "replayed"
  /\ client' = [client EXCEPT ![c] = "live"]
  /\ running' = TRUE
  /\ loop' = IF running THEN loop ELSE Loop("top")
  /\ UNCHANGED <<chainVars, subs, full, lastBlock, recent, got>>

\* The browser stops reading, and its channel fills up.
Stall(c) ==
  /\ client[c] = "live" /\ c \notin full
  /\ full' = full \union {c}
  /\ got' = [got EXCEPT ![c] = {}]
  /\ UNCHANGED <<chainVars, subs, client, running, lastBlock, recent, loop>>

\* The browser goes, and the deferred removeClient runs.
Unsubscribe(c) ==
  /\ client[c] = "live"
  /\ client' = [client EXCEPT ![c] = "away"]
  /\ subs' = subs \ {c}
  /\ full' = full \ {c}
  /\ got' = [got EXCEPT ![c] = {}]
  /\ UNCHANGED <<chainVars, running, lastBlock, recent, loop>>

\* ---- pollLoop and pollStep ----

\* Mutant: the flag is cleared under a lock of its own.
StopIfIdleInTwo ==
  /\ UNCHANGED <<chainVars, clientVars, lastBlock, recent, got>>
  /\ \/ /\ loop.at = "top"
        /\ loop' = Loop(IF subs = {} THEN "stopping" ELSE "height")
        /\ UNCHANGED running
     \/ loop.at = "stopping" /\ loop' = Loop("off") /\ running' = FALSE

\* stopIfIdle: the count is read and the flag cleared under one lock.
StopIfIdle ==
  /\ loop.at = "top"
  /\ running' = (subs # {})
  /\ loop' = Loop(IF subs = {} THEN "off" ELSE "height")
  /\ UNCHANGED <<chainVars, clientVars, lastBlock, recent, got>>

\* The height, and what it means: a first poll or a rewind starts from the tip,
\* a backlog is skipped, and with nothing new the step is over.
PollHeight ==
  /\ loop.at = "height"
  /\ \E h \in FeedReplies :
       /\ lastBlock' = IF lastBlock = 0 \/ h < lastBlock THEN h
                       ELSE IF h - lastBlock > MaxCatchup THEN h - MaxCatchup
                       ELSE lastBlock
       /\ loop' = IF h <= lastBlock' THEN Loop("top")
                  ELSE [at |-> "blocks", from |-> lastBlock', height |-> h, upto |-> h]
  /\ IF lastBlock' = lastBlock THEN UNCHANGED <<recent, got>>
     ELSE recent' = Outdated(recent) /\ got' = [c \in Clients |-> {}]
  /\ UNCHANGED <<chainVars, clientVars, running>>

\* GetBlocksInRange answers with what its replica has of the range, ascending.
PollBlocks ==
  /\ loop.at = "blocks"
  /\ \E t \in FeedReplies :
       loop' = [loop EXCEPT !.at = "announce", !.upto = IF t < @ THEN t ELSE @]
  /\ UNCHANGED <<chainVars, clientVars, running, lastBlock, recent, got>>

\* broadcast: into the ring, and to every subscriber whose channel has room.
\* The lock is held for one event at a time.
Broadcast(e) ==
  /\ recent' = LastOf(LiveReplay, Append(recent, e))
  /\ got' = [c \in Clients |-> IF c \in subs \ full THEN got[c] \union {e} ELSE got[c]]

\* Mutant: the cursor ends at the height that was read, whatever came back.
AnnounceToHeight ==
  /\ loop.at = "announce"
  /\ IF lastBlock < loop.upto
     THEN /\ lastBlock' = lastBlock + 1
          /\ Broadcast(Event("block", lastBlock + 1))
          /\ UNCHANGED loop
     ELSE /\ loop' = [loop EXCEPT !.at = "txs"]
          /\ lastBlock' = loop.height
          /\ UNCHANGED <<recent, got>>
  /\ UNCHANGED <<chainVars, clientVars, running>>

Announce ==
  /\ loop.at = "announce"
  /\ IF lastBlock < loop.upto
     THEN /\ lastBlock' = lastBlock + 1
          /\ Broadcast(Event("block", lastBlock + 1))
          /\ UNCHANGED loop
     ELSE /\ loop' = [loop EXCEPT !.at = "txs"]
          /\ UNCHANGED <<lastBlock, recent, got>>
  /\ UNCHANGED <<chainVars, clientVars, running>>

\* Mutant: without the ceiling.
PollTxsUnclamped ==
  /\ loop.at = "txs"
  /\ \E t \in FeedReplies : loop' = [loop EXCEPT !.at = "forward", !.upto = t]
  /\ UNCHANGED <<chainVars, clientVars, running, lastBlock, recent, got>>

\* GetTransactionsFromHeight reads once more, everything above from that its
\* replica has; what lies above the blocks announced waits for the next step.
PollTxs ==
  /\ loop.at = "txs"
  /\ \E t \in FeedReplies :
       loop' = [loop EXCEPT !.at = "forward", !.upto = IF t < lastBlock THEN t ELSE lastBlock]
  /\ UNCHANGED <<chainVars, clientVars, running, lastBlock, recent, got>>

Forward ==
  /\ loop.at = "forward"
  /\ IF loop.from < loop.upto
     THEN /\ Broadcast(Event("tx", loop.from + 1))
          /\ loop' = [loop EXCEPT !.from = @ + 1]
     ELSE /\ loop' = Loop("top")
          /\ UNCHANGED <<recent, got>>
  /\ UNCHANGED <<chainVars, clientVars, running, lastBlock>>

\* Any of the three calls fails: the step is over.
PollFails ==
  /\ loop.at \in {"height", "blocks", "txs"}
  /\ feedFaults < MaxFeedFaults
  /\ feedFaults' = feedFaults + 1
  /\ loop' = Loop("top")
  /\ UNCHANGED <<feedTip, minted, clientVars, running, lastBlock, recent, got>>

-----------------------------------------------------------------------------
Poll ==
  \/ StopIfIdle \/ PollHeight \/ PollBlocks \/ Announce \/ PollTxs \/ Forward
  \/ PollFails

Connection(c) ==
  Subscribe(c) \/ Replay(c) \/ EnsureRunning(c) \/ Stall(c) \/ Unsubscribe(c)

FeedNext == Mint \/ Poll \/ \E c \in Clients : Connection(c)

FeedSpec == FeedInit /\ [][FeedNext]_feedVars
-----------------------------------------------------------------------------
\* The types of the feed; its flag says whether its loop lives, and its ring
\* stays bounded.
FeedTypeOK ==
  /\ feedTip \in 1..MaxMinted /\ minted \in 1..MaxMinted
  /\ feedFaults \in 0..MaxFeedFaults
  /\ full \subseteq subs /\ subs \subseteq Clients
  /\ client \in [Clients -> {"away", "added", "replayed", "live"}]
  /\ running <=> loop.at # "off"
  /\ lastBlock \in 0..MaxMinted
  /\ Len(recent) <= LiveReplay
  /\ loop.at \in {"off", "top", "height", "blocks", "announce", "txs", "forward"}

\* A browser that is connected is polled for: whichever way its subscription
\* and the loop's exit interleave, it is not left with a feed whose loop is gone
\* (what the comment on stopIfIdle is about).
FeedNobodyStranded == \A c \in Clients : client[c] = "live" => running

\* Between the replay and what is broadcast after it there is no hole, whatever
\* replicas answered and calls failed: the current blocks a browser was sent run
\* up to the last block announced.
FeedNoHole ==
  \A c \in Clients \ full :
    client[c] \in {"replayed", "live"} =>
      LET heights == {e.h : e \in {x \in got[c] : x.kind = "block"}}
      IN \A h \in heights : h..lastBlock \subseteq heights

\* Between two falls of the height nothing is announced twice, to whoever listens
\* or into the ring, and no transaction before its block, although each poll reads
\* three times from replicas at different heights.  The comment on pollStep claims
\* more ("Nothing is sent twice"), which does not hold: a height that falls behind
\* lastBlock is taken for a reset chain, also when a lagging replica gave it, and
\* what lies above it is sent a second time.
FeedOnce ==
  [][recent' # recent /\ loop.at # "height" =>
       LET e == recent'[Len(recent')]
       IN /\ e \notin Events(recent)
          /\ \A c \in subs : client[c] = "live" => e \notin got[c]
          /\ e.kind = "tx" => e.h <= lastBlock]_feedVars
=============================================================================
