-------------------------------- MODULE Memo ----------------------------------
(***************************************************************************)
(* memo, the value cache that the reads of upstream nodes share            *)
(* (pkg/httpapi/memo.go), for one key.  A success is served for ttl, a     *)
(* failure holds retries off for negativeTTL while the last good value is  *)
(* still served, and callers who arrive during a fetch wait for it.        *)
(*                                                                         *)
(* A value is the state of the upstream that the fetch saw.  The steps of  *)
(* a caller are the stretches between taking the mutex and giving it back. *)
(***************************************************************************)
EXTENDS Integers

CONSTANTS
  Callers,      \* requests that ask for the key at once
  MemoTtl,      \* ttl
  NegativeTtl,  \* negativeTTL
  MaxNow,       \* bound: the clock stops here
  MaxUpstream,  \* bound: how often the upstream changes
  MaxFailures   \* bound: fetches that fail

ASSUME MemoAssumption ==
  /\ MemoTtl \in Nat /\ NegativeTtl \in Nat
  /\ MaxNow \in Nat /\ MaxFailures \in Nat
  /\ MaxUpstream \in Nat \ {0}

VARIABLES
  now,       \* time.Now()
  upstream,  \* what a fetch would return
  held,      \* m.entries[key]: [stored, val, good, retryAt]
  fetching,  \* m.inflight has the key
  caller,    \* where each caller is
  copy,      \* the copy of the entry it took at the top of its loop
  failed,    \* failed fetches so far
  crashed    \* the runtime stopped the process: unlock of an unlocked mutex

memoVars == <<now, upstream, held, fetching, caller, copy, failed, crashed>>

Nothing == [stored |-> FALSE, val |-> 0, good |-> FALSE, retryAt |-> 0]

-----------------------------------------------------------------------------
MemoInit ==
  /\ now = 0
  /\ upstream = 1
  /\ held = Nothing
  /\ fetching = FALSE
  /\ caller = [c \in Callers |-> "out"]
  /\ copy = [c \in Callers |-> Nothing]
  /\ failed = 0
  /\ crashed = FALSE

MemoTick ==
  /\ now < MaxNow
  /\ now' = now + 1
  /\ UNCHANGED <<upstream, held, fetching, caller, copy, failed, crashed>>

Change ==
  /\ upstream < MaxUpstream
  /\ upstream' = upstream + 1
  /\ UNCHANGED <<now, held, fetching, caller, copy, failed, crashed>>

At(c, place) == caller' = [caller EXCEPT ![c] = place]

\* Mutant: a caller does not ask who is fetching already.
AskWithoutWaiting(c) ==
  /\ caller[c] = "out"
  /\ ~crashed
  /\ ~(held.stored /\ now < held.retryAt)
  /\ fetching' = TRUE
  /\ At(c, "fetch")
  /\ copy' = [copy EXCEPT ![c] = held]
  /\ UNCHANGED <<now, upstream, held, failed, crashed>>

\* The top of the loop.  An entry that is not due is served, which changes
\* nothing; otherwise the caller waits or becomes the leader.
Ask(c) ==
  /\ caller[c] = "out"
  /\ ~crashed
  /\ ~(held.stored /\ now < held.retryAt)
  /\ fetching' = TRUE
  /\ At(c, IF fetching THEN "wait" ELSE "fetch")
  /\ copy' = [copy EXCEPT ![c] = held]
  /\ UNCHANGED <<now, upstream, held, failed, crashed>>

\* Its own ctx is done: it returns the entry it saw before it waited.
Leave(c) ==
  /\ caller[c] = "wait"
  /\ ~crashed
  /\ At(c, "out")
  /\ copy' = [copy EXCEPT ![c] = Nothing]
  /\ UNCHANGED <<now, upstream, held, fetching, failed, crashed>>

\* After the wait: the entry is served when it is good or not due, and while
\* somebody fetches the caller goes around again.  The third case leaves the
\* block with the mutex already given back, writes the map, and gives the mutex
\* back once more, for which the runtime stops the process (when somebody holds
\* it at that moment, at that one's own unlock).
WakeUp(c) ==
  /\ caller[c] = "woken"
  /\ ~crashed
  /\ At(c, "out")
  /\ crashed' = ~(\/ held.stored /\ (held.good \/ now < held.retryAt)
                  \/ fetching)
  /\ copy' = [copy EXCEPT ![c] = Nothing]
  /\ UNCHANGED <<now, upstream, held, fetching, failed>>

\* Mutant: what a failed fetch returned replaces the entry.
EntryReplaced(old, ok, val) ==
  [stored |-> TRUE, val |-> val, good |-> ok,
   retryAt |-> now + (IF ok THEN MemoTtl ELSE NegativeTtl)]

\* The switch after the fetch: a failure keeps the last good value.
EntryAfter(old, ok, val) ==
  IF ok THEN [stored |-> TRUE, val |-> val, good |-> TRUE, retryAt |-> now + MemoTtl]
  ELSE IF old.good THEN [old EXCEPT !.retryAt = now + NegativeTtl]
  ELSE [stored |-> TRUE, val |-> 0, good |-> FALSE, retryAt |-> now + NegativeTtl]

\* The leader stores its entry and wakes everybody, all under the mutex.
Land(c) ==
  /\ caller[c] = "fetch"
  /\ ~crashed
  /\ \E ok \in (IF failed < MaxFailures THEN BOOLEAN ELSE {TRUE}) :
       /\ held' = EntryAfter(copy[c], ok, IF ok THEN upstream ELSE 0)
       /\ failed' = IF ok THEN failed ELSE failed + 1
  /\ fetching' = FALSE
  /\ caller' = [d \in Callers |-> IF d = c THEN "out"
                                  ELSE IF caller[d] = "wait" THEN "woken" ELSE caller[d]]
  /\ copy' = [copy EXCEPT ![c] = Nothing]
  /\ UNCHANGED <<now, upstream, crashed>>

\* The service manager starts the process again.
MemoRestart ==
  /\ crashed
  /\ held' = Nothing /\ fetching' = FALSE /\ crashed' = FALSE
  /\ caller' = [c \in Callers |-> "out"]
  /\ copy' = [c \in Callers |-> Nothing]
  /\ UNCHANGED <<now, upstream, failed>>

-----------------------------------------------------------------------------
MemoNext ==
  \/ MemoTick \/ Change \/ MemoRestart
  \/ \E c \in Callers : Ask(c) \/ Leave(c) \/ WakeUp(c) \/ Land(c)

MemoSpec == MemoInit /\ [][MemoNext]_memoVars
-----------------------------------------------------------------------------
MemoTypeOK ==
  /\ now \in 0..MaxNow
  /\ upstream \in 1..MaxUpstream
  /\ held \in [stored : BOOLEAN, val : 0..upstream, good : BOOLEAN, retryAt : Nat]
  /\ fetching \in BOOLEAN /\ crashed \in BOOLEAN
  /\ caller \in [Callers -> {"out", "wait", "woken", "fetch"}]
  /\ copy \in [Callers -> [stored : BOOLEAN, val : 0..upstream, good : BOOLEAN,
                           retryAt : Nat]]
  /\ failed \in 0..MaxFailures

\* Concurrent callers of one key produce one fetch: whoever is not the leader
\* waits, and nobody waits for a leader who is gone.
MemoOneFetch ==
  LET leaders == {c \in Callers : caller[c] = "fetch"}
  IN /\ fetching <=> leaders # {}
     /\ \A c, d \in leaders : c = d
     /\ leaders = {} => \A c \in Callers : caller[c] # "wait"

\* A value that was good stays, or gives way to a newer one: no failure, and no
\* leader with a copy of an older entry, takes it away, short of a restart.
MemoKeepsGood ==
  [][held.good /\ ~crashed => held'.good /\ held'.val >= held.val]_memoVars

\* A caller who waited "becomes the next leader" when the leader stored nothing
\* it can use, as the comment in get says.  The process stops instead, when it
\* wakes up later than negativeTTL after a failure.
MemoSurvives == ~crashed
=============================================================================
