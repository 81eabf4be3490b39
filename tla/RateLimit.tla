------------------------------ MODULE RateLimit ------------------------------
(***************************************************************************)
(* What the rate limiter promises each address, with no map of buckets that *)
(* come and go: an allowance that refills with time up to a cap, a bound on *)
(* the requests that run at once, and a wait after which a retry finds     *)
(* enough allowance.                                                       *)
(***************************************************************************)
EXTENDS Integers

CONSTANTS
  Addresses,   \* client addresses
  Rate,        \* units of allowance an address gains per tick
  Cost,        \* units one request costs
  Cap,         \* units an address can save up
  Concurrent   \* requests of one address that may run at once

VARIABLES
  level,   \* the allowance of each address
  busy,    \* the requests of each address that run
  answer   \* what the last request was told: [ok, wait]

rateVars == <<level, busy, answer>>

Silent == [ok |-> TRUE, wait |-> 0]

Capped(units) == IF units > Cap THEN Cap ELSE units

RateInit ==
  /\ level = [a \in Addresses |-> Cap]
  /\ busy = [a \in Addresses |-> 0]
  /\ answer = Silent

\* Time passes for every address alike.
Refill ==
  /\ level' = [a \in Addresses |-> Capped(level[a] + Rate)]
  /\ answer' = Silent
  /\ UNCHANGED busy

\* A request is admitted when both bounds allow it, and only then is it
\* charged.
Admit(a) ==
  /\ level[a] >= Cost
  /\ busy[a] < Concurrent
  /\ level' = [level EXCEPT ![a] = @ - Cost]
  /\ busy' = [busy EXCEPT ![a] = @ + 1]
  /\ answer' = Silent

\* A request is refused only when one bound is reached, and the wait it is
\* told is positive and brings the allowance of one request.
Refuse(a) ==
  /\ level[a] < Cost \/ busy[a] >= Concurrent
  /\ answer'.ok = FALSE
  /\ answer'.wait \in Nat \ {0}
  /\ level[a] + answer'.wait * Rate >= Cost
  /\ UNCHANGED <<level, busy>>

Finish(a) ==
  /\ busy[a] > 0
  /\ busy' = [busy EXCEPT ![a] = @ - 1]
  /\ answer' = Silent
  /\ UNCHANGED level

RateNext == Refill \/ \E a \in Addresses : Admit(a) \/ Refuse(a) \/ Finish(a)

RateSpec == RateInit /\ [][RateNext]_rateVars
=============================================================================
