------------------------------ MODULE TrafficLog ------------------------------
(***************************************************************************)
(* The request log (pkg/traffic/traffic.go, visitor.go and WithAccessLog of *)
(* pkg/httpapi/api_traffic.go): each request leaves one row when it ends,  *)
(* with the day it began on and a visitor id keyed by a salt that is       *)
(* replaced when the day turns; rows are buffered, flushed in batches and  *)
(* pruned after a while.                                                   *)
(*                                                                         *)
(* One client makes all the requests, so that its id is the key it was     *)
(* hashed with; id 0 is the empty one.  A row is [n, day, life, id].       *)
(***************************************************************************)
EXTENDS Integers, FiniteSets

CONSTANTS
  Connections,     \* requests that can be under way at once
  BufferLimit,     \* bufferLimit
  RetentionDays,   \* s.retentionDays, positive
  LastDay,         \* bound: days the calendar runs
  MaxServed,       \* bound: requests served
  MaxTrafficFaults \* bound: failed writes, failed keys and stops

ASSUME TrafficAssumption ==
  /\ {LastDay, MaxServed, MaxTrafficFaults} \subseteq Nat
  /\ {BufferLimit, RetentionDays} \subseteq Nat \ {0}
  /\ IsFiniteSet(Connections)

\* Run's timer, the handler of /api/traffic, and Close.
Writers == {"timer", "handler", "close"}

VARIABLES
  today,          \* the UTC day
  salt,           \* s.salt: [day, key], key 0 when there is none
  keys,           \* keys minted so far
  began,          \* the day each connection's request began on, or NotServing
  served,         \* requests served so far
  buffer,         \* s.buf
  batch,          \* what each writer took from it
  rows,           \* the requests table
  gone,           \* history: rows that were dropped, lost or pruned
  life,           \* which run of the process this is
  exiting,        \* it was told to stop
  trafficFaults   \* faults so far

trafficVars == <<today, salt, keys, began, served, buffer, batch, rows, gone, life,
                 exiting, trafficFaults>>

NotServing == 0 - 1
NoSalt == [day |-> NotServing, key |-> 0]

Fault == trafficFaults < MaxTrafficFaults /\ trafficFaults' = trafficFaults + 1

-----------------------------------------------------------------------------
TrafficInit ==
  /\ today = 0
  /\ salt = NoSalt
  /\ keys = 0
  /\ began = [c \in Connections |-> NotServing]
  /\ served = 0
  /\ buffer = {}
  /\ batch = [w \in Writers |-> {}]
  /\ rows = {}
  /\ gone = {}
  /\ life = 1
  /\ exiting = FALSE
  /\ trafficFaults = 0

DayTurns ==
  /\ today < LastDay
  /\ today' = today + 1
  /\ UNCHANGED <<salt, keys, began, served, buffer, batch, rows, gone, life, exiting,
                 trafficFaults>>

\* WithAccessLog, before the handler: the start is taken.
BeginRequest(c) ==
  /\ began[c] = NotServing
  /\ ~exiting
  /\ served + Cardinality({x \in Connections : began[x] # NotServing}) < MaxServed
  /\ began' = [began EXCEPT ![c] = today]
  /\ UNCHANGED <<today, salt, keys, served, buffer, batch, rows, gone, life, exiting,
                 trafficFaults>>

\* Mutant: one key for as long as the process lives.
KeptKey(day) == salt.key # 0

\* keyFor: the key in memory is used when it is of that day.
HasKey(day) == salt.day = day /\ salt.key # 0

\* Mutant: the request that fills the buffer takes the place of all that is in it.
RecordOver(row) ==
  /\ buffer' = IF Cardinality(buffer) >= BufferLimit THEN {row} ELSE buffer \union {row}
  /\ UNCHANGED gone

\* Record: a full buffer drops the row.
Record(row) ==
  IF Cardinality(buffer) >= BufferLimit
  THEN gone' = gone \union {row} /\ UNCHANGED buffer
  ELSE buffer' = buffer \union {row} /\ UNCHANGED gone

\* WithAccessLog, after the handler: the id is derived for the day the request
\* began on, with a new key if the one in memory is of another day.
EndRequest(c) ==
  /\ began[c] # NotServing
  /\ \E minted \in BOOLEAN :
       /\ HasKey(began[c]) => minted
       /\ IF HasKey(began[c]) THEN UNCHANGED <<salt, keys, trafficFaults>>
          ELSE IF minted THEN /\ keys' = keys + 1
                              /\ salt' = [day |-> began[c], key |-> keys + 1]
                              /\ UNCHANGED trafficFaults
          ELSE Fault /\ salt' = [day |-> began[c], key |-> 0] /\ UNCHANGED keys
       /\ Record([n |-> served + 1, day |-> began[c], life |-> life, id |-> salt'.key])
  /\ served' = served + 1
  /\ began' = [began EXCEPT ![c] = NotServing]
  /\ UNCHANGED <<today, batch, rows, life, exiting>>

\* Flush takes the buffer.  Close does so only when run returns.
TakeRows(w) ==
  /\ batch[w] = {} /\ buffer # {}
  /\ w = "close" => exiting
  /\ batch' = [batch EXCEPT ![w] = buffer]
  /\ buffer' = {}
  /\ UNCHANGED <<today, salt, keys, began, served, rows, gone, life, exiting, trafficFaults>>

\* The batch goes to the table in one transaction, under writeMu; any error
\* rolls it back and the batch is lost.
WriteRows(w) ==
  /\ batch[w] # {}
  /\ \/ rows' = rows \union batch[w] /\ UNCHANGED <<gone, trafficFaults>>
     \/ Fault /\ gone' = gone \union batch[w] /\ UNCHANGED rows
  /\ batch' = [batch EXCEPT ![w] = {}]
  /\ UNCHANGED <<today, salt, keys, began, served, buffer, life, exiting>>

\* day < cutoff.
Expired(row) == row.day < today - RetentionDays

\* Prune, from Run's start and timer, under writeMu.
Prune ==
  /\ \E row \in rows : Expired(row)
  /\ rows' = {row \in rows : ~Expired(row)}
  /\ gone' = gone \union {row \in rows : Expired(row)}
  /\ UNCHANGED <<today, salt, keys, began, served, buffer, batch, life, exiting,
                 trafficFaults>>

\* A signal: the context is cancelled and run returns.
StopTraffic ==
  /\ ~exiting
  /\ Fault
  /\ exiting' = TRUE
  /\ UNCHANGED <<today, salt, keys, began, served, buffer, batch, rows, gone, life>>

\* Close has written its batch and shuts the database: a flush of Run or of a
\* request that still holds a batch fails, what requests record afterwards stays
\* in memory, and the process ends.  Then it is started again.  The exit does not
\* wait for the flush of Close to have begun, which in the code it does: the model
\* also stops where the code would not.
ExitTraffic ==
  /\ exiting
  /\ batch["close"] = {}
  /\ exiting' = FALSE
  /\ life' = life + 1
  /\ gone' = gone \union buffer \union batch["timer"] \union batch["handler"]
  /\ buffer' = {}
  /\ batch' = [w \in Writers |-> {}]
  /\ salt' = NoSalt
  /\ began' = [c \in Connections |-> NotServing]
  /\ UNCHANGED <<today, keys, served, rows, trafficFaults>>

-----------------------------------------------------------------------------
TrafficNext ==
  \/ DayTurns \/ Prune \/ StopTraffic \/ ExitTraffic
  \/ \E c \in Connections : BeginRequest(c) \/ EndRequest(c)
  \/ \E w \in Writers : TakeRows(w) \/ WriteRows(w)

TrafficSpec == TrafficInit /\ [][TrafficNext]_trafficVars
-----------------------------------------------------------------------------
\* The types of the log; its buffer is bounded.
TrafficTypeOK ==
  LET Row == [n : 1..served, day : 0..today, life : 1..life, id : 0..keys]
  IN /\ today \in 0..LastDay
     /\ salt \in [day : NotServing..today, key : 0..keys]
     /\ began \in [Connections -> NotServing..today]
     /\ served \in 0..MaxServed
     /\ buffer \subseteq Row /\ rows \subseteq Row /\ gone \subseteq Row
     /\ batch \in [Writers -> SUBSET Row]
     /\ exiting \in BOOLEAN
     /\ trafficFaults \in 0..MaxTrafficFaults
     /\ Cardinality(buffer) <= BufferLimit

Taken == UNION {batch[w] : w \in Writers}
Logged == buffer \union Taken \union rows \union gone

\* However flushes, prunes and a stop interleave, every request that was served
\* has its row in one place and once: nothing is written twice, and nothing
\* leaves but by a full buffer, a failed write, the horizon or a stop.
TrafficKept ==
  /\ {row.n : row \in Logged} = 1..served
  /\ Cardinality(buffer) + Cardinality(Taken) + Cardinality(rows) + Cardinality(gone)
       = served

\* Ids of two days can not be linked: they were never made with one key
\* (visitor.go: "Across days they do not, and cannot be made to").
SaltUnlinkable ==
  \A x, y \in Logged : x.id = y.id /\ x.id # 0 => x.day = y.day

\* Within a day, the requests of one client get one id (visitor.go: "Within a
\* UTC day two requests from the same client collapse to the same string").
SaltOnePerDay ==
  \A x, y \in Logged :
    x.day = y.day /\ x.life = y.life /\ x.id # 0 /\ y.id # 0 => x.id = y.id
=============================================================================
