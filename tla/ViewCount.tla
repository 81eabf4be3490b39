------------------------------ MODULE ViewCount ------------------------------
(***************************************************************************)
(* The counter of realm page opens (pkg/httpapi/views.go and AddRealmViews *)
(* of pkg/store/views.go): requests add to a buffer, a timer and the       *)
(* requests for /api/views flush it into the table, and the process stops  *)
(* as main.go stops it, without waiting for either.  One bucket, that is   *)
(* one realm on one day, stands for all of them.                           *)
(***************************************************************************)
EXTENDS Integers, FiniteSets

CONSTANTS
  ViewReaders,   \* requests for /api/views
  MaxOpened,     \* bound: page opens
  MaxViewFaults  \* bound: failed writes and stops of the process

ASSUME ViewAssumption == IsFiniteSet(ViewReaders) /\ MaxOpened \in Nat /\ MaxViewFaults \in Nat

Flushers == ViewReaders \union {"timer"}

VARIABLES
  opened,     \* history: page opens that were recorded
  pending,    \* v.buf
  flusher,    \* each flusher: [at, batch, asOf]
  views,      \* the realm_views row
  viewFaults, \* faults so far
  ending,     \* how far the end of the process is, of Endings
  lostViews   \* history: opens lost to a failed write or a stop

viewVars == <<opened, pending, flusher, views, viewFaults, ending, lostViews>>

\* Told to stop, and Run's last flush under way and over.
Endings == {"running", "told", "flushing", "flushed"}

Rest == [at |-> "rest", batch |-> 0, asOf |-> 0]

\* How many opens the flushers hold together: each of a batch is counted.
Held == Cardinality({b \in Flushers \X (1..MaxOpened) : b[2] <= flusher[b[1]].batch})

-----------------------------------------------------------------------------
ViewInit ==
  /\ opened = 0
  /\ pending = 0
  /\ flusher = [f \in Flushers |-> Rest]
  /\ views = 0
  /\ viewFaults = 0
  /\ ending = "running"
  /\ lostViews = 0

\* Record.
RecordView ==
  /\ opened < MaxOpened
  /\ opened' = opened + 1
  /\ pending' = pending + 1
  /\ UNCHANGED <<flusher, views, viewFaults, ending, lostViews>>

\* HandleViews: a request for the count begins.
AskViews(r) ==
  /\ flusher[r].at = "rest"
  /\ ending = "running"
  /\ flusher' = [flusher EXCEPT ![r] = [Rest EXCEPT !.at = "asked", !.asOf = opened]]
  /\ UNCHANGED <<opened, pending, views, viewFaults, ending, lostViews>>

\* Mutant: the buffer is written, and not replaced.
LeftInPlace == pending

\* What is left in the buffer by a flush: it starts over with an empty one.
LeftBehind == 0

\* Who flushes, and when: a request for the count, whatever is in the buffer, and
\* Run, on its timer and, once the context is done, one last time.
Due(f) ==
  \/ /\ f \in ViewReaders /\ flusher[f].at = "asked"
     /\ UNCHANGED ending
  \/ /\ f = "timer" /\ flusher[f].at = "rest" /\ ending # "flushed"
     /\ pending > 0
     /\ UNCHANGED ending
  \/ /\ f = "timer" /\ flusher[f].at = "rest" /\ ending = "told"
     /\ ending' = "flushing"

\* Mutant: HandleViews answers without a flush of its own.
TakeOnTimer(f) ==
  /\ Due(f)
  /\ flusher' = [flusher EXCEPT ![f].at = "write",
                                ![f].batch = IF f = "timer" THEN pending ELSE 0]
  /\ pending' = IF f = "timer" THEN LeftBehind ELSE pending
  /\ UNCHANGED <<opened, views, viewFaults, lostViews>>

\* Flush, under the mutex: the batch is taken.
TakeViews(f) ==
  /\ Due(f)
  /\ flusher' = [flusher EXCEPT ![f].at = "write", ![f].batch = pending]
  /\ pending' = LeftBehind
  /\ UNCHANGED <<opened, views, viewFaults, lostViews>>

AfterFlush(f) ==
  [flusher EXCEPT ![f] = IF f = "timer" THEN Rest ELSE [@ EXCEPT !.at = "read", !.batch = 0]]

\* AddRealmViews, one transaction; an error loses the batch.
WriteViews(f) ==
  /\ flusher[f].at = "write"
  /\ flusher' = AfterFlush(f)
  /\ \/ /\ views' = views + flusher[f].batch
        /\ UNCHANGED <<viewFaults, lostViews>>
     \/ /\ viewFaults < MaxViewFaults /\ flusher[f].batch > 0
        /\ viewFaults' = viewFaults + 1
        /\ lostViews' = lostViews + flusher[f].batch
        /\ UNCHANGED views
  /\ ending' = IF f = "timer" /\ ending = "flushing" THEN "flushed" ELSE ending
  /\ UNCHANGED <<opened, pending>>

\* The table is read, which answers the request.
ReadViews(r) ==
  /\ flusher[r].at = "read"
  /\ flusher' = [flusher EXCEPT ![r] = Rest]
  /\ UNCHANGED <<opened, pending, views, viewFaults, ending, lostViews>>

\* A signal: the context is cancelled, and the listener closes.
StopViews ==
  /\ ending = "running"
  /\ viewFaults < MaxViewFaults
  /\ viewFaults' = viewFaults + 1
  /\ ending' = "told"
  /\ UNCHANGED <<opened, pending, flusher, views, lostViews>>

\* run returns as soon as ListenAndServe does and waits for nobody: the last
\* flush of views.Run may not have begun, and what is held is gone.  The
\* process is started again on the same database.
ExitViews ==
  /\ ending # "running"
  /\ ending' = "running"
  /\ lostViews' = lostViews + pending + Held
  /\ pending' = 0
  /\ flusher' = [f \in Flushers |-> Rest]
  /\ UNCHANGED <<opened, views, viewFaults>>

-----------------------------------------------------------------------------
ViewNext ==
  \/ RecordView \/ StopViews \/ ExitViews
  \/ \E r \in ViewReaders : AskViews(r) \/ ReadViews(r)
  \/ \E f \in Flushers : TakeViews(f) \/ WriteViews(f)

ViewSpec == ViewInit /\ [][ViewNext]_viewVars
-----------------------------------------------------------------------------
\* The types of the counter.
ViewTypeOK ==
  /\ opened \in 0..MaxOpened /\ pending \in 0..MaxOpened
  /\ views \in 0..MaxOpened /\ lostViews \in 0..MaxOpened
  /\ flusher \in [Flushers -> [at : {"rest", "asked", "write", "read"},
                               batch : 0..MaxOpened, asOf : 0..opened]]
  /\ viewFaults \in 0..MaxViewFaults
  /\ ending \in Endings

\* However flushes overlap, every open is counted at most once, none is lost but
\* by a failed write or by the exit of the process (LastFlushMade is about that
\* loss), and an answer of /api/views counts every open recorded before it was
\* asked for, but for what another flush holds at that moment or what was lost.
ViewsAccounted ==
  /\ opened = views + pending + Held + lostViews
  /\ \A r \in ViewReaders :
       flusher[r].at = "read" => flusher[r].asOf <= views + Held + lostViews

\* A deploy drops no count: the process ends with opens in memory only if they
\* came after Run's last flush (views.go: "Run flushes on a timer until ctx is
\* done, then flushes once more. The last flush is the point of the goroutine").
LastFlushMade ==
  [][ending # "running" /\ ending' = "running" /\ lostViews' # lostViews
       => ending = "flushed"]_viewVars
=============================================================================
