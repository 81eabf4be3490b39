----------------------------- MODULE UserRegistry -----------------------------
(***************************************************************************)
(* The user registry of one network (pkg/syncer/users.go, pkg/store/       *)
(* users.go).  Every pass asks one replica for all the events r/sys/users  *)
(* has emitted and replays them, oldest first, over whatever is stored.    *)
(* Each event is a statement or two of its own, so a pass can break off    *)
(* anywhere, and the next one may be answered by a replica that knows less.*)
(***************************************************************************)
EXTENDS Integers, SequencesExt, FiniteSetsExt

CONSTANTS
  UserEvents,   \* what the realm emits, in order: at, kind, name, address
  UserLag,      \* how many blocks a replica may trail the chain
  UserHeight,   \* bound: the chain stops growing here
  MaxUserFaults \* bound: failed calls, failed statements and restarts together

\* The realm emits in the order of its blocks, and never gives a name that was
\* once taken to another address (schema.go: "r/sys/users never frees a name").
ASSUME UserAssumption ==
  /\ UserEvents \in Seq(Range(UserEvents))
  /\ \A i \in 1..Len(UserEvents) :
       /\ UserEvents[i].at \in 0..UserHeight
       /\ UserEvents[i].kind \in {"Registered", "Updated", "Deleted"}
  /\ \A i, j \in 1..Len(UserEvents) :
       /\ i < j => UserEvents[i].at <= UserEvents[j].at
       /\ UserEvents[i].kind # "Deleted" /\ UserEvents[j].kind # "Deleted"
             /\ UserEvents[i].name = UserEvents[j].name
          => UserEvents[i].address = UserEvents[j].address
  /\ UserLag \in Nat /\ UserHeight \in Nat /\ MaxUserFaults \in Nat

VARIABLES
  userTip,    \* height of the chain
  userSlow,   \* height of the slowest replica
  userFaults, \* faults so far
  users,      \* durable: name to its address, alias flag and tombstone
  userStep,   \* "ask", "event", or "demote" between its two statements
  log,        \* the events left to replay
  asOf,       \* history: the height the log was read at, -1 once a statement failed
  shown       \* history: asOf of the last replay that went through, or -1

userVars == <<userTip, userSlow, userFaults, users, userStep, log, asOf, shown>>

NamesOf(a) == {n \in DOMAIN users : users[n].address = a}

\* How many events the realm has emitted up to height t.
Emitted(t) == Cardinality({i \in DOMAIN UserEvents : UserEvents[i].at <= t})

-----------------------------------------------------------------------------
UserInit ==
  /\ userTip \in 0..UserHeight
  /\ userSlow \in 0..userTip
  /\ userTip - userSlow <= UserLag
  /\ userFaults = 0
  /\ users = <<>>
  /\ userStep = "ask"
  /\ log = <<>>
  /\ asOf = 0
  /\ shown = -1

UserGrow ==
  /\ userTip < UserHeight
  /\ userTip + 1 - userSlow <= UserLag
  /\ userTip' = userTip + 1
  /\ UNCHANGED <<userSlow, userFaults, users, userStep, log, asOf, shown>>

UserCatchUp ==
  /\ userSlow < userTip
  /\ userSlow' = userSlow + 1
  /\ UNCHANGED <<userTip, userFaults, users, userStep, log, asOf, shown>>

\* Mutant: in the order of the answer, newest first.
AnswerOrder(es) == Reverse(es)

\* The answer comes newest first and is turned around.
ReplayOrder(es) == es

AskRegistry ==
  /\ userStep = "ask"
  /\ \E t \in userSlow..userTip :
       /\ asOf' = t
       /\ log' = ReplayOrder(SubSeq(UserEvents, 1, Emitted(t)))
  /\ userStep' = "event"
  /\ shown' = -1
  /\ UNCHANGED <<userTip, userSlow, userFaults, users>>

\* UpsertUser replaces the row by that of a current name.
Upserted(e) ==
  [n \in DOMAIN users \union {e.name} |->
     IF n = e.name THEN [address |-> e.address, alias |-> FALSE, deleted |-> FALSE]
     ELSE users[n]]

\* MarkUserDeleted tombstones all names of the address.
Tombstoned(a) ==
  [n \in DOMAIN users |-> IF n \in NamesOf(a) THEN [users[n] EXCEPT !.deleted = TRUE]
                         ELSE users[n]]

\* DemoteUserAliases: the other names of the address are aliases from now on.
Demoted(a, name) ==
  [n \in DOMAIN users |-> IF n \in NamesOf(a) \ {name}
                         THEN [users[n] EXCEPT !.alias = TRUE]
                         ELSE users[n]]

ReplayEvent ==
  /\ userStep = "event" /\ log # <<>>
  /\ LET e == Head(log)
     IN  \/ /\ e.kind = "Deleted"
            /\ users' = Tombstoned(e.address)
            /\ log' = Tail(log)
            /\ UNCHANGED userStep
         \/ /\ e.kind # "Deleted"
            /\ users' = Upserted(e)
            /\ userStep' = "demote"
            /\ UNCHANGED log
  /\ UNCHANGED <<userTip, userSlow, userFaults, asOf, shown>>

Demote ==
  /\ userStep = "demote"
  /\ users' = Demoted(Head(log).address, Head(log).name)
  /\ log' = Tail(log)
  /\ userStep' = "event"
  /\ UNCHANGED <<userTip, userSlow, userFaults, asOf, shown>>

Replayed ==
  /\ userStep = "event" /\ log = <<>>
  /\ userStep' = "ask"
  /\ shown' = asOf
  /\ UNCHANGED <<userTip, userSlow, userFaults, users, log, asOf>>

\* ---- Failures ----

\* The query fails, or the process stops: the replay ends where it is.
ReplayEnds ==
  /\ userFaults < MaxUserFaults
  /\ userFaults' = userFaults + 1
  /\ userStep' = "ask"
  /\ log' = <<>>
  /\ UNCHANGED <<userTip, userSlow, users, asOf, shown>>

\* A statement fails: it is logged, and the replay goes on with the next event.
StatementFails ==
  /\ userStep = "demote" \/ (userStep = "event" /\ log # <<>>)
  /\ userFaults < MaxUserFaults
  /\ userFaults' = userFaults + 1
  /\ userStep' = "event"
  /\ log' = Tail(log)
  /\ asOf' = -1
  /\ UNCHANGED <<userTip, userSlow, users, shown>>

-----------------------------------------------------------------------------
UserPass == AskRegistry \/ ReplayEvent \/ Demote \/ Replayed

UserNext == UserGrow \/ UserCatchUp \/ UserPass \/ ReplayEnds \/ StatementFails

UserSafety == UserInit /\ [][UserNext]_userVars

\* A pass every 30 seconds, every call returns, replicas keep replaying.
UserSpec == UserSafety /\ WF_userVars(UserPass) /\ WF_userVars(UserCatchUp)
-----------------------------------------------------------------------------
(***************************************************************************)
(* Properties.                                                             *)
(***************************************************************************)
UserTypeOK ==
  /\ userTip \in 0..UserHeight /\ userSlow \in 0..userTip
  /\ userFaults \in 0..MaxUserFaults
  /\ \A n \in DOMAIN users :
       /\ users[n] \in [address : {e.address : e \in Range(UserEvents)},
                       alias : BOOLEAN, deleted : BOOLEAN]
       /\ \E e \in Range(UserEvents) :
            e.kind # "Deleted" /\ e.name = n /\ e.address = users[n].address
  /\ userStep \in {"ask", "event", "demote"}
  /\ asOf \in -1..userTip /\ shown \in -1..userTip
  /\ log \in Seq(Range(UserEvents)) /\ Len(log) <= Len(UserEvents)

\* The registry's own answer at height h: the name of the last event of a, and
\* none when that event deleted the user.
EventsOf(a, h) ==
  {i \in DOMAIN UserEvents : UserEvents[i].address = a /\ UserEvents[i].at <= h}
CurrentName(a, h) ==
  LET e == UserEvents[Max(EventsOf(a, h))]
  IN  IF e.kind = "Deleted" THEN {} ELSE {e.name}

\* After a replay that went through, the one current name of every address is
\* what the registry said at the height of the answer, whatever newer, older,
\* partial or deleted rows the replay started from. It went through when every
\* statement of it did.
UsersMatch ==
  shown >= 0 =>
    \A i \in DOMAIN UserEvents :
      LET a == UserEvents[i].address
      IN  UserEvents[i].at <= shown =>
            {n \in NamesOf(a) : ~users[n].alias /\ ~users[n].deleted} = CurrentName(a, shown)

\* What the registry comes to: it is the realm's at the height of the chain.
UsersCaughtUp == shown = userTip
=============================================================================
