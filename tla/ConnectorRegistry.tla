-------------------------- MODULE ConnectorRegistry --------------------------
(***************************************************************************)
(* One application process and its cache of TargetSystem rows:             *)
(* ConnectorRegistry (reload with its coalescing, the version poll) and    *)
(* the admin handlers that change a row and then ask for a reload.  Other  *)
(* processes meet this one only in the database: their changes are         *)
(* ChangeElsewhere.                                                        *)
(*                                                                         *)
(* A row is the number of the change that wrote it, which is also its      *)
(* updatedAt, and whether it is served (enabled and of a known type).  A   *)
(* cached connector is that number, Blueprint for a static connector of    *)
(* the allowlist, or Nothing.                                              *)
(***************************************************************************)
EXTENDS Naturals, FiniteSets

CONSTANTS
    Handler,       \* admin requests this process serves at once
    System,        \* TargetSystem names
    Allowlist,     \* names of static connectors that are served
    MaxChanges,    \* bound: changes of the table in one behaviour
    MaxFailures,   \* bound: failed database queries in one behaviour
    Faults,        \* which queries of a reload may fail: "load", "version"
    Quiet          \* assume no change falls between a load and its version read

ASSUME RegistryAssumption ==
    /\ IsFiniteSet(System) /\ Allowlist \subseteq System
    /\ MaxChanges \in Nat
    /\ MaxFailures \in Nat
    /\ Faults \subseteq {"load", "version"}
    /\ Quiet \in BOOLEAN

VARIABLES
    db,         \* the rows of the table
    changes,    \* changes so far, and the clock of updatedAt
    failures,   \* failed queries so far
    conn,       \* connectors: what the process serves
    last,       \* lastRegistryVersion
    reload,     \* the reload in flight, reloadInFlight
    poll,       \* the refresh timer's callback
    admin       \* the CRUD handlers

vars == <<db, changes, failures, conn, last, reload, poll, admin>>

NoRow     == [change |-> 0, served |-> FALSE]
Row       == [change : 1..MaxChanges, served : BOOLEAN] \cup {NoRow}
Nothing   == 0
Blueprint == MaxChanges + 1

\* A run of reload or of the poll, with what its two version queries returned.
Count   == 0..Cardinality(System)
Stamp   == 0..MaxChanges
Unread  == MaxChanges + Cardinality(System) + 1
Reading == [at : {"idle", "load", "version"},
            count : Count \cup {Unread}, max : Stamp \cup {Unread}]

At(phase) == [at |-> phase, count |-> Unread, max |-> Unread]

TypeOK ==
    /\ db \in [System -> Row]
    /\ changes \in 0..MaxChanges
    /\ failures \in 0..MaxFailures
    /\ conn \in [System -> 0..Blueprint]
    /\ last \in [count : Count, max : Stamp]
    /\ reload \in Reading
    /\ poll \in Reading
    /\ admin \in [Handler -> {"idle", "changed", "awaiting"}]

Rows == {s \in System : db[s] # NoRow}

\* What reloadInternal builds: the allowed static connectors, and over them a
\* proxy for every served row.
Visible ==
    [s \in System |-> CASE db[s].served -> db[s].change
                        [] ~db[s].served /\ s \in Allowlist -> Blueprint
                        [] OTHER -> Nothing]

\* A version that ignores how many rows there are.
CountIgnored == 0

\* The two queries of registryVersion.
CountQuery == Cardinality(Rows)
MaxQuery ==
    IF Rows = {} THEN 0
    ELSE CHOOSE m \in {db[s].change : s \in Rows} :
            \A s \in Rows : db[s].change <= m

\* onModuleInit has loaded an empty table and its version.
Init ==
    /\ db = [s \in System |-> NoRow]
    /\ changes = 0
    /\ failures = 0
    /\ conn = Visible
    /\ last = [count |-> CountQuery, max |-> MaxQuery]
    /\ reload = At("idle")
    /\ poll = At("idle")
    /\ admin = [h \in Handler |-> "idle"]

-----------------------------------------------------------------------------
(* TargetSystemController.                                                 *)

\* service.create, update or delete: one row is written or removed.
WriteRow(s) ==
    /\ changes < MaxChanges
    /\ Quiet => reload.at # "version"
    /\ changes' = changes + 1
    /\ \/ \E served \in BOOLEAN :
            db' = [db EXCEPT ![s] = [change |-> changes + 1, served |-> served]]
       \/ db[s] # NoRow /\ db' = [db EXCEPT ![s] = NoRow]

Change(h, s) ==
    /\ admin[h] = "idle"
    /\ WriteRow(s)
    /\ admin' = [admin EXCEPT ![h] = "changed"]
    /\ UNCHANGED <<failures, conn, last, reload, poll>>

\* The same through another process.
ChangeElsewhere(s) ==
    /\ WriteRow(s)
    /\ UNCHANGED <<failures, conn, last, reload, poll, admin>>

\* reload(): join the reload in flight, or start one.
JoinOrStart ==
    reload' = IF reload.at = "idle" THEN At("load") ELSE reload

\* The handler's await registry.reload().
CallReload(h) ==
    /\ admin[h] = "changed"
    /\ JoinOrStart
    /\ admin' = [admin EXCEPT ![h] = "awaiting"]
    /\ UNCHANGED <<db, changes, failures, conn, last, poll>>

\* The shared promise settled and the handler answers.
Answer(h) ==
    /\ admin[h] = "awaiting"
    /\ reload.at = "idle"
    /\ admin' = [admin EXCEPT ![h] = "idle"]
    /\ UNCHANGED <<db, changes, failures, conn, last, reload, poll>>

-----------------------------------------------------------------------------
(* ConnectorRegistry.                                                      *)

\* reloadInternal: findMany and the swap of the connector map.
Load ==
    /\ reload.at = "load"
    /\ conn' = Visible
    /\ reload' = At("version")
    /\ UNCHANGED <<db, changes, failures, last, poll, admin>>

\* registryVersion: one of its two parallel queries is answered, each from the
\* table as it then is.
ReadVersion(reading, next) ==
    /\ reading.at = "version"
    /\ \/ /\ reading.count = Unread
          /\ next = [reading EXCEPT !.count = CountQuery]
       \/ /\ reading.max = Unread
          /\ next = [reading EXCEPT !.max = MaxQuery]

Complete(reading) ==
    reading.at = "version" /\ reading.count # Unread /\ reading.max # Unread

VersionOf(reading) == [count |-> reading.count, max |-> reading.max]

ReloadReads ==
    /\ \E next \in Reading : ReadVersion(reload, next) /\ reload' = next
    /\ UNCHANGED <<db, changes, failures, conn, last, poll, admin>>

\* A reload that does not await its version queries.
ReloadEndsEarly ==
    /\ reload.at = "version"
    /\ last' = VersionOf(reload)
    /\ reload' = At("idle")
    /\ UNCHANGED <<db, changes, failures, conn, poll, admin>>

\* reloadInternal's last statement, and finally(): the version read after the
\* load becomes lastRegistryVersion and the next reload may start.
ReloadEnds ==
    /\ Complete(reload)
    /\ last' = VersionOf(reload)
    /\ reload' = At("idle")
    /\ UNCHANGED <<db, changes, failures, conn, poll, admin>>

\* A query of the reload throws: finally() clears the flight, a handler that
\* waits answers an error and the poll logs one.
ReloadFails ==
    /\ reload.at \in Faults
    /\ failures < MaxFailures
    /\ failures' = failures + 1
    /\ reload' = At("idle")
    /\ UNCHANGED <<db, changes, conn, last, poll, admin>>

\* The refresh timer fires: reloadIfChanged starts to read the version.
PollStarts ==
    /\ poll.at = "idle"
    /\ poll' = At("version")
    /\ UNCHANGED <<db, changes, failures, conn, last, reload, admin>>

PollReads ==
    /\ \E next \in Reading : ReadVersion(poll, next) /\ poll' = next
    /\ UNCHANGED <<db, changes, failures, conn, last, reload, admin>>

\* A poll that only looks.
PollEndsBlind ==
    /\ Complete(poll)
    /\ poll' = At("idle")
    /\ UNCHANGED <<db, changes, failures, conn, last, reload, admin>>

\* reloadIfChanged: a version that differs from the last one asks for a reload.
PollEnds ==
    /\ Complete(poll)
    /\ IF VersionOf(poll) # last THEN JoinOrStart ELSE UNCHANGED reload
    /\ poll' = At("idle")
    /\ UNCHANGED <<db, changes, failures, conn, last, admin>>

\* The poll's own query throws and is logged.
PollFails ==
    /\ poll.at = "version"
    /\ failures < MaxFailures
    /\ failures' = failures + 1
    /\ poll' = At("idle")
    /\ UNCHANGED <<db, changes, conn, last, reload, admin>>

Next ==
    \/ \E s \in System : ChangeElsewhere(s) \/ \E h \in Handler : Change(h, s)
    \/ \E h \in Handler : CallReload(h) \/ Answer(h)
    \/ Load \/ ReloadReads \/ ReloadEnds \/ ReloadFails
    \/ PollStarts \/ PollReads \/ PollEnds \/ PollFails

Spec == Init /\ [][Next]_vars

\* Queries are answered, continuations run, and the interval timer keeps
\* firing.
Fairness ==
    /\ \A h \in Handler : WF_vars(CallReload(h)) /\ WF_vars(Answer(h))
    /\ WF_vars(Load \/ ReloadReads \/ ReloadEnds)
    /\ WF_vars(PollStarts \/ PollReads \/ PollEnds)

FairSpec == Spec /\ Fairness

-----------------------------------------------------------------------------
(* Properties.                                                             *)

\* The poll can trust its version: a process whose lastRegistryVersion is the
\* version of the table serves exactly the table (the order of load and version
\* read in reloadInternal).
CurrentVersionMeansCurrentRows ==
    last = [count |-> CountQuery, max |-> MaxQuery] => conn = Visible

\* "runtime changes in Admin UI are picked up without restarting the
\* application" (reload): once changes stop, the process ends up serving the
\* table and keeps doing so.
ChangesArePickedUp == <>[](conn = Visible)
=============================================================================
