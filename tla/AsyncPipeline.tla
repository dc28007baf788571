---------------------------- MODULE AsyncPipeline ----------------------------
(***************************************************************************)
(* A write webhook in the asynchronous mode (IDMMW_PROCESSING_MODE=async): *)
(* WebhookService and DispatcherService put the event on events.in and     *)
(* answer processed=true; KafkaConsumerService.eachMessage of some worker  *)
(* takes it and runs ProcessingService.process.                            *)
(*                                                                         *)
(* A call leaves one record on the topic, or two when the producer, which  *)
(* is not an idempotent one, repeated a send that had arrived.  Each       *)
(* partition has at most one worker, which takes its records one by one.   *)
(* The idempotency store is an atomic one; the others are in               *)
(* WebhookPipeline.  Statuses on events.out change nothing here: their     *)
(* failure is swallowed.                                                   *)
(***************************************************************************)
EXTENDS Naturals

CONSTANTS
    Request,      \* HTTP calls
    Event,        \* idempotency keys
    EventOf,      \* the key each call carries
    Resent,       \* calls whose send the producer may repeat by itself
    Partition,    \* partitions of events.in
    PartitionOf,  \* where the broker's client puts each record
    TTL,          \* lifetime of an idempotency key, in clock ticks
    MaxDeaths,    \* bound: deaths of workers and rebalances in one behaviour
    Faults        \* which calls may fail

\* A record of a call: <<r, 1>> the one it asked for, <<r, 2>> a second copy.
Record == (Request \X {1}) \cup (Resent \X {2})

ASSUME RequestAssumption ==
    /\ EventOf \in [Request -> Event]
    /\ Resent \subseteq Request
    /\ PartitionOf \in [Record -> Partition]
ASSUME BoundAssumption ==
    /\ TTL \in Nat \ {0}
    /\ MaxDeaths \in Nat
    /\ Faults \subseteq {"enqueue", "decode", "dlq"}

VARIABLES
    call,       \* where each call is
    lock,       \* ticks each key still has to live; 0 when absent or expired
    lapsed,     \* history: keys that ran out by TTL rather than by release
    msg,        \* where each record is
    up,         \* partitions assigned to a live worker
    committed,  \* partitions the group has committed an offset of
    lost,       \* history: records given up without an effect
    effects,    \* history: times a record was settled, see Took
    deaths      \* workers that died so far

vars == <<call, lock, lapsed, msg, up, committed, lost, effects, deaths>>
group == <<up, committed>>

\* A record between its delivery and the commit of its offset.
Running == {"execute", "dlqCreate", "dlqMetrics"}
Busy == Running \cup {"commit"}

TypeOK ==
    /\ call \in [Request -> {"idle", "enqueue", "caught", "processed",
                             "duplicate", "failed"}]
    /\ lock \in [Event -> 0..TTL]
    /\ lapsed \in SUBSET Event
    /\ msg \in [Record -> {"none", "queued", "done"} \cup Busy]
    /\ up \in SUBSET Partition
    /\ committed \in SUBSET Partition
    /\ lost \in SUBSET Record
    /\ effects \in [Record -> Nat]
    /\ deaths \in 0..MaxDeaths

Init ==
    /\ call = [r \in Request |-> "idle"]
    /\ lock = [e \in Event |-> 0]
    /\ lapsed = {}
    /\ msg = [m \in Record |-> "none"]
    /\ up = {}
    /\ committed = {}
    /\ lost = {}
    /\ effects = [m \in Record |-> 0]
    /\ deaths = 0

-----------------------------------------------------------------------------
(* The webhook.                                                            *)

\* A check that does not lock.
AcceptUnlocked(r) ==
    /\ call[r] = "idle"
    /\ call' = [call EXCEPT ![r] = IF lock[EventOf[r]] = 0 THEN "enqueue"
                                   ELSE "duplicate"]
    /\ UNCHANGED <<lock, lapsed, msg, group, lost, effects, deaths>>

\* A duplicate that prolongs the key it meets.
AcceptProlongs(r) ==
    /\ call[r] = "idle"
    /\ lock' = [lock EXCEPT ![EventOf[r]] = @ + TTL]
    /\ call' = [call EXCEPT ![r] = IF lock[EventOf[r]] = 0 THEN "enqueue"
                                   ELSE "duplicate"]
    /\ UNCHANGED <<lapsed, msg, group, lost, effects, deaths>>

\* checkAndLock.
Accept(r) ==
    /\ call[r] = "idle"
    /\ \/ /\ lock[EventOf[r]] = 0
          /\ lock' = [lock EXCEPT ![EventOf[r]] = TTL]
          /\ call' = [call EXCEPT ![r] = "enqueue"]
       \/ /\ lock[EventOf[r]] > 0
          /\ call' = [call EXCEPT ![r] = "duplicate"]
          /\ UNCHANGED lock
    /\ UNCHANGED <<lapsed, msg, group, lost, effects, deaths>>

\* What one send may append: the producer repeats by itself a request whose
\* answer was lost.
Records(r) ==
    {{<<r, 1>>}} \cup {{<<r, 1>>, <<q, 2>>} : q \in Resent \cap {r}}

Append(ms) ==
    msg' = [m \in Record |-> IF m \in ms THEN "queued" ELSE msg[m]]

\* dispatch in async mode: the send to events.in.  A send that throws may have
\* reached the broker.
Enqueue(r) ==
    /\ call[r] = "enqueue"
    /\ \/ /\ \E ms \in Records(r) : Append(ms)
          /\ call' = [call EXCEPT ![r] = "processed"]
       \/ /\ "enqueue" \in Faults
          /\ \E ms \in Records(r) \cup {{}} : Append(ms)
          /\ call' = [call EXCEPT ![r] = "caught"]
    /\ UNCHANGED <<lock, lapsed, group, lost, effects, deaths>>

\* The catch block of processWebhook: a send error is not durably accepted.
Release(r) ==
    /\ call[r] = "caught"
    /\ lock' = [lock EXCEPT ![EventOf[r]] = 0]
    /\ call' = [call EXCEPT ![r] = "failed"]
    /\ UNCHANGED <<lapsed, msg, group, lost, effects, deaths>>

\* Time passes for the keys.
Tick ==
    /\ \E e \in Event : lock[e] > 0
    /\ lock' = [e \in Event |-> IF lock[e] = 0 THEN 0 ELSE lock[e] - 1]
    /\ lapsed' = lapsed \cup {e \in Event : lock[e] = 1}
    /\ UNCHANGED <<call, msg, group, lost, effects, deaths>>

-----------------------------------------------------------------------------
(* The worker.  eachMessage never throws: every path ends in a commit.     *)

Of(p) == {m \in Record : PartitionOf[m] = p}

Move(m, to) == msg' = [msg EXCEPT ![m] = to]

\* The middleware settled the record: it was told it is applied, or the DLQ
\* holds it.
Took(m) == effects' = [effects EXCEPT ![m] = @ + 1]

\* A worker is assigned the partition (start, rebalance).  It resumes at the
\* committed offset; without one fromBeginning: false puts it at the end, past
\* whatever is there.
Join(p) ==
    /\ p \notin up
    /\ up' = up \cup {p}
    /\ LET skipped == {m \in Of(p) : p \notin committed /\ msg[m] = "queued"}
       IN  /\ msg' = [m \in Record |-> IF m \in skipped THEN "done" ELSE msg[m]]
           /\ lost' = lost \cup {m \in skipped : effects[m] = 0}
    /\ UNCHANGED <<call, lock, lapsed, committed, effects, deaths>>

\* eachMessage is called.  A record that cannot be decoded (no key for it in
\* the ring, not JSON) lands in the catch-all and is done with.
Take(m) ==
    /\ msg[m] = "queued" /\ PartitionOf[m] \in up
    /\ \A n \in Of(PartitionOf[m]) : msg[n] \notin Running
    /\ \/ Move(m, "execute") /\ UNCHANGED lost
       \/ /\ "decode" \in Faults
          /\ lost' = lost \cup {m}
          /\ Move(m, "commit")
    /\ UNCHANGED <<call, lock, lapsed, group, effects, deaths>>

\* ProcessingService.process: the connector's final answer.
Execute(m) ==
    /\ msg[m] = "execute"
    /\ \/ Took(m) /\ Move(m, "commit")
       \/ Move(m, "dlqCreate") /\ UNCHANGED effects
    /\ UNCHANGED <<call, lock, lapsed, group, lost, deaths>>

\* DlqService.add, the insert.  The catch-all of eachMessage takes a failed
\* insert for an ordinary failure.
DlqCreate(m) ==
    /\ msg[m] = "dlqCreate"
    /\ \/ Took(m) /\ Move(m, "dlqMetrics") /\ UNCHANGED lost
       \/ /\ "dlq" \in Faults
          /\ lost' = lost \cup {m}
          /\ Move(m, "commit")
          /\ UNCHANGED effects
    /\ UNCHANGED <<call, lock, lapsed, group, deaths>>

\* A worker that handles a failed gauge query by processing the message again.
DlqMetricsAgain(m) ==
    /\ msg[m] = "dlqMetrics"
    /\ Move(m, "execute")
    /\ UNCHANGED <<call, lock, lapsed, group, lost, effects, deaths>>

\* DlqService.add, its gauge query, failing or not.
DlqMetrics(m) ==
    /\ msg[m] = "dlqMetrics"
    /\ Move(m, "commit")
    /\ UNCHANGED <<call, lock, lapsed, group, lost, effects, deaths>>

\* The consumer commits the offset behind the records eachMessage resolved.
Commit(p) ==
    /\ p \in up
    /\ \E m \in Of(p) : msg[m] = "commit"
    /\ msg' = [m \in Record |-> IF m \in Of(p) /\ msg[m] = "commit"
                               THEN "done" ELSE msg[m]]
    /\ committed' = committed \cup {p}
    /\ UNCHANGED <<call, lock, lapsed, up, lost, effects, deaths>>

\* A worker that commits before it processes.
WorkerDiesLosing(p) ==
    /\ deaths < MaxDeaths /\ p \in up
    /\ deaths' = deaths + 1
    /\ up' = up \ {p}
    /\ msg' = [m \in Record |-> IF m \in Of(p) /\ msg[m] \in Busy
                               THEN "done" ELSE msg[m]]
    /\ UNCHANGED <<call, lock, lapsed, committed, lost, effects>>

\* The worker dies or loses the partition: what it had not committed is on the
\* topic again, for the next worker that joins.
WorkerDies(p) ==
    /\ deaths < MaxDeaths /\ p \in up
    /\ deaths' = deaths + 1
    /\ up' = up \ {p}
    /\ msg' = [m \in Record |-> IF m \in Of(p) /\ msg[m] \in Busy
                               THEN "queued" ELSE msg[m]]
    /\ UNCHANGED <<call, lock, lapsed, committed, lost, effects>>

Serve(r) == Accept(r) \/ Enqueue(r) \/ Release(r)

Work(m) == Take(m) \/ Execute(m) \/ DlqCreate(m) \/ DlqMetrics(m)

Next ==
    \/ Tick
    \/ \E r \in Request : Serve(r)
    \/ \E m \in Record : Work(m)
    \/ \E p \in Partition : Join(p) \/ Commit(p) \/ WorkerDies(p)

Spec == Init /\ [][Next]_vars

\* Continuations run, and the group gives every partition to a live worker.
FairSpec ==
    /\ Spec
    /\ \A r \in Request : WF_vars(Serve(r))
    /\ \A m \in Record : WF_vars(Work(m))
    /\ \A p \in Partition : WF_vars(Join(p)) /\ WF_vars(Commit(p))

-----------------------------------------------------------------------------
(* Properties.                                                             *)

\* An event IDM was told is processed ends applied or in the DLQ, through the
\* deaths of workers, unless it is one of the records the worker gives up: it
\* could not be decoded, the DLQ refused it, or a worker joined behind it
\* before the group's first commit (dispatch answers before the worker has done
\* anything; eachMessage resolves whatever process throws).
ProcessedIsSettled ==
    \A r \in Request :
        call[r] = "processed" ~> effects[<<r, 1>>] > 0 \/ <<r, 1>> \in lost

\* A record takes effect more than once only by redelivery, once for each
\* worker lost (eachMessage runs process with no idempotency check).
RepeatsNeedDeaths == \A m \in Record : effects[m] <= 1 + deaths

\* The call has a record on the topic.
Sent(r) == \E m \in Record : m[1] = r /\ msg[m] # "none"

\* Two calls of one event are both on the topic only when the key ran out in
\* between or one of the two sends was reported failed (checkAndLock / release).
OneMessagePerEvent ==
    \A r1, r2 \in Request :
        /\ r1 # r2
        /\ EventOf[r1] = EventOf[r2]
        /\ Sent(r1) /\ Sent(r2)
        => \/ EventOf[r1] \in lapsed
           \/ call[r1] \in {"caught", "failed"}
           \/ call[r2] \in {"caught", "failed"}
=============================================================================
