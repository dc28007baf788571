--------------------------- MODULE WebhookPipeline ---------------------------
(***************************************************************************)
(* One inbound webhook of Avanpost IDM, from the idempotency key to the    *)
(* answer, in the synchronous processing mode (IDMMW_PROCESSING_MODE=sync):*)
(*                                                                         *)
(*   WebhookService.processWebhook -> IdempotencyService.checkAndLock      *)
(*     -> DispatcherService.dispatch -> ProcessingService.process          *)
(*     -> connector, DlqService.add, KafkaProducerService.send             *)
(*                                                                         *)
(* A Request is one HTTP call; IDM repeats a call with the same event when *)
(* it got an error or no answer.  Every await of the code that another     *)
(* call, the clock or a failure can overtake is a step of its own.  The    *)
(* attempts RetryService makes within one execution are module RetryPolicy;*)
(* here an execution is its final outcome.                                 *)
(***************************************************************************)
EXTENDS Integers

CONSTANTS
    Request,        \* HTTP calls
    Event,          \* idempotency keys, avanpost:<targetSystem>:<eventId>
    EventOf,        \* the key each call carries
    ReadRequest,    \* calls whose operation is in AVANPOST_READ_OPERATIONS
    NativeRead,     \* read calls a connector's own getSchema / sync answers
    Store,          \* "redis", "readCommitted" or "serializable"
    KafkaEnabled,   \* KAFKA_ENABLED: statuses are mirrored to events.out
    TTL,            \* lifetime of an idempotency key, in clock ticks
    Faults          \* which of the calls below may fail in this instance

\* "timeout": an execution reported as failed may have reached the target.
FaultKinds == {"store", "dlq", "metrics", "kafka", "crash", "timeout"}

ASSUME RequestAssumption ==
    /\ EventOf \in [Request -> Event]
    /\ NativeRead \subseteq ReadRequest
    /\ ReadRequest \subseteq Request
ASSUME ModeAssumption ==
    /\ Store \in {"redis", "readCommitted", "serializable"}
    /\ KafkaEnabled \in BOOLEAN
    /\ Faults \subseteq FaultKinds
ASSUME TTLAssumption == TTL \in Nat \ {0}

VARIABLES
    pc,       \* where each call is
    err,      \* the error a call is propagating: its durableAccepted flag
    lock,     \* ticks each key still has to live; 0 when absent or expired
    effect,   \* the lasting effect of a call
    lapsed    \* history: keys that ran out by TTL rather than by release

vars == <<pc, err, lock, effect, lapsed>>

Locking  == {"idle", "upsert"}
InFlight == {"execute", "dlqCreate", "dlqMetrics", "statusSuccess",
             "statusFailed", "caught"}
Answered == {"processed", "duplicate", "readFalse", "failed", "crashed"}

\* The effects the middleware knows of; "unreported" is a write that reached
\* the target though the connector's call failed.
Settled == {"applied", "dlq"}

TypeOK ==
    /\ pc \in [Request -> Locking \cup InFlight \cup Answered]
    /\ err \in [Request -> {"none", "durable", "volatile"}]
    /\ lock \in [Event -> 0..TTL]
    /\ effect \in [Request -> {"none", "applied", "dlq", "unreported"}]
    /\ lapsed \in SUBSET Event

Init ==
    /\ pc = [r \in Request |-> "idle"]
    /\ err = [r \in Request |-> "none"]
    /\ lock = [e \in Event |-> 0]
    /\ effect = [r \in Request |-> "none"]
    /\ lapsed = {}

Goto(r, label) == pc' = [pc EXCEPT ![r] = label]

-----------------------------------------------------------------------------
(* The idempotency store.  An expired row and no row are the same to every *)
(* reader, so lock[e] = 0 stands for both.                                  *)

TakeKey(r) ==
    /\ lock' = [lock EXCEPT ![EventOf[r]] = TTL]
    /\ Goto(r, "execute")
    /\ UNCHANGED <<err, effect, lapsed>>

AnswerDuplicate(r) ==
    /\ Goto(r, "duplicate")
    /\ UNCHANGED <<err, lock, effect, lapsed>>

\* A set-if-absent whose reply is read the wrong way round.
SetNxInverted(r) ==
    /\ pc[r] = "idle" /\ Store = "redis"
    /\ IF lock[EventOf[r]] > 0 THEN TakeKey(r) ELSE AnswerDuplicate(r)

\* A SET without NX: the key is taken whoever holds it.
SetNxBlind(r) == pc[r] = "idle" /\ Store = "redis" /\ TakeKey(r)

\* Redis: SET key 1 EX ttl NX, one atomic command.
SetNx(r) ==
    /\ pc[r] = "idle" /\ Store = "redis"
    /\ IF lock[EventOf[r]] = 0 THEN TakeKey(r) ELSE AnswerDuplicate(r)

\* SQL: the findUnique of the setIfNotExists transaction.
TxFind(r) ==
    /\ pc[r] = "idle" /\ Store # "redis"
    /\ IF lock[EventOf[r]] > 0
       THEN AnswerDuplicate(r)
       ELSE Goto(r, "upsert") /\ UNCHANGED <<err, lock, effect, lapsed>>

\* A serializable transaction that forgets what it read.
TxUpsertBlind(r) == pc[r] = "upsert" /\ TakeKey(r)

\* SQL: the upsert.  Under READ COMMITTED it overwrites whatever another
\* transaction committed since TxFind (INSERT ... ON CONFLICT DO UPDATE); a
\* serializable database aborts it, and setIfNotExists answers false.
TxUpsert(r) ==
    /\ pc[r] = "upsert"
    /\ IF Store = "serializable" /\ lock[EventOf[r]] > 0
       THEN AnswerDuplicate(r)
       ELSE TakeKey(r)

\* The store fails, before or after it applied the write it was asked for.
\* Redis throws out of checkAndLock; the SQL store catches every error and
\* answers false.
StoreFails(r) ==
    /\ "store" \in Faults
    /\ pc[r] \in Locking
    /\ \/ UNCHANGED lock
       \/ /\ lock[EventOf[r]] = 0
          /\ Store = "redis" \/ pc[r] = "upsert"
          /\ lock' = [lock EXCEPT ![EventOf[r]] = TTL]
    /\ Goto(r, IF Store = "redis" THEN "failed" ELSE "duplicate")
    /\ UNCHANGED <<err, effect, lapsed>>

-----------------------------------------------------------------------------
(* Processing.                                                             *)

\* The end of dispatch's catch block is reached through the "failed" status
\* when Kafka is on.
Fail(r, durability) ==
    /\ err' = [err EXCEPT ![r] = durability]
    /\ Goto(r, IF KafkaEnabled THEN "statusFailed" ELSE "caught")

\* ProcessingService.process, the connector answered success.
ExecuteOk(r) ==
    /\ pc[r] = "execute" /\ r \notin ReadRequest
    /\ effect' = [effect EXCEPT ![r] = "applied"]
    /\ Goto(r, IF KafkaEnabled THEN "statusSuccess" ELSE "processed")
    /\ UNCHANGED <<err, lock, lapsed>>

\* No connector, retries exhausted, or a result with success = false.  A
\* connector's call that timed out may have reached the target all the same.
ExecuteFails(r) ==
    /\ pc[r] = "execute" /\ r \notin ReadRequest
    /\ \/ UNCHANGED effect
       \/ "timeout" \in Faults /\ effect' = [effect EXCEPT ![r] = "unreported"]
    /\ Goto(r, "dlqCreate")
    /\ UNCHANGED <<err, lock, lapsed>>

\* DlqService.add, the insert.  Losing it makes the failure not durable.
DlqCreate(r) ==
    /\ pc[r] = "dlqCreate"
    /\ \/ /\ effect' = [effect EXCEPT ![r] = "dlq"]
          /\ Goto(r, "dlqMetrics")
          /\ UNCHANGED err
       \/ /\ "dlq" \in Faults
          /\ Fail(r, "volatile")
          /\ UNCHANGED effect
    /\ UNCHANGED <<lock, lapsed>>

\* A process that throws the same error whether or not the item was stored.
DlqMetricsVolatile(r) ==
    /\ pc[r] = "dlqMetrics"
    /\ Fail(r, "volatile")
    /\ UNCHANGED <<lock, effect, lapsed>>

\* DlqService.add, its trailing updateMetrics query: when that query throws,
\* process reports a failure before durable acceptance, the row notwithstanding.
DlqMetrics(r) ==
    /\ pc[r] = "dlqMetrics"
    /\ \/ Fail(r, "durable")
       \/ "metrics" \in Faults /\ Fail(r, "volatile")
    /\ UNCHANGED <<lock, effect, lapsed>>

\* DispatcherService.dispatch: the success status.  Its failure is caught by
\* the same try as the execution and takes the failure path.
StatusSuccess(r) ==
    /\ pc[r] = "statusSuccess"
    /\ \/ Goto(r, "processed") /\ UNCHANGED err
       \/ "kafka" \in Faults /\ Fail(r, "volatile")
    /\ UNCHANGED <<lock, effect, lapsed>>

\* A failed status that is sent until the topic takes it.
StatusFailedInsists(r) ==
    /\ pc[r] = "statusFailed" /\ "kafka" \notin Faults
    /\ Goto(r, "caught")
    /\ UNCHANGED <<err, lock, effect, lapsed>>

\* DispatcherService.dispatch: the failed status, sent from the catch block.
\* When it throws, its error replaces the one being handled.
StatusFailed(r) ==
    /\ pc[r] = "statusFailed"
    /\ \/ UNCHANGED err
       \/ "kafka" \in Faults /\ err' = [err EXCEPT ![r] = "volatile"]
    /\ Goto(r, "caught")
    /\ UNCHANGED <<lock, effect, lapsed>>

\* ProcessingService.processWithResult.  execute results are checked, the
\* results of getSchema and sync are returned whatever they say.
Read(r) ==
    /\ pc[r] = "execute" /\ r \in ReadRequest
    /\ \/ Goto(r, "processed") /\ UNCHANGED err
       \/ /\ r \in NativeRead
          /\ Goto(r, "readFalse")
          /\ UNCHANGED err
       \/ /\ err' = [err EXCEPT ![r] = "volatile"]
          /\ Goto(r, "caught")
    /\ UNCHANGED <<lock, effect, lapsed>>

\* A catch block that keeps the key whatever the error.
CatchKeep(r) ==
    /\ pc[r] = "caught"
    /\ Goto(r, "failed")
    /\ UNCHANGED <<err, lock, effect, lapsed>>

\* The catch block of processWebhook: the key of an event that is not durably
\* accepted is released, by deleting it whoever holds it now.  The SQL store
\* swallows a failed delete, the Redis one throws a new error.
Catch(r) ==
    /\ pc[r] = "caught"
    /\ \/ err[r] = "durable" /\ UNCHANGED lock
       \/ err[r] # "durable" /\ lock' = [lock EXCEPT ![EventOf[r]] = 0]
       \/ err[r] # "durable" /\ "store" \in Faults /\ UNCHANGED lock
    /\ Goto(r, "failed")
    /\ UNCHANGED <<err, effect, lapsed>>

\* The process serving the call dies.
Crash(r) ==
    /\ "crash" \in Faults
    /\ pc[r] \in InFlight \cup {"upsert"}
    /\ Goto(r, "crashed")
    /\ UNCHANGED <<err, lock, effect, lapsed>>

-----------------------------------------------------------------------------

\* A countdown that does not stop at an expired key.
TickPastZero ==
    /\ \E e \in Event : lock[e] > 0
    /\ lock' = [e \in Event |-> lock[e] - 1]
    /\ UNCHANGED <<pc, err, effect, lapsed>>

\* Time passes: EX in Redis, expiresAt > now in the SQL store.
Tick ==
    /\ \E e \in Event : lock[e] > 0
    /\ lock' = [e \in Event |-> IF lock[e] = 0 THEN 0 ELSE lock[e] - 1]
    /\ lapsed' = lapsed \cup {e \in Event : lock[e] = 1}
    /\ UNCHANGED <<pc, err, effect>>

Step(r) ==
    \/ SetNx(r) \/ TxFind(r) \/ TxUpsert(r) \/ StoreFails(r)
    \/ ExecuteOk(r) \/ ExecuteFails(r) \/ Read(r)
    \/ DlqCreate(r) \/ DlqMetrics(r)
    \/ StatusSuccess(r) \/ StatusFailed(r) \/ Catch(r)

Next == Tick \/ \E r \in Request : Step(r) \/ Crash(r)

Spec == Init /\ [][Next]_vars

\* The event loop runs every continuation.  Nothing is assumed of the clock: a
\* key's TTL may outlast any behaviour looked at.
Fairness == \A r \in Request : WF_vars(Step(r))

FairSpec == Spec /\ Fairness

-----------------------------------------------------------------------------
(* Properties.                                                             *)

\* A write that reached the target of which nothing is left to tell: the
\* connector's call failed, the DLQ insert was lost, and the key was released.
Untraced(r) == effect[r] = "unreported" /\ pc[r] = "failed"

\* One event, one effect: of the calls that carry one key at most one reaches
\* the target or is stored in the DLQ, unless the key ran out by TTL in between
\* or one of the two is a write no trace is left of (checkAndLock / release of
\* processWebhook).
OneEffect ==
    \A r1, r2 \in Request :
        /\ r1 # r2
        /\ EventOf[r1] = EventOf[r2]
        /\ effect[r1] # "none" /\ effect[r2] # "none"
        /\ ~Untraced(r1) /\ ~Untraced(r2)
        => EventOf[r1] \in lapsed

\* No event is blocked and lost: while a key is held, some call that carries it
\* is still running, has applied it, has stored it in the DLQ, has answered a
\* read, or died (the release decision in the catch block of processWebhook).
HeldKeyIsAccounted ==
    \A e \in Event :
        lock[e] > 0 =>
            \E r \in Request :
                /\ EventOf[r] = e
                /\ \/ pc[r] \in InFlight \cup {"crashed"}
                   \/ effect[r] \in Settled
                   \/ r \in ReadRequest /\ pc[r] \in {"processed", "readFalse"}

\* processed=false is told to IDM only of an event another call has taken
\* (checkAndLock answering false means "seen before").
DuplicateWasSeen ==
    \A r \in Request :
        pc[r] = "duplicate" =>
            \E r2 \in Request \ {r} :
                /\ EventOf[r2] = EventOf[r]
                /\ pc[r2] \in InFlight \cup (Answered \ {"duplicate"})

\* Whatever fails on the way, a call that took a key is answered, and at its
\* answer the event is settled (a write applied or in the DLQ, a read answered)
\* or the key is free for the repetition, without any help of the TTL; the only
\* other way out is the death of the process (every path of dispatch and of the
\* catch block of processWebhook).
TakenIsSettledOrFreed ==
    \A r \in Request :
        pc[r] \in InFlight ~>
            /\ pc[r] \in Answered
            /\ \/ pc[r] = "crashed"
               \/ lock[EventOf[r]] = 0
               \/ IF r \in ReadRequest THEN pc[r] \in {"processed", "readFalse"}
                                      ELSE effect[r] \in Settled

\* "the second call returns processed=false and the Dispatcher is never
\* invoked" (WebhookService): two calls of one event are never both dispatched
\* while its key is alive.
DispatchedOnce ==
    \A r1, r2 \in Request :
        /\ r1 # r2
        /\ EventOf[r1] = EventOf[r2]
        /\ pc[r1] \in InFlight /\ pc[r2] \in InFlight
        => EventOf[r1] \in lapsed
=============================================================================
