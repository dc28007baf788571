# idmMw in TLA+

idmMw is a NestJS middleware between Avanpost IDM and target systems (Zabbix,
CMDBuild, Passwork, SQL databases, REST services). IDM posts webhooks; idmMw
deduplicates them, routes each to a connector with retries, keeps what failed in a
dead letter queue (DLQ) and lets an operator retry it. Several processes may share
one database, one Redis and one Kafka. An administrator edits the target systems in
a browser, and a command rotates the key that encrypts the tables. This directory
holds the models of these parts, the TLC configurations that check them and the
proofs TLAPS checks.

Paths below are relative to the repository root (`src/` is its source tree).

## Inventory

| Component | State | Operations | Meets | Correct when |
| --- | --- | --- | --- | --- |
| Webhook intake (`src/inbound/webhooks`) | none of its own | `processWebhook` | idempotency, dispatcher, processing | an event takes effect once, a failed one can be sent again |
| Idempotency (`src/core/idempotency`) | keys with an expiry, in SQL or Redis | `checkAndLock`, `release` | every process, through the store | set-if-absent is atomic; a key is released only when the event had no effect |
| Dispatcher (`src/outbound`) | none | `dispatch` (sync: process and mirror a status; async: enqueue) | processing, Kafka | its failure paths tell the intake the truth |
| Processing (`src/core/processing.service.ts`) | none | `process`, `processRetry`, `processWithResult` | registry, retry, DLQ | a failure is stored or reported as not stored |
| Retry (`src/core/retry`) | policy in the target's row | `execute`, `forTarget` | connector, DLQ | backoff grows and is bounded |
| DLQ (`src/core/dlq`, `src/admin/admin.service.ts`) | `DlqItem` rows: status, `lockedAt` | `add`, `retry`, `skip`, `resolve`, `markRetryFailed`, `retryMany` | operators, workers, other processes | one attempt at a time; resolved is final; nothing stays `retrying` |
| Kafka workers (`src/kafka`) | offsets, in the broker | `eachMessage`, `send` | processing | what was accepted is settled, redelivery is bounded |
| Connector registry (`src/connectors/connector.registry.ts`) | connector map, `lastRegistryVersion`, reload in flight, timer | `reload`, poll, `get` | admin handlers, database | it ends up serving the table |
| Target system administration (`src/admin/target-system.*`, `secret-redaction.ts`) | `TargetSystem` rows | create, update (read, merge, write), delete, `testConnection` | registry, encryption, UI | an edit changes what was typed; a placeholder never replaces a secret |
| Encryption and rotation (`src/security`, `src/database`) | key ring of each process, `EncryptionState`, encrypted rows | encrypt, decrypt, startup checks, `rotateToActiveKey` | every table, Kafka, idempotency keys | every row readable under the key ring; completed means rotated; a rerun completes |
| Admin authentication (`src/auth`, `ui/src/App.tsx`, `ui/src/api/client.ts`) | a signed cookie; a CSRF token in each tab | login, logout, session, middleware | every admin request | only a live session with its own token changes anything; a refused tab can recover |
| Connectors (`src/connectors/implementations`) | target systems, pools | `execute`, `sync`, `getSchema`, `testConnection` | target systems, registry | a success is visible; other fields survive; pools are closed |
| Audit (`src/core/audit`) | `AuditLog` rows | one row per webhook, not awaited | encryption | its rows are rotated with the others |
| Admin UI (`ui/src/pages/TargetSystemsPage.tsx`) | list and form of each tab | load, edit, save, delete | target system administration | a save is what the form shows |
| Integration authentication, IDM read facade, metrics, diagnostics, health, configuration, TLS, secrets, mock IDM, emulator | counters | decisions on one request, output, probes, wiring | - | mostly I/O |

What makes it hard: calls of one event interleave across processes; every `await` is
a point where another call, the clock or a failure comes first; a step made of a
write and a trailing query can fail half done; a process dies with a key or a lease
in hand; Kafka delivers again; a lease or a TTL races the work it covers; the
registry reads rows and version separately; processes with different key rings run
side by side; connectors read a card, change it and put it back; a request that
timed out may still arrive; a browser edits a redacted and stale copy under a
session that may be gone. `PROJECT.json` lists these hazards at their lines.

## Modules

| Module | Models |
| --- | --- |
| `WebhookPipeline` | one write or read webhook in sync mode, from the key to the answer |
| `AsyncPipeline` | a write webhook in async mode and the worker that consumes it |
| `DlqLease` | the DLQ rows, the retries on them, directly or through the retry topic |
| `RetryLedger` | what the DLQ promises: the abstract specification `DlqLease` implements |
| `ConnectorRegistry` | one process's cache of target systems and its refresh |
| `RetryPolicy` | one execution with its attempts, delays and policy reads |
| `EncryptionRotation` | keys, the rows, messages and idempotency keys under them, and the rotation command |
| `ConnectorOperations` | the request or refusal each operation becomes, per connector (no state) |
| `ConnectorCalls` | calls of a connector while they run, against a target system |
| `AdminAuth` | the sessions of one browser and its tabs |
| `TargetSystemConfig` | one target system, its redaction, its form and its service |
| `AdminConsole` | composes the last two: the page behind the middleware |
| `MC*` | model values and symmetry for TLC |
| `WebhookPipelineProofs`, `AsyncPipelineProofs`, `DlqLeaseProofs`, `ConnectorRegistryProofs`, `RetryPolicyProofs`, `EncryptionRotationProofs`, `ConnectorCallsProofs`, `AdminConsoleProofs` | theorems about the module each is named after |

**WebhookPipeline.** `pc[r]` is the await a call is suspended at, `err[r]` the
`durableAccepted` flag of the error it carries, `lock` the store, `effect` what the
call left behind (applied to the target, a DLQ row, or a write that reached the
target though the connector's call failed, `unreported`), `lapsed` a history of keys
that ran out. One action per await: `SetNx` (Redis), `TxFind` and `TxUpsert` (SQL
transaction), `ExecuteOk`/`ExecuteFails`, `DlqCreate`, `DlqMetrics` (the gauge query
at the end of `DlqService.add`), `StatusSuccess`, `StatusFailed`, `Read`, `Catch`.
`Store` chooses the isolation the code meets: PostgreSQL's default READ COMMITTED, a
serializable database (CockroachDB), or Redis. `Faults` says which calls may fail;
with `"timeout"` a failed execution may have changed the target.

**AsyncPipeline.** The same intake with an atomic store. A call leaves a record on
the topic, or two when the producer, which is not idempotent, repeats a send by
itself (`Resent`). A record goes from `queued` through the worker's awaits to
`commit` and `done`. A partition has one worker at a time: `Join` assigns it and,
before the group's first commit, starts behind what is queued (`fromBeginning:
false`); `Take` may fail to decode; `Commit` covers what `eachMessage` resolved;
`WorkerDies` puts the rest back. `effects` counts how often a record was settled,
`lost` remembers the records given up: not decoded, refused by the DLQ, skipped.

**DlqLease.** `status` and `age` (time since `lockedAt`) are the rows; an attempt
goes from the policy and clock read of `DlqService.retry` (`BeginClaim`, `term`,
`stamp`) through `Claim`, the gauge query, the topic, the execution, and `Resolve`
or `MarkRetryFailed`, each of which writes the row whoever holds it. The row says
since when it is locked and not for how long, so each claim applies the lease it
read (`Leases`: the policy may have been edited, or not have been readable).
`Timely` is the assumption that an attempt ends within the shortest one. `earlier`
is a history: the attempts that had claimed their item before its last skip.
`retryCount` and `lockedBy` are written and never read, and are left out.

**ConnectorRegistry.** `db` is the table, `conn` the map `get` answers from, `last`
is `lastRegistryVersion`; a reload and a poll are suspended at `load` or `version`,
with the answers of the two version queries they have so far. Other processes appear
as `ChangeElsewhere`. `Quiet` is the assumption that no change falls between a load
and its version read. One poll callback is in flight at a time; overlapping ones
could only ask for more reloads.

**RetryPolicy.** `normalizePolicy`, `forTarget` and `calculateDelay` are the
source's functions; `Math.random()` is `k / Steps`. The policy may be read as absent
when the query fails, and an administrator may edit it between the execution and the
DLQ row. `Math.pow(2, n)` is the recursive function `Pow2`. A stored policy is any
partial function from the five fields to integers (`jitter`: to Booleans), negative
ones and zero included (`StoredAssumption`).

**EncryptionRotation.** `env` is the configuration a process started now would get;
`proc[p]` keeps the active key and ring the process was started with
(`keyringCache`). `row` holds the envelope of each row, its `kid` and one bit of
content; `open` is what `assertNoActiveProcessing` counts, `kafka` and `lock` are
the key ids of queued messages and of the event's idempotency keys. `StartUp` and
`CreateEncryptionState` are `validateEncryptionState`, with the window between
finding the tables empty and creating the state. The command goes through
`LoadState`, `AssertNoActiveProcessing` (three counts, each at its own moment; the
Kafka lag is one of them where `LagChecks` has it, the idempotency keys where the
store is SQL, `SqlStore`), `MarkRunning`, `ReadTable` (one bulk `findMany` per
table), `Rewrite(r)` (one update per row), `CompleteRotation` or `MarkFailed`.
`Intercept`, `AddItem`, `SaveTarget`, `Delete` and `Settle` are what servers do to
rows meanwhile, `CheckAndLock`, `Exists`, `SetIfNotExists`, `Release` the lookup of
the HMAC candidates one by one. `lost`, `left` and `blind` record exactly the races
the code leaves open (see "Limits"); every property speaks about everything else.

**ConnectorOperations, ConnectorCalls.** `ConnectorPlan` gives for each connector,
config, operation and payload (`given`: does it name its object, does it hold the
password) the request it becomes: refused, answered locally, a query, a plain write,
a read-modify-write of a card (`merge`, `putMerged`) or of a member list
(`members`). Config `noLimit` is a complete one with `timeout: 0`, which turns the
limit of Passwork and of the fake connector off. `ConnectorCalls` runs plans: a call
is at `login`, `query`, `read`, `write` or `destroy`; what it read is in `card` and
`list`. The target is external: a card per user and group. `Timeout` gives up a
request that may still `Arrive` or `GetLost`. `fresh` is the set of calls whose
effect nothing since had a reason to undo. `Holdable` says which cards a target can
have: a Zabbix user is disabled by a group and has no flag of its own, elsewhere it
is the other way round. Calls start with any such cards of `Stores`; the run has
absent, disabled and inactive ones among them. A database call with a config of its
own opens a pool, unless `knex()` does not know the client (`NoPool`).

**AdminAuth, TargetSystemConfig, AdminConsole.** Session *n* has token *n*. The
cookie is shared by the tabs; each tab has its screen, token and an answer on its
way, which sets the cookie when it arrives. `Authenticated` is
`authenticateRequest`, sessions made from proxy headers included; `VerifyCsrf` the
middleware's check. A config is a function from leaf paths to texts, numbers and
booleans. `EditForm` (with `String` and `PolicyForm`) makes the form's texts of it,
`BuildConfig` (with `BuildRetryPolicy`) the config that is sent back: an input's
number returns as a text, the policy's numbers as numbers if they are positive
integers, and jitter is added where there was none. `RedactSecrets` and
`MergeConfigPreservingSecrets` are the service's functions, `UpdateReads` and
`UpdateWrites` the two awaits of `update`. `seen` is a history of the list entry a
form was filled from, `dropped` of a save, built on an older read, that removed a
secret from the row (see "Limits"). `AdminConsole` lets a request of the page
through only as `AdminAuth` does.

## Runs

| Run | Shows | Bounds |
| --- | --- | --- |
| `pipeline_once` | with Redis: one effect per event, never two dispatched at once, no false "duplicate" | 3 calls of a write event, 1 read; TTL 2; store, DLQ, process and connector (a write that timed out and arrived) may fail |
| `pipeline_recovery` | serializable SQL and Kafka: a held key is accounted for; a taken event is settled or freed at its answer, without help of the TTL | 2 calls and a read; DLQ, gauge, status, connector and process may fail |
| `pipeline_status_failure` | **violation**: an applied event whose status cannot be published is applied again | 2 calls |
| `async_worker` | repetitions need deaths, one message per event, processed is settled or among the records the worker gives up | 2 calls of an event, one of them sent twice by the producer, 2 partitions, 2 deaths |
| `dlq_exclusive` | exclusive leases, resolved is final, implements `RetryLedger` | 2 items, 2 attempts, leases 2 and 3, 2 failures, direct mode |
| `dlq_recovery` | nothing stays `retrying`, a skip binds every later claim | 1 item, 2 attempts, leases 1 and 2, retry topic, every fault, attempts may outlive the lease |
| `registry_served` | a current version means current rows; changes are picked up | 2 systems (one also static), 3 changes, 1 failure |
| `registry_race` | **violation**: a change between load and version read is never picked up | 1 system, 2 changes |
| `retry_backoff` | positive policies, at most maxRetries + 1 calls, growing delays | 8 stored policies, 3 jitter values, 1 edit |
| `rotation` | completed means rotated, the ring opens every row and message, no content lost, one holder of an event, a rerun completes to the configured key | 2 keys, a row of each table, 2 servers and the command, lag check on and off, SQL store, 1 crash or database error |
| `connectors` | a success stays visible, other fields survive, declared capabilities are true, limited calls end, pools are closed | 6 connectors, every operation, config and payload, 2 users and a group, 2 overlapping calls, one executed twice |
| `admin_console` | no placeholder stored, a save changes what was typed and rewrites the rest only as the form does, logout is final, a refused tab recovers | 2 tabs, 3 sessions, 3 saves, 2 successive rows of one name, 2 types, 2 auth modes |

Why the bounds are enough: exclusion and duplication need two actors, and a third
shows that releasing on behalf of one does not let in another; a TTL or lease of 2
ticks leaves room before, at and after its end; three changes allow an ABA of the
table (add, remove, add); two failures allow a failure during the recovery of
another. Two keys allow a rotation and the way back; one crash leaves rows under
both, and the rerun may find a third configuration. Two overlapping calls are what a
lost update takes, and the repeated one adds its own late duplicate. A second
partition lets the copy of a record overtake the record. Three sessions leave one to
sign in with after a session has been overtaken. Two tabs make one page stale; a row
deleted and made again shows a save for the old id. Symmetry is used only in runs
without liveness. Deadlock checking is off where the system stops when all its calls
are answered; it is on for the DLQ and the registry.

`rotation` and `admin_console` have a constraint, `OneConcern`, that stops at states
which mix concerns that meet only in a few guards. In `rotation`: rows, queued
messages and idempotency keys are not followed together, nor an audit row beside a
DLQ row, and the second server is there only for idempotency keys and first starts.
In `admin_console`: either the sessions come and go while one tab saves a URL (from
the second session on its form is empty), or one session serves two tabs that do
everything the page offers. What needs both at once is not covered by these runs:
the two liveness properties (`RerunCompletes`, `RefusedTabRecovers`) are therefore
checked within the constraint, where the steps they need stay inside it.

### Fairness

- Pipelines: weak fairness of each call's own steps (the event loop runs every
  continuation; each await settles, successfully or not). Crashes are not fair, and
  neither is the clock: no key is assumed to expire. In async mode the consumer
  group gives every partition to a live worker, which works and commits.
- DLQ: weak fairness of a running attempt and of time; strong fairness of "someone
  asks for a retry of this item". No code retries by itself: `RetryingEnds` is about
  what the code allows an operator who keeps trying. Failures are finitely many
  (`MaxFailures`): with a failure at every claim an item does stay `retrying`.
- Registry: queries are answered and `setInterval` keeps firing.
- Rotation: the command runs to its end, an operator runs it again while the state's
  active key differs from the configured one, idempotency keys expire. Servers owe
  nothing: `RerunCompletes` is about them being stopped, as the procedure asks.
- Connectors: only that axios ends a request after its timeout, where there is one.
  Nothing is expected of the target.
- Admin console: requests are served and answered; an administrator whose save was
  refused reloads, signs in when asked to (strong fairness: other tabs may keep
  changing the cookie in between) and tries again. Sessions are finitely many
  (`MaxSessions`), which the property names.

### Limits

The two violation runs are listed as findings with the line of the repository they
contradict. The same models show further limits when their constants are changed;
the passing runs and the theorems name them as assumptions:

- `Store = "readCommitted"` breaks `DispatchedOnce` and `OneEffect`: both
  transactions of `setIfNotExists` find no row and both upsert.
- A fault `"metrics"` breaks `OneEffect`: a stored event whose gauge query failed is
  reported as not durable, so the key is released.
- SQL store with fault `"store"` breaks `DuplicateWasSeen`: `setIfNotExists` answers
  false on any error.
- A read answered natively by `getSchema` or `sync` with `success: false` ends as
  `processed=false` (`readFalse`), not as an error.
- A connector's write that timed out may have reached the target. If the DLQ insert
  is lost too, the key is released, nothing tells of the write (`Untraced`) and the
  repetition writes again; `OneEffect` exempts exactly this.
- `lost` in `AsyncPipeline` is reachable in three ways: a message that cannot be
  decoded and a failed DLQ insert are logged and the offset committed
  (`kafka-consumer.service.ts:98`), and a worker that joins before the group's first
  commit starts at the end of the topic (`fromBeginning: false`). IDM was told
  processed=true each time.
- A record that the producer wrote twice is applied twice: the worker checks no key.
- `Timely = FALSE` with three attempts breaks `LeaseExclusive`: an attempt that
  outlived its lease clears its successor's. Nothing in the code keeps an attempt
  within its lease: delays, retries and the length of a connector's call are set
  independently of it, and a claim may read a shorter lease than its predecessor's.
- Fault `"crash"` with the retry topic breaks `ResolvedIsFinal`: a resolved message
  that was not committed is executed again and may fail.
- Registry fault `"version"` breaks `ChangesArePickedUp`: the map is swapped before
  the version query fails.
- The default policy makes four calls, not the three the comment of
  `ProcessingService` counts, and a failure that the connector returns rather than
  throws is not retried (`CallReturns`).
- `maxRetries: 0` means three retries (`normalizePolicy`).
- A gauge query that fails inside `resolve` falls into the catch of `processRetry`
  (`processing.service.ts:106`) and sets the resolved item to pending: fault
  `"metrics"` breaks `ResolvedIsFinal` in `DlqLease`.
- Rotation checks once that nothing is being processed. A server that was not
  stopped loses an edit made between the bulk read and the rewrite of its row
  (`lost`), and leaves rows under the old key in tables already passed (`left`); the
  state says completed all the same. Plaintext rows written while the first
  encrypted process starts stay plaintext (`left`).
- Two servers with different active keys both lock an event when each looks up
  before the other sets (`blind`), as do one with and one without encryption.
- After an interrupted rotation, setting the active key back to the old one makes
  the command return at once (`encryption-rotation.service.ts:34-37`) with rows
  under both keys and the status not completed, while
  `docs/SECURITY_TLS_ENCRYPTION.md:249-251` describes rollback by running it. Both
  keys must stay in the ring, which `KeyringOpensEverything` needs: the operator's
  `RemoveKey` waits for the status completed.
- Overlapping changes of one group (Zabbix) or card (CMDBuild) overwrite each other:
  the write is `Stale`, and `OnlyOwnFields` and `AnsweredIsVisible` exempt it.
- `RestConnector.execute` and knex have no timeout of their own, and a configured
  `timeout: 0` turns the one of Passwork and the fake connector off; `CallsEnd` says
  nothing of them.
- Capabilities say nothing of what a payload must hold: CMDBuild refuses
  `user.changePassword` without a password before any request, Zabbix sends a change
  that changes nothing. `DeclaredSupport` names the first, and `Achieved` asks
  nothing of the second.
- A client knex does not know makes `DbConnector.execute` throw, outside its try,
  rather than answer; no pool is left open. A `destroy()` that throws after an
  insert makes the retry insert again (`thrown`) and leaks the pool.
- A save rewrites leaves nobody touched (`Rewritten`): an input's number is stored
  as its text, a policy number stored as a text as a number, and a policy without
  jitter gets the default. `normalizePolicy` reads either form.
- Clearing an input, or changing the type, deletes nothing from a stored config:
  empty inputs are not sent and the merge starts from the stored config.
- A save overwrites a plain field with the value of the list its form was filled
  from, however old, and two overlapping updates may undo each other;
  `SaveChangesOnlyEdits` exempts both. A stale list cannot undo a secret.
- The placeholder can be stored as the secret after all, by six saves in two tabs.
  For a row of type rest: tab A's update has read the row; tab B saves it as
  passwork with an access token, changes it back to rest, and opens the form again,
  which now carries the masked token among its extra keys; A writes the row without
  the token; B saves, and the merge finds no secret for the placeholder to stand for
  (`secret-redaction.ts` keeps the stored value only if there is one). `dropped`
  marks the write that removed the secret: `NoMaskStored` and `SaveChangesOnlyEdits`
  say nothing from there until the row is made again. The first attempt to prove
  `NoMaskStored` without it met this; the run's three saves do not reach it.
- A secret inside an array would be masked and stored as the mask: the merge does
  not enter arrays. No connector's config has one, and the model has no arrays.
- A logout clears the cookie; the server has no record of it, so a copy of the
  cookie kept elsewhere is good until it expires.
- `updatedAt` comes from the writer's clock; the registry's model has one clock.

## Proofs

Every safety invariant and every action property of the passing runs is a theorem
too, for every set of calls, events, items, tabs, keys, rows and systems and every
value of the bounds. What the constants have to satisfy is in the named assumptions
of each module; the theorems that need more say so. Each inductive invariant was
checked by TLC on a run of its module as well.

**WebhookPipelineProofs.** `Typing`; `EventTakesEffectOnce` and
`EventIsDispatchedOnce`, assuming an atomic store (`AtomicStore`) and that neither
the gauge query nor, with Kafka, the status topic fails (`StatusesSafe`).
`OneEffect` is not inductive: the invariant `OnceInv` adds that an engaged call
holds its key until it lapses, that two engaged calls of an event mean a lapsed key,
that an error that releases the key belongs to a call without effect, and which
paths a mode has. `HeldKeysAreAccounted`, assuming only that the store answers,
rests on `EffectRecorded`: a durable error or a success status implies the effect.
`DuplicatesWereSeen`, assuming that an error of the store is no answer
(`ErrorsAreNotAnswers`: Redis throws, SQL must not fail), adds that a live key has a
call that got past the check.

**AsyncPipelineProofs.** `Typing`; `EventHasOneMessage` from `KeyInv` (a holding
call has its key, one call holds, a record follows the send of its call);
`RepeatsAreBounded` from `DeliveriesCount`: a record not yet settled in this
delivery has been settled at most once per death so far.

**DlqLeaseProofs.** `Typing`; `LeaseIsExclusive`, assuming attempts end within the
shortest lease and messages are not delivered to two workers (`Disciplined`). The
inductive `LeaseInv` says that an attempt is within its lease, that the item of a
running attempt is not pending and its lock, if it has one, is no older than the
attempt, so that no other attempt can claim it, and that no two run on one item.
`ResolvedStaysResolved` adds `ResolverOnly` and assumes `ResolutionSafe`.
`SkipIsRespectedByNewAttempts` needs no assumption; it rests on `EarlierOnly`, that
whoever runs on a skipped item had claimed it before the skip, redeliveries
included. `DlqImplementsLedger` maps rows to unfiled/open/closed and the running
attempts to workers, and shows each step to be a step of `RetryLedger` or a stutter.

**ConnectorRegistryProofs.** `Typing`; `VersionIsTrustworthy`, assuming `Quiet` and
version queries that do not fail, the two conditions without which it goes wrong
(`registry_race` and "Limits"). That a count and a maximum identify the rows is not
obvious: a row may go and another come. `CacheInv` says that the map and `last` were
taken from one past table `d`, and that each row since is either as in `d`, gone, or
newer than `last.max`. An equal maximum then rules out newer rows and an equal count
rules out missing ones. The maximum of the rows exists because they are finite
(`MaxIsBound`).

**RetryPolicyProofs.** `Typing` and `BackoffIsMonotone` for every stored policy.
`DelayInv`: the last delay is at most the exponential of the call before it; the
jitter takes at most half of a delay, so the next one, twice as large before jitter,
is no shorter. The proofs need that `Pow2` doubles. A recursive function is the
CHOOSE of its equation, so `Pow2Doubles` first shows that tables of the first n
values exist and agree, by induction on sets of numbers (`SetInduction`, from the
well-foundedness of `<`).

**EncryptionRotationProofs.** `Typing`, with `ProcessInv`: the command only runs
once there is a state. `CompletedRotationIsComplete`, `RingOpensEverything` and
`RotationKeepsContent` come from one invariant, `RowInv`: the copy of a row still to
be rewritten is the row's content unless it is in `lost` (`CopyInv`); while the
command is between its marks, the rows it has passed are under its key unless they
are in `left` (`PassedInv`); the active key of every process, also of one started
before a change, stays in the ring in force (`KeyringInv`). `EventHasOneHolder`
rests on `HolderInv`: a server between its lookups and its set still has to look up
the key of a holder it can see.

**ConnectorCallsProofs.** `Typing`, `PoolsAreClosed`, `CapabilitiesAreTrue`,
`SuccessIsVisible` and `WritesStayInScope` come from one invariant. `StageOK` says
what a call holds at each await, `PoolOK` when its pool is open, `SupportOK` how far
an unsupported operation gets, `WriteOK` that a late request is the one its call
built, and `VisibleInv` that the calls in `fresh` are answered and their effect is
in the store. The lemmas on plans (`PlanKinds`, `PlanMeans`, `PlanDeclared`)
tabulate what the connectors make of the vocabulary; those on writes show that each
accepted write achieves its operation (`WriteAchieves`), stays in its scope
(`WriteStaysInScope`) and keeps what other operations achieved unless they conflict
(`WriteKeepsOthers`). The proof found that visibility of `user.enable` depends on
what cards a target can hold, which `Holdable` now states.

**AdminConsoleProofs.** `Typing`; `LogoutHolds` from `SessionInv`: a session reaches
the cookie at most once, in the one response that carries it, and the sessions left
are behind it. `PlaceholderNeverStored` and `SaveKeepsTheRest` from `ConfigInv`: a
placeholder travels only in lists and extra keys, for a secret the row of that id
has, and what a form or request holds of a leaf nobody typed is what the page's
conversions make of the value it was filled from (`FormFilled`, `ConfigBuilt`).

Only model-checked: liveness (`TakenIsSettledOrFreed`, `ProcessedIsSettled`,
`RetryingEnds`, `ChangesArePickedUp`, `RerunCompletes`, `CallsEnd`,
`RefusedTabRecovers`), which needs fairness and ENABLED and is beyond TLAPS.

## Not modelled, and the plan

Not modelled, and why:

- Integration authentication (`integration-auth*`, `ip-utils.ts` but for the private
  address check of `ConnectorOperations`): a decision over one request that keeps no
  state.
- The IDM read facade: stateless reads through the registry; the requests they end
  in are plans of `ConnectorOperations`.
- Metrics, diagnostics and logging: nothing in the program reads them back. The
  failure of the DLQ gauge query is modelled, its values are not.
- Secrets, configuration, TLS options, bootstrap: sequential I/O and parsing before
  the application serves.
- Health probes, the mock IDM and the IDM emulator: no protocol state, or test
  doubles.
- The DLQ page of the UI: it triggers the operations of `DlqLease`.
- Ciphers and signatures: taken to hold.
- Inside modelled parts: query strings and client-side filters of the connectors,
  the rows of the database behind the DB connector, a REST base URL that does not
  parse (it throws), validation of DTOs, the Kafka producer's connection, skewed
  clocks in `updatedAt`.

The plan from here:

1. Lemmas the liveness properties rest on, as far as they are safety: from each
   state a property starts in, which steps can follow and what they reduce (attempts
   left, keys to look up, rows to rewrite).
2. `RetryLedger`: its own promises (one worker per open item, a closed item stays
   closed), so that they follow for `DlqLease` through `DlqImplementsLedger`.
3. `WebhookPipeline` with READ COMMITTED: what remains true of `OneEffect`.
