-------------------------- MODULE EncryptionRotation --------------------------
(***************************************************************************)
(* Encryption at rest and the rotation of its key:                         *)
(*                                                                         *)
(*   PrismaService.validateEncryptionState   every process, when it starts *)
(*   EncryptionRotationService               npm run security:rotate-key   *)
(*   EncryptionService, JsonHelper           every read and write of a row *)
(*   IdempotencyService.checkAndLock         HMAC keys, one per ring entry *)
(*                                                                         *)
(* A process keeps the active key and the keyring it was started with      *)
(* (keyringCache), so processes of several configurations run side by side.*)
(* The operator follows docs/SECURITY_TLS_ENCRYPTION.md when he removes a  *)
(* key, but servers may keep running while the CLI works: what that costs  *)
(* is recorded row by row in lost and left.                                *)
(***************************************************************************)
EXTENDS Integers, FiniteSets

CONSTANTS
    Key,           \* key ids
    Plain,         \* no envelope: ENCRYPTION_ENABLED is not true
    Absent,        \* the kid of a row that does not exist
    Row,           \* rows with an encrypted column
    TableOf,       \* the table of each row, by its place in the rotation
    Server,        \* processes that serve webhooks, Kafka and the admin API
    Cli,           \* the rotation command, a process like the others
    LagChecks,     \* whether a command looks at the Kafka lag: not with
                   \* ENCRYPTION_ROTATION_SKIP_KAFKA_LAG_CHECK or without Kafka
    SqlStore,      \* idempotency keys are rows (REDIS_ENABLED is false)
    MaxCrashes     \* bound: crashes and database errors of the CLI

Audit  == 1
Dlq    == 2
Target == 3
Tables == Audit..Target   \* rotateAuditLogs, rotateDlqItems, rotateTargetSystems

Process == Server \cup {Cli}

ASSUME NameAssumption ==
    /\ Plain \notin Key /\ Absent \notin Key /\ Plain # Absent
    /\ Cli \notin Server
ASSUME KeyAssumption == IsFiniteSet(Key)
ASSUME RowAssumption == TableOf \in [Row -> Tables]
ASSUME SwitchAssumption ==
    LagChecks \subseteq BOOLEAN /\ LagChecks # {} /\ SqlStore \in BOOLEAN
ASSUME CrashAssumption == MaxCrashes \in Nat

\* previousKeyIds is written on every change of the row and never read.
NoState == [active |-> Absent, status |-> "none"]

VARIABLES
    env,       \* the configuration a process started now would get
    state,     \* the EncryptionState row
    row,       \* the envelope of each row: its kid and its content
    open,      \* DLQ rows that are pending or retrying
    kafka,     \* kids of the messages not consumed yet
    lock,      \* key ids under which the event's idempotency key is stored
    proc,      \* each process: where it is and the configuration it has
    call,      \* each server's checkAndLock of the event
    cli,       \* rotateToActiveKey
    crashes,
    wanted,    \* history: the content last written to each row
    lost,      \* history: rows edited between their bulk read and rewrite
    left,      \* history: rows written under a key their table has left
    blind      \* history: a lock was taken past another server's lookup

storage  == <<row, open, wanted, lost, left>>
locking  == <<lock, call, blind>>
rotation == <<cli, crashes>>
vars == <<env, state, storage, kafka, proc, locking, rotation>>

Kid == Key \cup {Plain}
Envelope == [kid : Kid \cup {Absent}, content : {0, 1}]
EncryptionState == {NoState} \cup [active : Key,
                                  status : {"completed", "running", "failed"}]
Configured == [pc : {"down", "create", "up"}, active : Kid, ring : SUBSET Key]
Lookup == [pc : {"idle", "exists", "set", "held"}, todo : SUBSET Kid]
Counts == {"dlq", "keys", "lag"}   \* the queries of assertNoActiveProcessing
Command == [pc : {"off", "check", "mark", "read", "rewrite", "complete",
                  "fail", "done", "error"},
            counts : SUBSET Counts, table : 0..3, todo : SUBSET Row,
            copy : [Row -> {0, 1}], kids : [Row -> Kid \cup {Absent}]]

TypeOK ==
    /\ env \in [active : Kid, ring : SUBSET Key]
    /\ state \in EncryptionState
    /\ row \in [Row -> Envelope]
    /\ open \subseteq Row
    /\ kafka \subseteq Kid
    /\ lock \subseteq Kid
    /\ proc \in [Process -> Configured]
    /\ call \in [Server -> Lookup]
    /\ cli \in Command
    /\ crashes \in 0..MaxCrashes
    /\ wanted \in [Row -> {0, 1}]
    /\ lost \subseteq Row
    /\ left \subseteq Row
    /\ blind \in BOOLEAN

Down == [pc |-> "down", active |-> Plain, ring |-> {}]
NoCall == [pc |-> "idle", todo |-> {}]
CliAt(exit) == [pc |-> exit, counts |-> {}, table |-> 0, todo |-> {},
                copy |-> [r \in Row |-> 0], kids |-> [r \in Row |-> Absent]]

Init ==
    /\ env = [active |-> Plain, ring |-> {}]
    /\ state = NoState
    /\ row = [r \in Row |-> [kid |-> Absent, content |-> 0]]
    /\ open = {} /\ kafka = {} /\ lock = {}
    /\ proc = [p \in Process |-> Down]
    /\ call = [s \in Server |-> NoCall]
    /\ cli = CliAt("off")
    /\ crashes = 0
    /\ wanted = [r \in Row |-> 0]
    /\ lost = {} /\ left = {} /\ blind = FALSE

Present == {r \in Row : row[r].kid # Absent}
Up(p) == proc[p].pc = "up"

(***************************************************************************)
(* EncryptionService: what a process with keyring R can open, and the key  *)
(* it writes under.                                                        *)
(***************************************************************************)
CanDecrypt(R, kid) == kid \in R \cup {Plain}
EncryptFor(p, content) == [kid |-> proc[p].active, content |-> content]

\* Mutant: only the active key is a candidate.
IdempotencyKeysActiveOnly(p) == {proc[p].active}

IdempotencyKeys(p) ==
    IF proc[p].active = Plain THEN {Plain} ELSE proc[p].ring

-----------------------------------------------------------------------------
(***************************************************************************)
(* The operator.                                                           *)
(***************************************************************************)
AddKey(k) ==
    /\ k \notin env.ring
    /\ env' = [env EXCEPT !.ring = @ \cup {k}]
    /\ UNCHANGED <<state, storage, kafka, proc, locking, rotation>>

SetActive(k) ==
    /\ k \in env.ring \ {env.active}
    /\ env' = [env EXCEPT !.active = k]
    /\ UNCHANGED <<state, storage, kafka, proc, locking, rotation>>

\* Steps 8 and 9 of the rotation procedure; nobody still writes under k.
RemoveKey(k) ==
    /\ k \in env.ring \ {env.active, state.active}
    /\ state.status = "completed"
    /\ k \notin kafka \cup lock
    /\ \A p \in Process : proc[p].pc # "down" => proc[p].active # k
    /\ env' = [env EXCEPT !.ring = @ \ {k}]
    /\ UNCHANGED <<state, storage, kafka, proc, locking, rotation>>

-----------------------------------------------------------------------------
(***************************************************************************)
(* Start and stop of a process: PrismaService.onModuleInit.                *)
(***************************************************************************)
Admits(p) ==
    IF env.active = Plain
    THEN state = NoState /\ p # Cli
    ELSE \/ state = NoState /\ Present = {} /\ (SqlStore => lock = {})
         \/ /\ state.active \in env.ring
            /\ state.active = env.active \/ p = Cli

\* The CLI with encryption off starts, throws at once and changes nothing.
StartUp(p) ==
    /\ proc[p].pc = "down"
    /\ Admits(p)
    /\ proc' = [proc EXCEPT ![p] =
          [pc |-> IF env.active # Plain /\ state = NoState
                  THEN "create" ELSE "up",
           active |-> env.active, ring |-> env.ring]]
    /\ cli' = IF p = Cli THEN CliAt("off") ELSE cli
    /\ UNCHANGED <<env, state, storage, kafka, locking, crashes>>

\* Rows that slipped in since the tables were found empty stay plaintext.
CreateEncryptionState(p) ==
    /\ proc[p].pc = "create"
    /\ IF state = NoState
       THEN /\ state' = [active |-> proc[p].active, status |-> "completed"]
            /\ proc' = [proc EXCEPT ![p].pc = "up"]
            /\ left' = left \cup Present
       ELSE /\ proc' = [proc EXCEPT ![p] = Down]   \* duplicate primary key
            /\ UNCHANGED <<state, left>>
    /\ UNCHANGED <<env, row, open, wanted, lost, kafka, locking, rotation>>

Stop(s) ==
    /\ proc[s].pc # "down"
    /\ proc' = [proc EXCEPT ![s] = Down]
    /\ call' = [call EXCEPT ![s] = NoCall]
    /\ UNCHANGED <<env, state, storage, kafka, lock, blind, rotation>>

-----------------------------------------------------------------------------
(***************************************************************************)
(* Servers.  Audit rows and the encrypted column of a DLQ row are written  *)
(* once; a target system is created, edited and deleted.                   *)
(***************************************************************************)
Rotating == cli.pc \in {"read", "rewrite", "complete"}

\* The rotation will not come to this row any more.
Passed(r) ==
    /\ Rotating
    /\ \/ cli.pc = "complete" \/ TableOf[r] < cli.table
       \/ TableOf[r] = cli.table /\ cli.pc = "rewrite" /\ r \notin cli.todo

\* Every write of a row; a new row has an id the rotation has not read.
Write(s, r) ==
    /\ Up(s)
    /\ r \in Present \/ r \notin cli.todo
    /\ wanted' = [wanted EXCEPT ![r] = 1 - @]
    /\ row' = [row EXCEPT ![r] = EncryptFor(s, 1 - wanted[r])]
    /\ left' = IF state # NoState
                  /\ (proc[s].active # state.active \/ Passed(r))
               THEN left \cup {r} ELSE left \ {r}
    /\ lost' = IF cli.pc = "rewrite" /\ r \in cli.todo
               THEN lost \cup {r} ELSE lost \ {r}
    /\ UNCHANGED <<env, state, kafka, proc, locking, rotation>>

\* A webhook was answered; an error of this write is ignored.
Intercept(s, r) ==
    /\ TableOf[r] = Audit /\ r \notin Present
    /\ Write(s, r) /\ UNCHANGED open

AddItem(s, r) ==
    /\ TableOf[r] = Dlq /\ r \notin Present
    /\ Write(s, r) /\ open' = open \cup {r}

\* An edit merges into the config it reads, and fails if it cannot open it.
SaveTarget(s, r) ==
    /\ TableOf[r] = Target
    /\ r \in Present => CanDecrypt(proc[s].ring, row[r].kid)
    /\ Write(s, r) /\ UNCHANGED open

Delete(s, r) ==
    /\ Up(s) /\ r \in Present /\ TableOf[r] = Target
    /\ row' = [row EXCEPT ![r] = [kid |-> Absent, content |-> 0]]
    /\ wanted' = [wanted EXCEPT ![r] = 0]
    /\ lost' = lost \ {r} /\ left' = left \ {r}
    /\ UNCHANGED <<env, state, open, kafka, proc, locking, rotation>>

Settle(s, r) ==   \* resolved, skipped or failed: status only
    /\ Up(s) /\ r \in open
    /\ open' = open \ {r}
    /\ UNCHANGED <<env, state, row, wanted, lost, left, kafka, proc,
                   locking, rotation>>

Send(s) ==
    /\ Up(s)
    /\ kafka' = kafka \cup {proc[s].active}
    /\ UNCHANGED <<env, state, storage, proc, locking, rotation>>

\* A message the process cannot decode is logged and committed all the same.
Consume(s) ==
    /\ Up(s)
    /\ \E kid \in kafka : kafka' = kafka \ {kid}
    /\ UNCHANGED <<env, state, storage, proc, locking, rotation>>

-----------------------------------------------------------------------------
(***************************************************************************)
(* checkAndLock of one event: every candidate is looked up, then the key   *)
(* under the active id is set if it does not exist.                        *)
(***************************************************************************)
CheckAndLock(s) ==
    /\ Up(s) /\ call[s].pc = "idle"
    /\ LET keys == IdempotencyKeys(s)
       IN  call' = [call EXCEPT ![s] =
              IF Cardinality(keys) > 1 THEN [pc |-> "exists", todo |-> keys]
              ELSE [pc |-> "set", todo |-> {}]]
    /\ UNCHANGED <<env, state, storage, kafka, proc, lock, blind, rotation>>

Exists(s) ==
    /\ call[s].pc = "exists"
    /\ \E k \in call[s].todo :
          /\ proc[s].active \in call[s].todo => k = proc[s].active
          /\ call' = [call EXCEPT ![s] =
                IF k \in lock THEN NoCall
                ELSE IF call[s].todo = {k} THEN [pc |-> "set", todo |-> {}]
                ELSE [pc |-> "exists", todo |-> call[s].todo \ {k}]]
    /\ UNCHANGED <<env, state, storage, kafka, proc, lock, blind, rotation>>

SetIfNotExists(s) ==
    /\ call[s].pc = "set"
    /\ LET k == proc[s].active
       IN  IF k \in lock
           THEN call' = [call EXCEPT ![s] = NoCall] /\ UNCHANGED <<lock, blind>>
           ELSE /\ lock' = lock \cup {k}
                /\ call' = [call EXCEPT ![s] = [pc |-> "held", todo |-> {}]]
                /\ blind' = (blind \/ \E t \in Server \ {s} :
                      \/ call[t].pc \in {"exists", "set"} /\ proc[t].active # k
                      \/ /\ call[t].pc = "held"
                         /\ proc[t].active \notin
                               IF k = Plain THEN {} ELSE proc[s].ring)
    /\ UNCHANGED <<env, state, storage, kafka, proc, rotation>>

Release(s) ==
    /\ call[s].pc = "held"
    /\ lock' = lock \ IdempotencyKeys(s)
    /\ call' = [call EXCEPT ![s] = NoCall]
    /\ UNCHANGED <<env, state, storage, kafka, proc, blind, rotation>>

\* The TTL of the key runs out; what the holder did lies in the past.
Expire(k) ==
    /\ k \in lock
    /\ lock' = lock \ {k}
    /\ call' = [s \in Server |->
          IF call[s].pc = "held" /\ proc[s].active = k THEN NoCall ELSE call[s]]
    /\ UNCHANGED <<env, state, storage, kafka, proc, blind, rotation>>

-----------------------------------------------------------------------------
(***************************************************************************)
(* rotateToActiveKey.                                                      *)
(***************************************************************************)
CliUnchanged == UNCHANGED <<env, kafka, locking>>

Exit(result) ==
    /\ cli' = CliAt(result)
    /\ proc' = [proc EXCEPT ![Cli] = Down]

\* Mutant: the early return also tidies up the status.
LoadStateCompletes ==
    /\ Up(Cli) /\ cli.pc = "off"
    /\ IF state.active = proc[Cli].active
       THEN Exit("done") /\ state' = [state EXCEPT !.status = "completed"]
       ELSE /\ cli' = [cli EXCEPT !.pc = "check", !.counts = Counts]
            /\ UNCHANGED <<proc, state>>
    /\ CliUnchanged /\ UNCHANGED <<storage, crashes>>

LoadState ==
    /\ Up(Cli) /\ cli.pc = "off"
    /\ IF state.active = proc[Cli].active
       THEN Exit("done")
       ELSE /\ \E lag \in LagChecks : cli' = [cli EXCEPT !.pc = "check",
                  !.counts = IF lag THEN Counts ELSE Counts \ {"lag"}]
            /\ UNCHANGED proc
    /\ CliUnchanged /\ UNCHANGED <<state, storage, crashes>>

ActiveIn(q) ==
    CASE q = "dlq"  -> open # {}
      [] q = "keys" -> SqlStore /\ lock # {}
      [] q = "lag"  -> kafka # {}

\* The three queries run at once (Promise.all) and each sees its own moment.
\* Once one has found something the command only waits for the rest and throws.
AssertNoActiveProcessing(q) ==
    /\ cli.pc = "check" /\ q \in cli.counts
    /\ IF ActiveIn(q)
       THEN Exit("error")
       ELSE /\ cli' = [cli EXCEPT !.pc = IF cli.counts = {q} THEN "mark" ELSE @,
                                  !.counts = @ \ {q}]
            /\ UNCHANGED proc
    /\ CliUnchanged /\ UNCHANGED <<state, storage, crashes>>

MarkRotation(status) ==
    state' = [state EXCEPT !.status = status]

MarkRunning ==
    /\ cli.pc = "mark"
    /\ MarkRotation("running")
    /\ cli' = [cli EXCEPT !.pc = "read", !.table = Audit]
    /\ CliUnchanged /\ UNCHANGED <<storage, proc, crashes>>

\* Mutants: a table is left out; one is asked for past the last.
NextTableSkipsTargets(c) == [c EXCEPT !.pc = IF c.table = Dlq THEN "complete" ELSE "read",
                                      !.table = @ + 1]
NextTableBeyond(c) == IF c.table > Target THEN [c EXCEPT !.pc = "complete"]
                      ELSE [c EXCEPT !.pc = "read", !.table = @ + 1]

NextTable(c) == IF c.table = Target THEN [c EXCEPT !.pc = "complete"]
                ELSE [c EXCEPT !.pc = "read", !.table = @ + 1]

\* Mutant: every table is read when the rotation begins.
ReadTableEarly ==
    /\ cli.pc = "read"
    /\ LET early == IF cli.table # Audit THEN cli
                    ELSE [cli EXCEPT !.copy = [r \in Row |-> row[r].content],
                                     !.kids = [r \in Row |-> row[r].kid]]
           rows  == {r \in Row : early.kids[r] # Absent /\ TableOf[r] = cli.table}
       IN  cli' = IF rows = {} THEN NextTable(early)
                  ELSE [early EXCEPT !.pc = "rewrite", !.todo = rows]
    /\ CliUnchanged /\ UNCHANGED <<state, storage, proc, crashes>>

\* findMany: the whole table is read before any of its rows is rewritten.
ReadTable ==
    /\ cli.pc = "read"
    /\ LET rows == {r \in Present : TableOf[r] = cli.table}
       IN  cli' = IF rows = {} THEN NextTable(cli)
                  ELSE [cli EXCEPT !.pc = "rewrite", !.todo = rows,
                          !.copy = [r \in Row |-> IF r \in rows
                                                  THEN row[r].content ELSE 0],
                          !.kids = [r \in Row |-> IF r \in rows
                                                  THEN row[r].kid ELSE Absent]]
    /\ CliUnchanged /\ UNCHANGED <<state, storage, proc, crashes>>

\* Mutant: a row that is not under the old key ends the rotation.
RewriteOldOnly(r) ==
    /\ cli.pc = "rewrite" /\ r \in cli.todo
    /\ IF cli.kids[r] = state.active /\ r \in Present
       THEN /\ row' = [row EXCEPT ![r] = EncryptFor(Cli, cli.copy[r])]
            /\ left' = left \ {r}
            /\ cli' = IF cli.todo = {r} THEN NextTable([cli EXCEPT !.todo = {}])
                      ELSE [cli EXCEPT !.todo = @ \ {r}]
       ELSE cli' = [cli EXCEPT !.pc = "fail"] /\ UNCHANGED <<row, left>>
    /\ CliUnchanged
    /\ UNCHANGED <<state, open, wanted, lost, proc, crashes>>

\* A row the ring cannot open, or one deleted meanwhile, ends the rotation.
Rewrite(r) ==
    /\ cli.pc = "rewrite" /\ r \in cli.todo
    /\ IF CanDecrypt(proc[Cli].ring, cli.kids[r]) /\ r \in Present
       THEN /\ row' = [row EXCEPT ![r] = EncryptFor(Cli, cli.copy[r])]
            /\ left' = left \ {r}
            /\ cli' = IF cli.todo = {r} THEN NextTable([cli EXCEPT !.todo = {}])
                      ELSE [cli EXCEPT !.todo = @ \ {r}]
       ELSE cli' = [cli EXCEPT !.pc = "fail"] /\ UNCHANGED <<row, left>>
    /\ CliUnchanged
    /\ UNCHANGED <<state, open, wanted, lost, proc, crashes>>

CompleteRotation ==
    /\ cli.pc = "complete"
    /\ state' = [active |-> proc[Cli].active, status |-> "completed"]
    /\ Exit("done")
    /\ CliUnchanged /\ UNCHANGED <<storage, crashes>>

DatabaseError ==
    /\ cli.pc \in {"read", "rewrite", "complete"}
    /\ crashes < MaxCrashes
    /\ crashes' = crashes + 1
    /\ cli' = [cli EXCEPT !.pc = "fail"]
    /\ CliUnchanged /\ UNCHANGED <<state, storage, proc>>

MarkFailed ==
    /\ cli.pc = "fail"
    /\ MarkRotation("failed")
    /\ Exit("error")
    /\ CliUnchanged /\ UNCHANGED <<storage, crashes>>

\* Also the case that markRotation('failed') itself fails.
CliDies ==
    /\ proc[Cli].pc # "down"
    /\ crashes < MaxCrashes
    /\ crashes' = crashes + 1
    /\ Exit("error")
    /\ CliUnchanged /\ UNCHANGED <<state, storage>>

-----------------------------------------------------------------------------
Operator == \E k \in Key : AddKey(k) \/ SetActive(k) \/ RemoveKey(k)

ServerStep(s) ==
    \/ StartUp(s) \/ CreateEncryptionState(s) \/ Stop(s)
    \/ \E r \in Row : \/ Intercept(s, r) \/ AddItem(s, r) \/ Settle(s, r)
                      \/ SaveTarget(s, r) \/ Delete(s, r)
    \/ Send(s) \/ Consume(s)
    \/ CheckAndLock(s) \/ Exists(s) \/ SetIfNotExists(s) \/ Release(s)

Rotate ==
    \/ CreateEncryptionState(Cli) \/ LoadState
    \/ \E q \in Counts : AssertNoActiveProcessing(q)
    \/ MarkRunning \/ ReadTable \/ (\E r \in Row : Rewrite(r))
    \/ CompleteRotation \/ MarkFailed

Next ==
    \/ Operator
    \/ \E s \in Server : ServerStep(s)
    \/ \E k \in Kid : Expire(k)
    \/ StartUp(Cli) \/ Rotate \/ DatabaseError \/ CliDies

(***************************************************************************)
(* The command runs to its end, the operator runs it again as long as the  *)
(* keys differ, and idempotency keys expire.  Servers owe nothing.         *)
(***************************************************************************)
Fairness ==
    /\ WF_vars(Rotate)
    /\ WF_vars(StartUp(Cli) /\ state.active # env.active)
    /\ \A k \in Kid : WF_vars(Expire(k))

Spec == Init /\ [][Next]_vars
FairSpec == Spec /\ Fairness

-----------------------------------------------------------------------------
(***************************************************************************)
(* A completed rotation means every row is under the active key, except    *)
(* the rows a server that was not stopped wrote behind its back            *)
(* (completeRotation writes 'completed' without looking at a row).         *)
(***************************************************************************)
CompletedMeansRotated ==
    state.status = "completed" =>
        \A r \in Present \ left : row[r].kid = state.active

(***************************************************************************)
(* However often the command fails, dies or is turned back to another key, *)
(* the keyring in force opens every row and every queued message: startup  *)
(* checks one key id only, and the rows may be under two.                  *)
(***************************************************************************)
KeyringOpensEverything ==
    /\ \A r \in Present \ left : CanDecrypt(env.ring, row[r].kid)
    /\ \A kid \in kafka : CanDecrypt(env.ring, kid)

(***************************************************************************)
(* Rotation changes the key of a row and never its content; only an edit   *)
(* made between the bulk read of its table and the rewrite of its row is   *)
(* overwritten.                                                            *)
(***************************************************************************)
EditsSurvive == \A r \in Present \ lost : row[r].content = wanted[r]

(***************************************************************************)
(* An event is processed by one server at a time across a change of the    *)
(* active key, unless one of them locked it while another server with a    *)
(* different active key was between its lookups and its set, or held it    *)
(* under a key the first one cannot look up: one its ring lacks, any key   *)
(* for a server without encryption, the bare key for one with it.          *)
(***************************************************************************)
OneHolder ==
    blind \/ Cardinality({s \in Server : call[s].pc = "held"}) <= 1

(***************************************************************************)
(* As long as the servers are stopped and nothing is left to process,      *)
(* running the command again brings the system to the configured key: it   *)
(* ends with the state naming that key and completed, whatever a crash or  *)
(* an error interrupted before.  A key set back to the one the state still *)
(* names is not such a case: rotateToActiveKey returns before it looks at  *)
(* a row, and the status stays what the interruption left.                 *)
(***************************************************************************)
Idle == /\ \A s \in Server : proc[s].pc = "down"
        /\ open = {} /\ kafka = {}
        /\ state # NoState
RerunCompletes ==
    \A k \in Key :
        Idle /\ env.active = k /\ state.active # k ~>
            \/ state = [active |-> k, status |-> "completed"]
            \/ ~(Idle /\ env.active = k)
=============================================================================
