------------------------------- MODULE DlqLease -------------------------------
(***************************************************************************)
(* The life of a DlqItem: DlqService (add, retry, skip, resolve,           *)
(* markRetryFailed), the admin operations that start a retry (AdminService *)
(* retry and retryMany) and ProcessingService.processRetry, run directly   *)
(* or by a worker that consumes the Kafka retry topic.                     *)
(*                                                                         *)
(* An Attempt is one retry from the moment DlqService.retry reads its      *)
(* clock to the moment processRetry returns, wherever it runs.  Times are  *)
(* ages in clock ticks: age[i] since lockedAt of the item, stamp[a] since  *)
(* the attempt computed `now`.  retryCount and lockedBy are written and    *)
(* never read by the code, and are left out; lockedAt is null exactly when *)
(* the status is not "retrying".                                           *)
(***************************************************************************)
EXTENDS Naturals

CONSTANTS
    Item,          \* DlqItem rows
    Attempt,       \* retry attempts that may be running at once
    Leases,        \* what a claim may read as dlqLeaseSeconds, in ticks: the
                   \* policy may be edited, and the setting stands in for it
                   \* when it cannot be read
    Lease,         \* the shortest of them
    MaxLease,      \* the longest of them
    MaxStall,      \* bound: longest round trip of the claiming updateMany
    MaxFailures,   \* bound: deaths and failed calls in one behaviour
    KafkaEnabled,  \* KAFKA_ENABLED: retries go through the retry topic
    Timely,        \* assume no attempt outlives the shortest lease
    Faults         \* which of the calls below may fail in this instance

ASSUME LeaseAssumption ==
    /\ Lease \in Nat \ {0} /\ MaxLease \in Nat
    /\ Leases \subseteq Lease..MaxLease /\ Leases # {}
    /\ MaxStall \in Nat
    /\ MaxFailures \in Nat
ASSUME ModeAssumption ==
    /\ KafkaEnabled \in BOOLEAN
    /\ Timely \in BOOLEAN
    /\ Faults \subseteq {"metrics", "store", "kafka", "crash", "redeliver"}
ASSUME NonEmpty == Item # {} /\ Attempt # {}

VARIABLES
    status,   \* DlqItem.status, "absent" before the insert
    age,      \* ticks since lockedAt, up to MaxAge
    pc,       \* where each attempt is
    item,     \* the item an attempt works on
    stamp,    \* ticks since the attempt computed `now`, up to MaxAge
    term,     \* effectiveLeaseSeconds of the attempt's claim
    failures, \* deaths and failed calls so far
    earlier   \* history: attempts whose claim is older than the last skip of
              \* their item

vars == <<status, age, pc, item, stamp, term, failures, earlier>>

\* An age above this is expired for every claim.
MaxAge == MaxLease + MaxStall + 1

Claimed == {"claimMetrics", "publish", "queued", "execute", "resolve",
            "resolveMetrics", "markFailed"}

TypeOK ==
    /\ status \in [Item -> {"absent", "pending", "retrying", "skipped",
                            "resolved"}]
    /\ age \in [Item -> 0..MaxAge]
    /\ pc \in [Attempt -> {"idle", "claiming"} \cup Claimed]
    /\ item \in [Attempt -> Item]
    /\ stamp \in [Attempt -> 0..MaxAge]
    /\ term \in [Attempt -> Leases]
    /\ failures \in 0..MaxFailures
    /\ earlier \in SUBSET Attempt

Init ==
    /\ status = [i \in Item |-> "absent"]
    /\ age = [i \in Item |-> 0]
    /\ pc = [a \in Attempt |-> "idle"]
    /\ item \in [Attempt -> Item]
    /\ stamp = [a \in Attempt |-> 0]
    /\ term \in [Attempt -> Leases]
    /\ failures = 0
    /\ earlier = {}

Running(a) == pc[a] \in Claimed

\* A call of the given kind fails.
Fails(kind) ==
    /\ kind \in Faults
    /\ failures < MaxFailures
    /\ failures' = failures + 1

Goto(a, label) == pc' = [pc EXCEPT ![a] = label]

\* An update of the row that also nulls lockedAt and lockedBy.
SetStatus(i, value) ==
    /\ status' = [status EXCEPT ![i] = value]
    /\ age' = [age EXCEPT ![i] = 0]

-----------------------------------------------------------------------------

\* DlqService.add: a failed event becomes a pending item.
Add(i) ==
    /\ status[i] = "absent"
    /\ SetStatus(i, "pending")
    /\ UNCHANGED <<pc, item, stamp, failures, term, earlier>>

\* DlqService.retry up to its updateMany: the policy and the clock are read, the
\* row is updated a round trip later.  Called by AdminService.retry for one id and by
\* retryMany for every row of a snapshot that may be stale by now.
BeginClaim(a, i) ==
    /\ pc[a] = "idle"
    /\ status[i] # "absent"
    /\ item' = [item EXCEPT ![a] = i]
    /\ stamp' = [stamp EXCEPT ![a] = 0]
    /\ \E l \in Leases : term' = [term EXCEPT ![a] = l]
    /\ earlier' = earlier \ {a}
    /\ Goto(a, "claiming")
    /\ UNCHANGED <<status, age, failures>>

\* A claim with a lease of its own making: the row says when it was locked, not
\* for how long.
Expired(a) == age[item[a]] > stamp[a] + term[a]

\* A claim condition without its lease branch.
ClaimableNeverExpires(a) ==
    status[item[a]] \notin {"absent", "skipped", "resolved", "retrying"}

\* A claim condition that forgets that an operator may have skipped the item.
ClaimableSkipped(a) ==
    /\ status[item[a]] \notin {"absent", "resolved"}
    /\ \/ status[item[a]] # "retrying"
       \/ Expired(a)

\* A claim condition that forgets the terminal statuses.
ClaimableTerminal(a) ==
    \/ status[item[a]] # "retrying"
    \/ Expired(a)

\* A claim condition that forgets that the item is being retried.
ClaimableAlways(a) ==
    status[item[a]] \notin {"absent", "skipped", "resolved"}

\* The where clause of the claiming updateMany.
Claimable(a) ==
    /\ status[item[a]] \notin {"absent", "skipped", "resolved"}
    /\ \/ status[item[a]] # "retrying"
       \/ Expired(a)

\* The claiming updateMany: lockedAt becomes the `now` read at BeginClaim.
Claim(a) ==
    /\ pc[a] = "claiming"
    /\ \/ /\ Claimable(a)
          /\ status' = [status EXCEPT ![item[a]] = "retrying"]
          /\ age' = [age EXCEPT ![item[a]] = stamp[a]]
          /\ Goto(a, "claimMetrics")
       \/ /\ ~Claimable(a)
          /\ Goto(a, "idle")
          /\ UNCHANGED <<status, age>>
    /\ UNCHANGED <<item, stamp, failures, term, earlier>>

\* The gauge query after a claim and AdminService.retry's read of the row; when
\* either throws, the retry is abandoned with the item claimed.
ClaimMetrics(a) ==
    /\ pc[a] = "claimMetrics"
    /\ \/ /\ Goto(a, IF KafkaEnabled THEN "publish" ELSE "execute")
          /\ UNCHANGED failures
       \/ (Fails("metrics") \/ Fails("store")) /\ Goto(a, "idle")
    /\ UNCHANGED <<status, age, item, stamp, term, earlier>>

\* AdminService.retryItem with Kafka: the send to the retry topic.
Publish(a) ==
    /\ pc[a] = "publish"
    /\ \/ Goto(a, "queued") /\ UNCHANGED failures
       \/ Fails("kafka") /\ Goto(a, "idle")
    /\ UNCHANGED <<status, age, item, stamp, term, earlier>>

\* KafkaConsumerService.eachMessage takes the message.  One that cannot be
\* decoded, or that the group passes by because it has no committed offset yet
\* (fromBeginning: false), is dropped with the item claimed.
Consume(a) ==
    /\ pc[a] = "queued"
    /\ \/ Goto(a, "execute") /\ UNCHANGED failures
       \/ Fails("kafka") /\ Goto(a, "idle")
    /\ UNCHANGED <<status, age, item, stamp, term, earlier>>

\* processRetry: the connector's final answer.
Execute(a) ==
    /\ pc[a] = "execute"
    /\ Goto(a, "resolve") \/ Goto(a, "markFailed")
    /\ UNCHANGED <<status, age, item, stamp, failures, term, earlier>>

\* DlqService.resolve, the update: whatever the row says by now.  A failed
\* update falls into the catch block of processRetry.
Resolve(a) ==
    /\ pc[a] = "resolve"
    /\ \/ /\ SetStatus(item[a], "resolved")
          /\ Goto(a, "resolveMetrics")
          /\ UNCHANGED failures
       \/ Fails("store") /\ Goto(a, "markFailed") /\ UNCHANGED <<status, age>>
    /\ UNCHANGED <<item, stamp, term, earlier>>

\* A resolve whose failure is always handled as a failed retry.
ResolveMetricsFails(a) ==
    /\ pc[a] = "resolveMetrics"
    /\ Goto(a, "markFailed")
    /\ UNCHANGED <<status, age, item, stamp, failures, term, earlier>>

\* DlqService.resolve, its trailing gauge query; its failure too falls into
\* the catch block.
ResolveMetrics(a) ==
    /\ pc[a] = "resolveMetrics"
    /\ \/ Goto(a, "idle") /\ UNCHANGED failures
       \/ Fails("metrics") /\ Goto(a, "markFailed")
    /\ UNCHANGED <<status, age, item, stamp, term, earlier>>

\* A failed retry that writes a status no query knows.
MarkRetryFailedUnknown(a) ==
    /\ pc[a] = "markFailed"
    /\ SetStatus(item[a], "failed")
    /\ Goto(a, "idle")
    /\ UNCHANGED <<item, stamp, failures, term, earlier>>

\* DlqService.markRetryFailed: back to pending, whatever the row says by now.
MarkRetryFailed(a) ==
    /\ pc[a] = "markFailed"
    /\ \/ SetStatus(item[a], "pending") /\ UNCHANGED failures
       \/ Fails("store") /\ UNCHANGED <<status, age>>
    /\ Goto(a, "idle")
    /\ UNCHANGED <<item, stamp, term, earlier>>

\* DlqService.skip by an operator, at any time.
Skip(i) ==
    /\ status[i] # "absent"
    /\ SetStatus(i, "skipped")
    /\ earlier' = earlier \cup {a \in Attempt : Running(a) /\ item[a] = i}
    /\ UNCHANGED <<pc, item, stamp, term, failures>>

-----------------------------------------------------------------------------
(* The environment: process deaths, Kafka redelivery, time.                *)

\* The process running an attempt dies.  A message whose offset was not
\* committed is delivered again; anything else is gone.
Crash(a) ==
    /\ Fails("crash")
    /\ pc[a] \in {"claiming"} \cup (Claimed \ {"queued"})
    /\ Goto(a, IF KafkaEnabled /\ pc[a] \notin
                    {"claiming", "claimMetrics", "publish"}
               THEN "queued" ELSE "idle")
    /\ UNCHANGED <<status, age, item, stamp, term, earlier>>

\* The consumer group rebalances while a worker is busy with a message:
\* another worker receives it as well, on the strength of the same claim.
Redeliver(a, b) ==
    /\ "redeliver" \in Faults /\ KafkaEnabled
    /\ pc[a] \in {"execute", "resolve", "resolveMetrics", "markFailed"}
    /\ pc[b] = "idle"
    /\ Goto(b, "queued")
    /\ item' = [item EXCEPT ![b] = item[a]]
    /\ stamp' = [stamp EXCEPT ![b] = stamp[a]]
    /\ term' = [term EXCEPT ![b] = term[a]]
    /\ earlier' = IF a \in earlier THEN earlier \cup {b} ELSE earlier \ {b}
    /\ UNCHANGED <<status, age, failures>>

Older(n) == IF n < MaxAge THEN n + 1 ELSE n

\* Time passes.
Tick ==
    /\ \A a \in Attempt :
        /\ pc[a] = "claiming" => stamp[a] < MaxStall
        /\ Timely /\ pc[a] # "idle" => stamp[a] < Lease
    /\ age' = [i \in Item |-> IF status[i] = "retrying" THEN Older(age[i])
                              ELSE age[i]]
    /\ stamp' = [a \in Attempt |-> IF pc[a] = "idle" THEN stamp[a]
                                   ELSE Older(stamp[a])]
    /\ UNCHANGED <<status, pc, item, failures, term, earlier>>

Work(a) ==
    \/ Claim(a) \/ ClaimMetrics(a) \/ Publish(a) \/ Consume(a) \/ Execute(a)
    \/ Resolve(a) \/ ResolveMetrics(a) \/ MarkRetryFailed(a)

Next ==
    \/ Tick
    \/ \E i \in Item : Add(i) \/ Skip(i)
    \/ \E a \in Attempt :
        \/ Work(a) \/ Crash(a)
        \/ \E i \in Item : BeginClaim(a, i)
        \/ \E b \in Attempt : Redeliver(a, b)

Spec == Init /\ [][Next]_vars

\* Time passes, a running attempt runs on, and an operator who sees an item
\* unresolved keeps asking for a retry of it.
Fairness ==
    /\ WF_vars(Tick)
    /\ \A a \in Attempt : WF_vars(Work(a))
    /\ \A i \in Item : SF_vars(\E a \in Attempt : BeginClaim(a, i))

FairSpec == Spec /\ Fairness

-----------------------------------------------------------------------------
(* Properties.                                                             *)

\* Within its lease an attempt is alone: no two attempts run on one item while
\* both are younger than the shortest lease a claim may read, whatever each of
\* them read (DlqService.retry and every update that ends a retry).
LeaseExclusive ==
    \A a, b \in Attempt :
        /\ a # b
        /\ Running(a) /\ Running(b)
        /\ stamp[a] <= Lease /\ stamp[b] <= Lease
        => item[a] # item[b]

\* A resolved item is never handed out again: it stays resolved unless an
\* operator skips it (resolve and markRetryFailed of processRetry).
ResolvedIsFinal ==
    [][\A i \in Item :
        status[i] = "resolved" => status'[i] \in {"resolved", "skipped"}]_vars

\* A skip binds whatever claims later: every step made on a skipped item, the
\* delivery of its message included, and every write that reopens it is by an
\* attempt whose claim preceded the skip.  A retry asked for before the skip but
\* claimed after it does nothing (the notIn clause of the claim; the
\* unconditional updates of resolve and markRetryFailed).
SkipBindsLaterClaims ==
    [][\A i \in Item : status[i] = "skipped" =>
        /\ \A a \in Attempt :
              pc'[a] \in Claimed /\ pc'[a] # pc[a] /\ item'[a] = i
                  => a \in earlier'
        /\ status'[i] # "skipped" =>
              \E a \in earlier : Running(a) /\ item[a] = i /\ pc'[a] # pc[a]]_vars

\* The rows and the running attempts, seen as the ledger the DLQ promises.
LedgerState ==
    [i \in Item |-> CASE status[i] = "absent" -> "unfiled"
                      [] status[i] \in {"skipped", "resolved"} -> "closed"
                      [] OTHER -> "open"]
LedgerWorkers == [i \in Item |-> {a \in Attempt : Running(a) /\ item[a] = i}]

Ledger == INSTANCE RetryLedger WITH state <- LedgerState,
                                    workers <- LedgerWorkers

\* The retries of an item are exclusive, start only while it is open, and only
\* a running attempt reopens it: DlqService, AdminService and processRetry
\* together implement RetryLedger when no attempt outlives its lease.
ImplementsLedger == Ledger!Spec

\* No item stays "retrying": if processes stop dying, calls stop failing and
\* the operator keeps retrying it, it becomes pending, resolved or skipped, even
\* when the worker that claimed it is gone (the lease branch of the claim).
RetryingEnds ==
    \A i \in Item : status[i] = "retrying" ~> status[i] # "retrying"
=============================================================================
