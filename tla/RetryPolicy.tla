----------------------------- MODULE RetryPolicy -----------------------------
(***************************************************************************)
(* One execution of a write event: RetryPolicyService.forTarget, the loop  *)
(* of RetryService.execute around connector.execute, and what is recorded  *)
(* of its failure.  It is run for a webhook (ProcessingService.process) or *)
(* for a DLQ item (processRetry); an administrator may edit the policy     *)
(* meanwhile.  The lease a claim reads from it is in DlqLease.             *)
(*                                                                         *)
(* A stored policy is a partial function from the field names; its numbers *)
(* are what Number() makes of the JSON values, a field that makes NaN is   *)
(* the same as an absent one.  Times are milliseconds.                     *)
(***************************************************************************)
EXTENDS Integers

CONSTANTS
    StoredPolicies,   \* values TargetSystem.config.retryPolicy may take
    LeaseSetting,     \* DLQ_RETRY_LEASE_SECONDS
    Steps,            \* Math.random() is k / Steps for some k < Steps
    MaxEdits          \* bound: edits of the policy during one execution

Fields == {"maxRetries", "baseDelayMs", "maxDelayMs", "jitter", "dlqLeaseSeconds"}

ASSUME PolicyAssumption ==
    /\ LeaseSetting \in Nat \ {0}
    /\ Steps \in Nat \ {0}
    /\ MaxEdits \in Nat
ASSUME StoredAssumption ==
    \A raw \in StoredPolicies :
        /\ DOMAIN raw \subseteq Fields
        /\ \A f \in DOMAIN raw :
              IF f = "jitter" THEN raw[f] \in BOOLEAN ELSE raw[f] \in Int

VARIABLES
    stored,     \* the retryPolicy in the target's row
    edits,      \* edits so far
    pc,         \* where the execution is
    manual,     \* whether it retries a DLQ item
    policy,     \* the policy the execution read
    calls,      \* calls of connector.execute
    delay,      \* the last delay
    recorded    \* retryCount of the new DLQ item, -1 before

vars == <<stored, edits, pc, manual, policy, calls, delay, recorded>>

DEFAULT_RETRY_POLICY ==
    [maxRetries |-> 3, baseDelayMs |-> 1000, maxDelayMs |-> 30000,
     jitter |-> TRUE, dlqLeaseSeconds |-> 300]

\* A normalisation that takes any integer.
normalizePolicyAny(raw) == raw

\* Numbers are kept when positiveInteger accepts them; jitter is a Boolean.
normalizePolicy(raw) ==
    [f \in {f \in DOMAIN raw : IF f = "jitter" THEN TRUE ELSE raw[f] > 0} |->
        raw[f]]

\* The object spread: the fields of over replace those of under.
Spread(under, over) ==
    [f \in DOMAIN under |-> IF f \in DOMAIN over THEN over[f] ELSE under[f]]

\* The stored policy over the setting over the defaults.
forTarget(raw) ==
    Spread([DEFAULT_RETRY_POLICY EXCEPT !.dlqLeaseSeconds = LeaseSetting],
           normalizePolicy(raw))

\* A row that cannot be read counts as one without a policy.
NoPolicy == [f \in {} |-> 0]
Readings == {forTarget(stored), forTarget(NoPolicy)}

\* Math.pow(2, n).
Pow2[n \in Nat] == IF n = 0 THEN 1 ELSE 2 * Pow2[n - 1]

\* A delay drawn from the whole interval.
calculateDelayFullJitter(attempt, opts, k) ==
    LET exponential == opts.baseDelayMs * Pow2[attempt]
        capped == IF exponential < opts.maxDelayMs THEN exponential
                  ELSE opts.maxDelayMs
    IN  (capped * k) \div Steps

calculateDelay(attempt, opts, k) ==
    LET exponential == opts.baseDelayMs * Pow2[attempt]
        capped == IF exponential < opts.maxDelayMs THEN exponential
                  ELSE opts.maxDelayMs
    IN  IF opts.jitter THEN (capped * (Steps + k)) \div (2 * Steps) ELSE capped

TypeOK ==
    /\ stored \in StoredPolicies
    /\ edits \in 0..MaxEdits
    /\ pc \in {"read", "call", "sleep", "failed", "applied", "ended"}
    /\ manual \in BOOLEAN
    /\ DOMAIN policy = Fields
    /\ \A f \in DOMAIN policy \ {"jitter"} : policy[f] \in Nat \ {0}
    /\ policy.jitter \in BOOLEAN
    /\ calls \in 0..(policy.maxRetries + 1)
    /\ delay \in Nat
    /\ recorded \in Nat \cup {-1}

Init ==
    /\ stored \in StoredPolicies
    /\ edits = 0
    /\ manual \in BOOLEAN
    /\ pc = "read"
    /\ policy = DEFAULT_RETRY_POLICY
    /\ calls = 0
    /\ delay = 0
    /\ recorded = -1

\* TargetSystemService.update by an administrator.
EditPolicy ==
    /\ edits < MaxEdits
    /\ pc # "ended"
    /\ stored' \in StoredPolicies \ {stored}
    /\ edits' = edits + 1
    /\ UNCHANGED <<pc, manual, policy, calls, delay, recorded>>

\* executeWithRetry: the policy of the whole execution.
ReadPolicy ==
    /\ pc = "read"
    /\ policy' \in Readings
    /\ pc' = "call"
    /\ UNCHANGED <<stored, edits, manual, calls, delay, recorded>>

\* fn() resolves: a result with success = false is not retried.
CallReturns ==
    /\ pc = "call"
    /\ calls' = calls + 1
    /\ pc' \in {"applied", "failed"}
    /\ UNCHANGED <<stored, edits, manual, policy, delay, recorded>>

\* fn() rejects: sleep, or throw after the last attempt.
CallThrows ==
    /\ pc = "call"
    /\ calls' = calls + 1
    /\ \/ /\ calls = policy.maxRetries
          /\ pc' = "failed"
          /\ UNCHANGED delay
       \/ /\ calls < policy.maxRetries
          /\ \E k \in 0..(Steps - 1) : delay' = calculateDelay(calls, policy, k)
          /\ pc' = "sleep"
    /\ UNCHANGED <<stored, edits, manual, policy, recorded>>

Sleep ==
    /\ pc = "sleep"
    /\ pc' = "call"
    /\ UNCHANGED <<stored, edits, manual, policy, calls, delay, recorded>>

\* process: the DLQ item gets maxRetries of the policy as it is now.  A manual
\* retry that failed ends in markRetryFailed, which keeps the item's count.
RecordFailure ==
    /\ pc = "failed"
    /\ IF manual THEN UNCHANGED recorded
       ELSE \E p \in Readings : recorded' = p.maxRetries
    /\ pc' = "ended"
    /\ UNCHANGED <<stored, edits, manual, policy, calls, delay>>

Next ==
    \/ EditPolicy \/ ReadPolicy
    \/ CallReturns \/ CallThrows \/ Sleep \/ RecordFailure

Spec == Init /\ [][Next]_vars

-----------------------------------------------------------------------------
(* Properties.                                                             *)

\* Backoff backs off: whatever the jitter, no delay is shorter than the one
\* before it until the cap is reached (calculateDelay).
BackoffGrows ==
    [][delay' >= delay \/ policy.baseDelayMs * Pow2[calls] > policy.maxDelayMs]_vars
=============================================================================
