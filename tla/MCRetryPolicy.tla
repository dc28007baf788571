---------------------------- MODULE MCRetryPolicy ----------------------------
(***************************************************************************)
(* Policies as an administrator may store them: none, a zero and a         *)
(* negative number, which are ignored, many retries, a low cap, a long     *)
(* base delay, no jitter, leases shorter and longer than the default.      *)
(***************************************************************************)
EXTENDS RetryPolicy

MCStoredPolicies ==
    { NoPolicy,
      [maxRetries |-> 0, dlqLeaseSeconds |-> -5],
      [maxRetries |-> 10, jitter |-> FALSE],
      [maxRetries |-> 11, jitter |-> FALSE, baseDelayMs |-> 30000],
      [maxRetries |-> 4, maxDelayMs |-> 1500],
      [maxRetries |-> 10, baseDelayMs |-> 20000, jitter |-> FALSE],
      [maxRetries |-> 2, baseDelayMs |-> 1, dlqLeaseSeconds |-> 60],
      [maxRetries |-> 1, maxDelayMs |-> 90000, dlqLeaseSeconds |-> 600] }
==============================================================================
