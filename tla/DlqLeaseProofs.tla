---------------------------- MODULE DlqLeaseProofs ----------------------------
(***************************************************************************)
(* The DLQ lease for any number of items and attempts, any lease and any   *)
(* claim latency.                                                          *)
(***************************************************************************)
EXTENDS DlqLease, TLAPS

\* Every variable keeps its declared range under every operation of the DLQ,
\* every fault and every death of a process.
THEOREM Typing == Spec => []TypeOK
<1> USE LeaseAssumption, ModeAssumption DEF TypeOK, Claimed, MaxAge, Fails
<1>1. Init => TypeOK
  BY DEF Init
<1>2. TypeOK /\ [Next]_vars => TypeOK'
  <2> SUFFICES ASSUME TypeOK, [Next]_vars PROVE TypeOK'
    OBVIOUS
  <2>1. CASE Tick
    BY <2>1 DEF Tick, Older
  <2>2. ASSUME NEW i \in Item, Add(i) \/ Skip(i) PROVE TypeOK'
    BY <2>2 DEF Add, Skip, SetStatus
  <2>3. ASSUME NEW a \in Attempt, NEW i \in Item, BeginClaim(a, i)
        PROVE  TypeOK'
    BY <2>3 DEF BeginClaim, Goto
  <2>4. ASSUME NEW a \in Attempt, Claim(a) PROVE TypeOK'
    BY <2>4 DEF Claim, Goto
  <2>5. ASSUME NEW a \in Attempt,
               \/ ClaimMetrics(a) \/ Publish(a) \/ Consume(a) \/ Execute(a)
               \/ ResolveMetrics(a)
        PROVE  TypeOK'
    BY <2>5 DEF ClaimMetrics, Publish, Consume, Execute, ResolveMetrics, Goto
  <2>6. ASSUME NEW a \in Attempt, Resolve(a) \/ MarkRetryFailed(a)
        PROVE  TypeOK'
    BY <2>6 DEF Resolve, MarkRetryFailed, SetStatus, Goto
  <2>7. ASSUME NEW a \in Attempt, Crash(a) PROVE TypeOK'
    BY <2>7 DEF Crash, Goto
  <2>8. ASSUME NEW a \in Attempt, NEW b \in Attempt, Redeliver(a, b)
        PROVE  TypeOK'
    BY <2>8 DEF Redeliver, Goto
  <2>9. CASE UNCHANGED vars
    BY <2>9 DEF vars
  <2> QED
    BY <2>1, <2>2, <2>3, <2>4, <2>5, <2>6, <2>7, <2>8, <2>9 DEF Next, Work
<1> QED
  BY <1>1, <1>2, PTL DEF Spec

-----------------------------------------------------------------------------
(* Exclusion.  It rests on two assumptions about the deployment: attempts  *)
(* end within their lease, and Kafka does not hand a message to a second   *)
(* worker while the first one is busy with it.                             *)

Disciplined == Timely /\ "redeliver" \notin Faults

WithinLease == \A a \in Attempt : pc[a] # "idle" => stamp[a] <= Lease

\* While an attempt runs its item is never free, and if the row still says
\* "retrying" its lock is no older than the attempt's own lease.
RunningHoldsItem ==
    \A a \in Attempt :
        Running(a) =>
            /\ status[item[a]] \notin {"absent", "pending"}
            /\ status[item[a]] = "retrying" => age[item[a]] <= stamp[a]

OneRunning ==
    \A a, b \in Attempt :
        a # b /\ Running(a) /\ Running(b) => item[a] # item[b]

LeaseInv == WithinLease /\ RunningHoldsItem /\ OneRunning

\* A claim that finds its item free to take, or its lock expired by whatever
\* lease it read, finds nobody running on it.
LEMMA ClaimableIsFree ==
    ASSUME TypeOK, LeaseInv, NEW a \in Attempt, pc[a] = "claiming", Claimable(a)
    PROVE  \A b \in Attempt : Running(b) => item[b] # item[a]
<1>1. term[a] \in Nat /\ term[a] >= Lease /\ Lease \in Nat
  <2>1. term[a] \in Leases
    BY DEF TypeOK
  <2>2. term[a] \in Lease..MaxLease
    BY <2>1, LeaseAssumption
  <2> QED
    BY <2>2, LeaseAssumption
<1>2. SUFFICES ASSUME NEW b \in Attempt, Running(b), item[b] = item[a]
               PROVE  FALSE
  OBVIOUS
<1>3. status[item[a]] = "retrying" /\ Expired(a)
  BY <1>2 DEF LeaseInv, RunningHoldsItem, Claimable, TypeOK
<1>4. /\ age[item[a]] <= stamp[b] /\ stamp[b] <= Lease
      /\ age[item[a]] \in Nat /\ stamp[a] \in Nat /\ stamp[b] \in Nat
  BY <1>2, <1>3, LeaseAssumption
     DEF LeaseInv, RunningHoldsItem, WithinLease, Running, Claimed, TypeOK, MaxAge
<1> QED
  BY <1>1, <1>3, <1>4 DEF Expired

\* Each operation keeps the running attempts of an item to one and within the
\* lease the row records.
LEMMA LeaseInvStep ==
    ASSUME Disciplined, TypeOK, LeaseInv, [Next]_vars
    PROVE  LeaseInv'
<1> USE LeaseAssumption, ModeAssumption
        DEF TypeOK, Claimed, MaxAge, Disciplined, LeaseInv, WithinLease,
            RunningHoldsItem, OneRunning, Running
<1>1. CASE Tick
  BY <1>1 DEF Tick, Older
<1>2. ASSUME NEW i \in Item, Add(i) \/ Skip(i) PROVE LeaseInv'
  BY <1>2 DEF Add, Skip, SetStatus
<1>3. ASSUME NEW a \in Attempt, NEW i \in Item, BeginClaim(a, i)
      PROVE  LeaseInv'
  BY <1>3 DEF BeginClaim, Goto
<1>4. ASSUME NEW a \in Attempt, Claim(a) PROVE LeaseInv'
  <2>1. CASE Claimable(a)
    <3>1. \A b \in Attempt : Running(b) => item[b] # item[a]
      BY <1>4, <2>1, ClaimableIsFree DEF Claim
    <3> QED
      BY <1>4, <2>1, <3>1 DEF Claim, Goto
  <2>2. CASE ~Claimable(a)
    BY <1>4, <2>2 DEF Claim, Goto
  <2> QED
    BY <2>1, <2>2
<1>5. ASSUME NEW a \in Attempt,
             \/ ClaimMetrics(a) \/ Publish(a) \/ Consume(a) \/ Execute(a)
             \/ ResolveMetrics(a)
      PROVE  LeaseInv'
  BY <1>5 DEF ClaimMetrics, Publish, Consume, Execute, ResolveMetrics, Goto
<1>6. ASSUME NEW a \in Attempt, Resolve(a) \/ MarkRetryFailed(a)
      PROVE  LeaseInv'
  BY <1>6 DEF Resolve, MarkRetryFailed, SetStatus, Goto
<1>7. ASSUME NEW a \in Attempt, Crash(a) PROVE LeaseInv'
  BY <1>7 DEF Crash, Goto
<1>8. ASSUME NEW a \in Attempt, NEW b \in Attempt, Redeliver(a, b)
      PROVE  LeaseInv'
  BY <1>8 DEF Redeliver
<1>9. CASE UNCHANGED vars
  BY <1>9 DEF vars
<1> QED
  BY <1>1, <1>2, <1>3, <1>4, <1>5, <1>6, <1>7, <1>8, <1>9 DEF Next, Work

\* LeaseInv holds throughout a disciplined deployment.
LEMMA LeaseInvariant ==
    ASSUME Disciplined
    PROVE  Spec => []LeaseInv
<1>1. Init => LeaseInv
  BY LeaseAssumption DEF Init, LeaseInv, WithinLease, RunningHoldsItem,
     OneRunning, Running, Claimed
<1>2. TypeOK /\ LeaseInv /\ [Next]_vars => LeaseInv'
  BY LeaseInvStep
<1> QED
  BY <1>1, <1>2, Typing, PTL DEF Spec

\* Two attempts never run on one item within their leases, in both retry
\* modes and whatever claims, gauge queries, sends or processes fail.
THEOREM LeaseIsExclusive ==
    ASSUME Disciplined
    PROVE  Spec => []LeaseExclusive
<1>1. LeaseInv => LeaseExclusive
  BY DEF LeaseInv, OneRunning, LeaseExclusive
<1> QED
  BY <1>1, LeaseInvariant, PTL

-----------------------------------------------------------------------------
(* Resolution.                                                             *)

\* When the gauge query after resolve cannot fail and no finished message is
\* delivered again after a crash, only the attempt that resolved an item is
\* still running on it.
ResolutionSafe == "metrics" \notin Faults /\ (KafkaEnabled => "crash" \notin Faults)

ResolverOnly ==
    \A a \in Attempt :
        Running(a) /\ status[item[a]] = "resolved" => pc[a] = "resolveMetrics"

\* ResolverOnly is preserved, given exclusion.
LEMMA ResolverOnlyStep ==
    ASSUME Disciplined, ResolutionSafe, TypeOK, LeaseInv, ResolverOnly,
           [Next]_vars
    PROVE  ResolverOnly'
<1> USE LeaseAssumption, ModeAssumption
        DEF TypeOK, Claimed, Disciplined, ResolutionSafe, LeaseInv, OneRunning,
            Running, ResolverOnly, Fails
<1>1. CASE Tick
  BY <1>1 DEF Tick
<1>2. ASSUME NEW i \in Item, Add(i) \/ Skip(i) PROVE ResolverOnly'
  BY <1>2 DEF Add, Skip, SetStatus
<1>3. ASSUME NEW a \in Attempt, NEW i \in Item, BeginClaim(a, i)
      PROVE  ResolverOnly'
  BY <1>3 DEF BeginClaim, Goto
<1>4. ASSUME NEW a \in Attempt, Claim(a) PROVE ResolverOnly'
  BY <1>4 DEF Claim, Claimable, Goto
<1>5. ASSUME NEW a \in Attempt,
             \/ ClaimMetrics(a) \/ Publish(a) \/ Consume(a) \/ Execute(a)
             \/ ResolveMetrics(a)
      PROVE  ResolverOnly'
  BY <1>5 DEF ClaimMetrics, Publish, Consume, Execute, ResolveMetrics, Goto
<1>6. ASSUME NEW a \in Attempt, Resolve(a) \/ MarkRetryFailed(a)
      PROVE  ResolverOnly'
  BY <1>6 DEF Resolve, MarkRetryFailed, SetStatus, Goto
<1>7. ASSUME NEW a \in Attempt, Crash(a) PROVE ResolverOnly'
  BY <1>7 DEF Crash, Goto
<1>8. ASSUME NEW a \in Attempt, NEW b \in Attempt, Redeliver(a, b)
      PROVE  ResolverOnly'
  BY <1>8 DEF Redeliver
<1>9. CASE UNCHANGED vars
  BY <1>9 DEF vars
<1> QED
  BY <1>1, <1>2, <1>3, <1>4, <1>5, <1>6, <1>7, <1>8, <1>9 DEF Next, Work

\* A resolved item is never pending or retrying again.
THEOREM ResolvedStaysResolved ==
    ASSUME Disciplined, ResolutionSafe
    PROVE  Spec => ResolvedIsFinal
<1>1. Init => ResolverOnly
  BY DEF Init, ResolverOnly, Running, Claimed
<1>2. TypeOK /\ LeaseInv /\ ResolverOnly /\ [Next]_vars => ResolverOnly'
  BY ResolverOnlyStep
<1>3. TypeOK /\ ResolverOnly /\ [Next]_vars
        => [\A i \in Item : status[i] = "resolved"
                => status'[i] \in {"resolved", "skipped"}]_vars
  BY DEF Next, Work, Tick, Add, Skip, BeginClaim, Claim, Claimable,
     ClaimMetrics, Publish, Consume, Execute, Resolve, ResolveMetrics,
     MarkRetryFailed, Crash, Redeliver, SetStatus, Goto, ResolverOnly,
     Running, Claimed, TypeOK, vars
<1> QED
  BY <1>1, <1>2, <1>3, Typing, LeaseInvariant, PTL DEF Spec, ResolvedIsFinal

-----------------------------------------------------------------------------
(* Skipping, with no assumption on the deployment at all.                  *)

\* An attempt runs on a skipped item only if it had claimed it before.
EarlierOnly ==
    \A a \in Attempt : Running(a) /\ status[item[a]] = "skipped" => a \in earlier

\* Every operation, death and redelivery preserves EarlierOnly.
LEMMA EarlierOnlyInvariant == Spec => []EarlierOnly
<1> USE DEF EarlierOnly, Running, Claimed
<1>1. Init => EarlierOnly
  BY DEF Init
<1>2. TypeOK /\ EarlierOnly /\ [Next]_vars => EarlierOnly'
  <2> SUFFICES ASSUME TypeOK, EarlierOnly, [Next]_vars PROVE EarlierOnly'
    OBVIOUS
  <2> USE DEF TypeOK
  <2>1. CASE Tick
    BY <2>1 DEF Tick
  <2>2. ASSUME NEW i \in Item, Add(i) \/ Skip(i) PROVE EarlierOnly'
    BY <2>2 DEF Add, Skip, SetStatus
  <2>3. ASSUME NEW a \in Attempt, NEW i \in Item, BeginClaim(a, i)
        PROVE  EarlierOnly'
    BY <2>3 DEF BeginClaim, Goto
  <2>4. ASSUME NEW a \in Attempt, Claim(a) PROVE EarlierOnly'
    BY <2>4 DEF Claim, Claimable, Goto
  <2>5. ASSUME NEW a \in Attempt,
               \/ ClaimMetrics(a) \/ Publish(a) \/ Consume(a) \/ Execute(a)
               \/ ResolveMetrics(a)
        PROVE  EarlierOnly'
    BY <2>5 DEF ClaimMetrics, Publish, Consume, Execute, ResolveMetrics, Goto
  <2>6. ASSUME NEW a \in Attempt, Resolve(a) \/ MarkRetryFailed(a)
        PROVE  EarlierOnly'
    BY <2>6 DEF Resolve, MarkRetryFailed, SetStatus, Goto
  <2>7. ASSUME NEW a \in Attempt, Crash(a) PROVE EarlierOnly'
    BY <2>7 DEF Crash, Goto
  <2>8. ASSUME NEW a \in Attempt, NEW b \in Attempt, Redeliver(a, b)
        PROVE  EarlierOnly'
    BY <2>8 DEF Redeliver, Goto
  <2>9. CASE UNCHANGED vars
    BY <2>9 DEF vars
  <2> QED
    BY <2>1, <2>2, <2>3, <2>4, <2>5, <2>6, <2>7, <2>8, <2>9 DEF Next, Work
<1> QED
  BY Typing, <1>1, <1>2, PTL DEF Spec

\* Whatever claims after an operator's skip does nothing on the item, under
\* every fault, expired leases and redelivery included.
THEOREM SkipIsRespectedByNewAttempts == Spec => SkipBindsLaterClaims
<1> DEFINE Binds(i) ==
        /\ \A a \in Attempt :
              pc'[a] \in Claimed /\ pc'[a] # pc[a] /\ item'[a] = i
                  => a \in earlier'
        /\ status'[i] # "skipped" =>
              \E a \in earlier : Running(a) /\ item[a] = i /\ pc'[a] # pc[a]
<1>1. ASSUME TypeOK, EarlierOnly, Next, NEW i \in Item, status[i] = "skipped"
      PROVE  Binds(i)
  <2> USE <1>1 DEF EarlierOnly, Running, Claimed, TypeOK
  <2>1. CASE Tick
    BY <2>1 DEF Tick
  <2>2. ASSUME NEW j \in Item, Add(j) \/ Skip(j) PROVE Binds(i)
    BY <2>2 DEF Add, Skip, SetStatus
  <2>3. ASSUME NEW a \in Attempt, NEW j \in Item, BeginClaim(a, j)
        PROVE  Binds(i)
    BY <2>3 DEF BeginClaim, Goto
  <2>4. ASSUME NEW a \in Attempt, Claim(a) PROVE Binds(i)
    BY <2>4 DEF Claim, Claimable, Goto
  <2>5. ASSUME NEW a \in Attempt,
               \/ ClaimMetrics(a) \/ Publish(a) \/ Consume(a) \/ Execute(a)
               \/ ResolveMetrics(a)
        PROVE  Binds(i)
    BY <2>5 DEF ClaimMetrics, Publish, Consume, Execute, ResolveMetrics, Goto
  <2>6. ASSUME NEW a \in Attempt, Resolve(a) \/ MarkRetryFailed(a)
        PROVE  Binds(i)
    BY <2>6 DEF Resolve, MarkRetryFailed, SetStatus, Goto
  <2>7. ASSUME NEW a \in Attempt, Crash(a) PROVE Binds(i)
    BY <2>7 DEF Crash, Goto
  <2>8. ASSUME NEW a \in Attempt, NEW b \in Attempt, Redeliver(a, b)
        PROVE  Binds(i)
    BY <2>8 DEF Redeliver, Goto
  <2> HIDE DEF Binds
  <2> QED
    BY <2>1, <2>2, <2>3, <2>4, <2>5, <2>6, <2>7, <2>8 DEF Next, Work
<1>2. TypeOK /\ EarlierOnly /\ [Next]_vars
        => [\A i \in Item : status[i] = "skipped" => Binds(i)]_vars
  <2> HIDE DEF Binds
  <2> QED
    BY <1>1
<1> QED
  BY <1>2, Typing, EarlierOnlyInvariant, PTL DEF Spec, SkipBindsLaterClaims

-----------------------------------------------------------------------------
(* The DLQ implements RetryLedger.                                         *)

\* A step that starts or ends no attempt leaves the ledger's workers alone.
LEMMA SameWorkers ==
    ASSUME \A a \in Attempt : Running(a)' = Running(a),
           \A a \in Attempt : Running(a) => item'[a] = item[a]
    PROVE  LedgerWorkers' = LedgerWorkers
BY DEF LedgerWorkers

\* The end of attempt a, with the row untouched or set back to pending.
LEMMA EndOfAttempt ==
    ASSUME TypeOK, LeaseInv, NEW a \in Attempt, Running(a),
           pc' = [pc EXCEPT ![a] = "idle"], item' = item,
           \/ status' = status
           \/ status' = [status EXCEPT ![item[a]] = "pending"]
    PROVE  Ledger!End(a, item[a])
<1> USE DEF TypeOK
<1>1. LedgerWorkers[item[a]] = {a}
  BY DEF LedgerWorkers, LeaseInv, OneRunning
<1>2. LedgerWorkers' = [LedgerWorkers EXCEPT ![item[a]] = {}]
  <2>1. \A b \in Attempt : Running(b)' <=> Running(b) /\ b # a
    BY DEF Running, Claimed
  <2>2. \A b \in Attempt : Running(b) /\ item[b] = item[a] => b = a
    BY DEF LeaseInv, OneRunning
  <2>3. ASSUME NEW i \in Item
        PROVE  {b \in Attempt : Running(b)' /\ item'[b] = i} =
               IF i = item[a] THEN {}
               ELSE {b \in Attempt : Running(b) /\ item[b] = i}
    <3>1. item' = item
      OBVIOUS
    <3>2. CASE i = item[a]
      BY <2>1, <2>2, <3>1, <3>2
    <3>3. CASE i # item[a]
      <4>1. \A b \in Attempt : Running(b)' /\ item'[b] = i
                                 <=> Running(b) /\ item[b] = i
        BY <2>1, <3>1, <3>3
      <4> QED
        BY <3>3, <4>1
    <3> QED
      BY <3>2, <3>3
  <2>4. item[a] \in Item
    OBVIOUS
  <2> HIDE DEF TypeOK
  <2> QED
    BY ONLY <2>3, <2>4 DEF LedgerWorkers
<1>3. LedgerState' \in {LedgerState,
                        [LedgerState EXCEPT ![item[a]] = "open"]}
  <2>1. CASE status' = status
    BY <2>1 DEF LedgerState
  <2>2. CASE status' = [status EXCEPT ![item[a]] = "pending"]
    <3>1. LedgerState' = [LedgerState EXCEPT ![item[a]] = "open"]
      BY <2>2 DEF LedgerState
    <3> QED
      BY <3>1
  <2> QED
    BY <2>1, <2>2
<1> QED
  BY <1>1, <1>2, <1>3 DEF Ledger!End

\* Every step of the DLQ is a step of the ledger or changes nothing in it.
LEMMA LedgerStep ==
    ASSUME Disciplined, TypeOK, LeaseInv, TypeOK', [Next]_vars
    PROVE  [Ledger!Next]_(Ledger!vars)
<1> USE ModeAssumption DEF TypeOK
<1>1. ASSUME NEW i \in Item, Add(i) PROVE Ledger!File(i)
  <2>1. LedgerWorkers' = LedgerWorkers
    BY <1>1, SameWorkers DEF Add, Running
  <2>2. /\ LedgerState[i] = "unfiled"
        /\ LedgerState' = [LedgerState EXCEPT ![i] = "open"]
    BY <1>1 DEF Add, SetStatus, LedgerState
  <2> QED
    BY <2>1, <2>2 DEF Ledger!File
<1>2. ASSUME NEW i \in Item, Skip(i) PROVE Ledger!Close(i)
  <2>1. LedgerWorkers' = LedgerWorkers
    BY <1>2, SameWorkers DEF Skip, Running
  <2>2. /\ LedgerState[i] # "unfiled"
        /\ LedgerState' = [LedgerState EXCEPT ![i] = "closed"]
    BY <1>2 DEF Skip, SetStatus, LedgerState
  <2> QED
    BY <2>1, <2>2 DEF Ledger!Close
<1>3. ASSUME NEW a \in Attempt, Claim(a), Claimable(a)
      PROVE  Ledger!Start(a, item[a])
  <2>1. LedgerState[item[a]] = "open" /\ LedgerState' = LedgerState
    BY <1>3 DEF Claim, Claimable, LedgerState
  <2>2. LedgerWorkers[item[a]] = {}
    BY <1>3, ClaimableIsFree DEF Claim, LedgerWorkers
  <2>3. LedgerWorkers' = [LedgerWorkers EXCEPT ![item[a]] = {a}]
    <3>1. \A b \in Attempt : Running(b)' <=> Running(b) \/ b = a
      BY <1>3 DEF Claim, Goto, Running, Claimed
    <3>2. item' = item /\ ~\E b \in Attempt : Running(b) /\ item[b] = item[a]
      BY <1>3, <2>2 DEF Claim, LedgerWorkers
    <3>3. ASSUME NEW i \in Item
          PROVE  {b \in Attempt : Running(b)' /\ item'[b] = i} =
                 IF i = item[a] THEN {a}
                 ELSE {b \in Attempt : Running(b) /\ item[b] = i}
      BY <3>1, <3>2
    <3> QED
      BY <3>3 DEF LedgerWorkers
  <2> QED
    BY <2>1, <2>2, <2>3 DEF Ledger!Start
<1>4. ASSUME NEW a \in Attempt, Resolve(a), status' # status
      PROVE  Ledger!Close(item[a])
  <2>1. LedgerWorkers' = LedgerWorkers
    BY <1>4, SameWorkers DEF Resolve, Goto, Running, Claimed
  <2>2. Running(a)
    BY <1>4 DEF Resolve, Running, Claimed
  <2>3. /\ LedgerState[item[a]] # "unfiled"
        /\ LedgerState' = [LedgerState EXCEPT ![item[a]] = "closed"]
    BY <1>4, <2>2 DEF Resolve, SetStatus, LedgerState, LeaseInv,
       RunningHoldsItem
  <2> QED
    BY <2>1, <2>3 DEF Ledger!Close
<1>5. ASSUME NEW a \in Attempt,
             \/ ClaimMetrics(a) \/ Publish(a) \/ Consume(a)
             \/ ResolveMetrics(a) \/ MarkRetryFailed(a) \/ Crash(a),
             pc[a] # "claiming", pc'[a] = "idle"
      PROVE  Ledger!End(a, item[a])
  <2>1. Running(a) /\ pc' = [pc EXCEPT ![a] = "idle"] /\ item' = item
    BY <1>5 DEF ClaimMetrics, Publish, Consume, ResolveMetrics, MarkRetryFailed,
       Crash, Goto, Running, Claimed
  <2>2. \/ status' = status
        \/ status' = [status EXCEPT ![item[a]] = "pending"]
    BY <1>5 DEF ClaimMetrics, Publish, Consume, ResolveMetrics, MarkRetryFailed,
       Crash, SetStatus
  <2> QED
    BY <2>1, <2>2, EndOfAttempt
<1>6. ASSUME status' = status,
             \A a \in Attempt : Running(a)' = Running(a),
             \A a \in Attempt : Running(a) => item'[a] = item[a]
      PROVE  UNCHANGED Ledger!vars
  <2>1. LedgerWorkers' = LedgerWorkers
    BY <1>6, SameWorkers
  <2>2. LedgerState' = LedgerState
    BY <1>6 DEF LedgerState
  <2> QED
    BY <2>1, <2>2 DEF Ledger!vars
<1>7. ASSUME NEW a \in Attempt, NEW i \in Item, BeginClaim(a, i)
      PROVE  UNCHANGED Ledger!vars
  BY <1>6, <1>7 DEF BeginClaim, Goto, Running, Claimed
<1>8. ASSUME NEW a \in Attempt,
             \/ Claim(a) /\ ~Claimable(a)
             \/ Execute(a)
             \/ Resolve(a) /\ status' = status
             \/ /\ \/ ClaimMetrics(a) \/ Publish(a) \/ Consume(a)
                   \/ ResolveMetrics(a) \/ Crash(a)
                /\ pc[a] = "claiming" \/ pc'[a] # "idle"
      PROVE  UNCHANGED Ledger!vars
  BY <1>6, <1>8 DEF Claim, Consume, Execute, Resolve, ClaimMetrics, Publish,
     ResolveMetrics, Crash, SetStatus, Goto, Running, Claimed
<1>9. ASSUME NEW a \in Attempt, Work(a) \/ Crash(a)
      PROVE  Ledger!Next \/ UNCHANGED Ledger!vars
  <2>1. item[a] \in Item
    OBVIOUS
  <2>2. MarkRetryFailed(a) => pc[a] # "claiming" /\ pc'[a] = "idle"
    BY DEF MarkRetryFailed, Goto
  <2> QED
    BY <1>3, <1>4, <1>5, <1>8, <1>9, <2>1, <2>2 DEF Work, Ledger!Next
<1>10. CASE Tick
  BY <1>6, <1>10 DEF Tick, Running
<1>11. CASE UNCHANGED vars
  BY <1>6, <1>11 DEF vars, Running
<1>12. ASSUME NEW a \in Attempt, NEW b \in Attempt, Redeliver(a, b)
       PROVE  FALSE
  BY <1>12 DEF Redeliver, Disciplined
<1> QED
  BY <1>1, <1>2, <1>7, <1>9, <1>10, <1>11, <1>12 DEF Next, Ledger!Next

\* DlqService, AdminService and processRetry implement the ledger: exclusive
\* retries, none started on a closed item, none reopened by a stranger.
THEOREM DlqImplementsLedger ==
    ASSUME Disciplined
    PROVE  Spec => ImplementsLedger
<1>1. Init => Ledger!Init
  BY DEF Init, Ledger!Init, LedgerState, LedgerWorkers, Running, Claimed
<1>2. TypeOK /\ LeaseInv /\ TypeOK' /\ [Next]_vars
        => [Ledger!Next]_(Ledger!vars)
  BY LedgerStep
<1> QED
  BY <1>1, <1>2, Typing, LeaseInvariant, PTL
     DEF Spec, ImplementsLedger, Ledger!Spec
===============================================================================
