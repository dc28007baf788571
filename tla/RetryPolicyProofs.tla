--------------------------- MODULE RetryPolicyProofs ---------------------------
(***************************************************************************)
(* The backoff of RetryService for every stored policy, every random draw  *)
(* and any number of edits during an execution.                            *)
(***************************************************************************)
EXTENDS RetryPolicy, WellFoundedInduction, TLAPS

-----------------------------------------------------------------------------
(***************************************************************************)
(* The powers of two.  A recursive function is the CHOOSE of its equation, *)
(* so that there is one has to be shown: the tables of its first values    *)
(* exist and agree.  A set that holds 0 and every successor holds all.     *)
(***************************************************************************)
LEMMA SetInduction ==
    ASSUME NEW S, 0 \in S, \A n \in Nat : n \in S => n + 1 \in S
    PROVE  \A n \in Nat : n \in S
<1> DEFINE Bad == Nat \ S
<1>1. SUFFICES ASSUME Bad # {} PROVE FALSE
  OBVIOUS
<1>2. IsWellFoundedOn(OpToRel(<, Nat), Nat)
  BY NatLessThanWellFounded
<1>3. PICK m \in Bad : \A n \in Bad : ~(<<n, m>> \in OpToRel(<, Nat))
  <2>1. Bad \subseteq Nat
    OBVIOUS
  <2> HIDE DEF Bad
  <2> QED
    BY <1>1, <1>2, <2>1, WFMin
<1>4. m \in Nat /\ m # 0 /\ m - 1 \in Nat
  OBVIOUS
<1>5. m - 1 \notin Bad
  <2>1. \A n \in Bad : ~(n < m)
    BY <1>3 DEF OpToRel
  <2>2. m - 1 < m
    BY <1>4
  <2> HIDE DEF Bad
  <2> QED
    BY <2>1, <2>2
<1>6. (m - 1) + 1 \in S
  BY <1>4, <1>5
<1> QED
  BY <1>4, <1>6

IsTable(g, n) == /\ g \in [0..n -> Nat] /\ g[0] = 1
                 /\ \A i \in 1..n : g[i] = 2 * g[i - 1]

LEMMA TablesExist == \A n \in Nat : \E g : IsTable(g, n)
<1> DEFINE S == {n \in Nat : \E g : IsTable(g, n)}
<1>1. 0 \in S
  <2>1. IsTable([i \in 0..0 |-> 1], 0)
    BY DEF IsTable
  <2> QED
    BY <2>1
<1>2. ASSUME NEW n \in Nat, n \in S PROVE n + 1 \in S
  <2>1. PICK g : IsTable(g, n)
    BY <1>2
  <2> DEFINE h == [i \in 0..(n + 1) |-> IF i = n + 1 THEN 2 * g[n] ELSE g[i]]
  <2>2. h \in [0..(n + 1) -> Nat]
    BY <2>1 DEF IsTable
  <2>3. h[0] = 1
    BY <2>1 DEF IsTable
  <2>4. ASSUME NEW i \in 1..(n + 1) PROVE h[i] = 2 * h[i - 1]
    <3>1. CASE i = n + 1
      BY <3>1
    <3>2. CASE i # n + 1
      <4>1. i \in 1..n /\ i - 1 \in 0..(n + 1) /\ i - 1 # n + 1
        BY <2>4, <3>2
      <4>2. g[i] = 2 * g[i - 1]
        BY <2>1, <4>1 DEF IsTable
      <4> QED
        BY <4>1, <4>2
    <3> QED
      BY <3>1, <3>2
  <2> HIDE DEF h
  <2>5. IsTable(h, n + 1)
    BY <2>2, <2>3, <2>4 DEF IsTable
  <2> QED
    BY <2>5
<1> HIDE DEF S
<1>3. \A n \in Nat : n \in S
  BY <1>1, <1>2, SetInduction
<1> QED
  BY <1>3 DEF S

LEMMA TablesAgree ==
    ASSUME NEW n \in Nat, NEW m \in Nat, NEW g, NEW h, IsTable(g, n), IsTable(h, m),
           NEW k \in Nat, k <= n, k <= m
    PROVE  g[k] = h[k]
<1> DEFINE S == {i \in Nat : i <= n /\ i <= m => g[i] = h[i]}
<1>1. 0 \in S
  BY DEF IsTable
<1>2. ASSUME NEW i \in Nat, i \in S PROVE i + 1 \in S
  <2>1. SUFFICES ASSUME i + 1 <= n, i + 1 <= m PROVE g[i + 1] = h[i + 1]
    OBVIOUS
  <2>2. g[i] = h[i]
    BY <1>2, <2>1
  <2>3. i + 1 \in 1..n /\ i + 1 \in 1..m /\ (i + 1) - 1 = i
    BY <2>1
  <2> QED
    BY <2>2, <2>3 DEF IsTable
<1> HIDE DEF S
<1>3. k \in S
  BY <1>1, <1>2, SetInduction
<1> QED
  BY <1>3 DEF S

\* Math.pow(2, n) doubles.
LEMMA Pow2Doubles ==
    /\ Pow2[0] = 1
    /\ \A n \in Nat : Pow2[n] \in Nat \ {0} /\ Pow2[n + 1] = 2 * Pow2[n]
<1> DEFINE T(n) == CHOOSE g : IsTable(g, n)
           F == [n \in Nat |-> T(n)[n]]
           Eq(f) == f = [n \in Nat |-> IF n = 0 THEN 1 ELSE 2 * f[n - 1]]
<1>1. ASSUME NEW n \in Nat PROVE IsTable(T(n), n)
  BY TablesExist
<1> HIDE DEF T
<1>2. ASSUME NEW n \in Nat, n # 0 PROVE F[n] = 2 * F[n - 1]
  <2>1. n - 1 \in Nat /\ n \in 1..n /\ n - 1 <= n
    BY <1>2
  <2>2. IsTable(T(n), n) /\ IsTable(T(n - 1), n - 1)
    BY <1>1, <2>1
  <2>3. T(n)[n] = 2 * T(n)[n - 1]
    BY <2>1, <2>2 DEF IsTable
  <2>4. T(n)[n - 1] = T(n - 1)[n - 1]
    BY <2>1, <2>2, TablesAgree
  <2> QED
    BY <2>1, <2>3, <2>4
<1>3. F[0] = 1
  BY <1>1 DEF IsTable
<1>4. Eq(F)
  <2> DEFINE G == [n \in Nat |-> IF n = 0 THEN 1 ELSE 2 * F[n - 1]]
  <2>1. \A n \in Nat : F[n] = G[n]
    BY <1>2, <1>3
  <2> QED
    BY <2>1
<1>5. Eq(Pow2)
  <2>1. \E f : Eq(f)
    BY <1>4
  <2>2. Pow2 = CHOOSE f : Eq(f)
    BY DEF Pow2
  <2> HIDE DEF Eq
  <2> QED
    BY <2>1, <2>2
<1> HIDE DEF F
<1>6. Pow2[0] = 1 /\ \A n \in Nat : Pow2[n + 1] = 2 * Pow2[n]
  <2>1. \A n \in Nat : Pow2[n] = IF n = 0 THEN 1 ELSE 2 * Pow2[n - 1]
    BY <1>5
  <2>2. ASSUME NEW n \in Nat PROVE Pow2[n + 1] = 2 * Pow2[n]
    <3>1. n + 1 \in Nat /\ n + 1 # 0 /\ (n + 1) - 1 = n
      OBVIOUS
    <3> QED
      BY <2>1, <3>1
  <2> QED
    BY <2>1, <2>2
<1>7. \A n \in Nat : Pow2[n] \in Nat \ {0}
  <2> DEFINE S == {n \in Nat : Pow2[n] \in Nat \ {0}}
  <2>1. 0 \in S
    BY <1>6
  <2>2. ASSUME NEW n \in Nat, n \in S PROVE n + 1 \in S
    BY <1>6, <2>2
  <2> HIDE DEF S
  <2>3. \A n \in Nat : n \in S
    BY <2>1, <2>2, SetInduction
  <2> QED
    BY <2>3 DEF S
<1> QED
  BY <1>6, <1>7

-----------------------------------------------------------------------------
(* Delays and policies.                                                    *)

LEMMA Floor ==
    ASSUME NEW x \in Nat, NEW d \in Nat \ {0}, NEW q \in Nat
    PROVE  /\ x \div d \in Nat
           /\ q * d <= x => q <= x \div d
           /\ x <= q * d => x \div d <= q
<1> DEFINE r == x \div d
<1>1. r \in Nat /\ d * r <= x /\ x < d * r + d
  OBVIOUS
<1> HIDE DEF r
<1>2. ASSUME q * d <= x, ~(q <= r) PROVE FALSE
  <2>1. q >= r + 1
    BY <1>1, <1>2
  <2>2. q * d >= (r + 1) * d
    BY <1>1, <2>1
  <2> QED
    BY <1>1, <1>2, <2>2
<1>3. ASSUME x <= q * d, ~(r <= q) PROVE FALSE
  <2>1. r >= q + 1
    BY <1>1, <1>3
  <2>2. r * d >= (q + 1) * d
    BY <1>1, <2>1
  <2> QED
    BY <1>1, <1>3, <2>2
<1> QED
  BY <1>1, <1>2, <1>3 DEF r

PolicyOK(p) ==
    /\ DOMAIN p = Fields
    /\ \A f \in Fields \ {"jitter"} : p[f] \in Nat \ {0}
    /\ p.jitter \in BOOLEAN

\* Whatever is stored, what is read is a policy of positive numbers.
LEMMA ReadingsOK ==
    ASSUME stored \in StoredPolicies, NEW p \in Readings
    PROVE  PolicyOK(p)
<1> DEFINE under == [DEFAULT_RETRY_POLICY EXCEPT !.dlqLeaseSeconds = LeaseSetting]
<1>1. PolicyOK(under)
  BY PolicyAssumption DEF PolicyOK, DEFAULT_RETRY_POLICY, Fields
<1>2. ASSUME NEW raw, DOMAIN raw \subseteq Fields,
             \A f \in DOMAIN raw :
                 IF f = "jitter" THEN raw[f] \in BOOLEAN ELSE raw[f] \in Int
      PROVE  PolicyOK(forTarget(raw))
  <2> DEFINE over == normalizePolicy(raw)
  <2>1. /\ DOMAIN over \subseteq Fields
        /\ \A f \in DOMAIN over \ {"jitter"} : over[f] \in Nat \ {0}
        /\ "jitter" \in DOMAIN over => over["jitter"] \in BOOLEAN
    BY <1>2 DEF normalizePolicy
  <2>2. forTarget(raw) = Spread(under, over)
    BY DEF forTarget
  <2> HIDE DEF under, over
  <2>3. /\ DOMAIN forTarget(raw) = Fields
        /\ \A f \in Fields : forTarget(raw)[f] =
              IF f \in DOMAIN over THEN over[f] ELSE under[f]
    BY <1>1, <2>2 DEF Spread, PolicyOK
  <2>4. ASSUME NEW f \in Fields \ {"jitter"} PROVE forTarget(raw)[f] \in Nat \ {0}
    BY <1>1, <2>1, <2>3, <2>4 DEF PolicyOK
  <2>5. forTarget(raw)["jitter"] \in BOOLEAN
    <3>1. "jitter" \in Fields
      BY DEF Fields
    <3>2. CASE "jitter" \in DOMAIN over
      BY <2>1, <2>3, <3>1, <3>2
    <3>3. CASE "jitter" \notin DOMAIN over
      BY <1>1, <2>3, <3>1, <3>3 DEF PolicyOK
    <3> QED
      BY <3>2, <3>3
  <2> QED
    BY <2>3, <2>4, <2>5 DEF PolicyOK
<1>3. PolicyOK(forTarget(stored))
  BY <1>2, StoredAssumption
<1>4. PolicyOK(forTarget(NoPolicy))
  <2>1. DOMAIN NoPolicy = {}
    BY DEF NoPolicy
  <2> QED
    BY <1>2, <2>1
<1> QED
  BY <1>3, <1>4 DEF Readings

\* The delay after attempt n: within the cap and the exponential, and at least
\* half of the exponential as long as that is within the cap.
LEMMA DelayBounds ==
    ASSUME NEW p, PolicyOK(p), NEW n \in Nat, NEW k \in 0..(Steps - 1)
    PROVE  LET d == calculateDelay(n, p, k)
           IN  /\ d \in Nat
               /\ d <= p.maxDelayMs
               /\ d <= p.baseDelayMs * Pow2[n]
               /\ p.baseDelayMs * Pow2[n] <= p.maxDelayMs =>
                     \A q \in Nat : 2 * q <= p.baseDelayMs * Pow2[n] => q <= d
<1> DEFINE e == p.baseDelayMs * Pow2[n]  m == p.maxDelayMs
           c == IF e < m THEN e ELSE m
           x == c * (Steps + k)  y == 2 * Steps
           d == calculateDelay(n, p, k)
<1>1. e \in Nat \ {0}
  <2>1. p.baseDelayMs \in Nat \ {0} /\ Pow2[n] \in Nat \ {0}
    BY Pow2Doubles DEF PolicyOK, Fields
  <2> QED
    BY <2>1
<1>2. m \in Nat \ {0} /\ Steps \in Nat \ {0} /\ k \in Nat /\ k < Steps
  BY PolicyAssumption DEF PolicyOK, Fields
<1>3. p.jitter \in BOOLEAN
  BY DEF PolicyOK
<1>4. d = IF p.jitter THEN x \div y ELSE c
  BY DEF calculateDelay
<1> HIDE DEF e, m
<1>5. c \in Nat /\ c <= m /\ c <= e /\ (e <= m => c = e)
  BY <1>1, <1>2
<1> HIDE DEF c, d
<1>6. x \in Nat /\ y \in Nat \ {0}
  BY <1>2, <1>5
<1>7. x <= c * y
  <2>1. Steps + k \in Nat /\ y \in Nat /\ Steps + k <= y
    BY <1>2
  <2> QED
    BY <1>5, <2>1
<1>8. ASSUME NEW q \in Nat, 2 * q <= c PROVE q * y <= x
  <2>1. q * y = (2 * q) * Steps
    BY <1>2, <1>8
  <2>2. (2 * q) * Steps <= c * Steps
    BY <1>2, <1>5, <1>8
  <2>3. c * Steps <= x
    BY <1>2, <1>5
  <2>4. q * y \in Nat /\ (2 * q) * Steps \in Nat /\ c * Steps \in Nat
    BY <1>2, <1>5, <1>8
  <2> HIDE DEF x, y
  <2> QED
    BY <1>6, <2>1, <2>2, <2>3, <2>4
<1> HIDE DEF x, y
<1>9. x \div y \in Nat /\ x \div y <= c
  BY <1>5, <1>6, <1>7, Floor
<1>10. ASSUME NEW q \in Nat, 2 * q <= c PROVE q <= x \div y
  BY <1>6, <1>8, <1>10, Floor
<1>11. d \in Nat /\ d <= c /\ \A q \in Nat : 2 * q <= c => q <= d
  <2>1. CASE p.jitter
    BY <1>4, <1>9, <1>10, <2>1
  <2>2. CASE ~p.jitter
    <3>1. d = c
      BY <1>4, <2>2
    <3> QED
      BY <1>5, <3>1
  <2> QED
    BY <2>1, <2>2
<1>12. /\ d \in Nat /\ d <= m /\ d <= e
       /\ e <= m => \A q \in Nat : 2 * q <= e => q <= d
  BY <1>1, <1>2, <1>5, <1>11
<1> QED
  BY <1>12 DEF d, e, m

-----------------------------------------------------------------------------
(***************************************************************************)
(* The inductive invariant: the last delay is within the exponential of    *)
(* the call before it.                                                     *)
(***************************************************************************)
DelayInv ==
    /\ PolicyOK(policy)
    /\ pc = "read" => calls = 0
    /\ pc \in {"call", "sleep"} => calls <= policy.maxRetries
    /\ calls = 0 => delay = 0
    /\ calls > 0 /\ pc \in {"call", "sleep"} =>
          delay <= policy.baseDelayMs * Pow2[calls - 1]

Inv == TypeOK /\ DelayInv

LEMMA InitOK == Init => Inv
<1> SUFFICES ASSUME Init PROVE Inv
  OBVIOUS
<1>1. PolicyOK(DEFAULT_RETRY_POLICY)
  BY DEF PolicyOK, DEFAULT_RETRY_POLICY, Fields
<1>2. policy = DEFAULT_RETRY_POLICY /\ calls = 0 /\ delay = 0
  BY DEF Init
<1>3. PolicyOK(policy)
  BY <1>1, <1>2
<1>4. policy.maxRetries \in Nat \ {0}
  BY <1>3 DEF PolicyOK, Fields
<1>5. TypeOK
  BY <1>2, <1>3, <1>4, PolicyAssumption DEF Init, TypeOK, PolicyOK
<1>6. DelayInv
  BY <1>2, <1>3 DEF DelayInv, Init
<1> QED
  BY <1>5, <1>6 DEF Inv

LEMMA StepOK == Inv /\ [Next]_vars => Inv'
<1> SUFFICES ASSUME Inv, [Next]_vars PROVE Inv'
  OBVIOUS
<1>1. /\ TypeOK /\ DelayInv /\ PolicyOK(policy)
      /\ policy.maxRetries \in Nat \ {0} /\ policy.maxDelayMs \in Nat \ {0}
      /\ calls \in Nat /\ delay \in Nat
  BY DEF Inv, TypeOK, DelayInv, PolicyOK, Fields
<1>2. CASE EditPolicy
  <2>1. TypeOK'
    BY <1>1, <1>2, PolicyAssumption DEF EditPolicy, TypeOK
  <2>2. DelayInv'
    BY <1>1, <1>2 DEF EditPolicy, DelayInv, PolicyOK
  <2> QED
    BY <2>1, <2>2 DEF Inv
<1>3. CASE ReadPolicy
  <2>1. /\ policy' \in Readings /\ pc = "read" /\ pc' = "call"
        /\ UNCHANGED <<stored, edits, manual, calls, delay, recorded>>
    BY <1>3 DEF ReadPolicy
  <2>2. PolicyOK(policy')
    BY <1>1, <2>1, ReadingsOK DEF TypeOK
  <2>3. calls = 0 /\ delay = 0
    BY <1>1, <2>1 DEF DelayInv
  <2>4. policy'.maxRetries \in Nat \ {0} /\ policy'.maxDelayMs \in Nat \ {0}
    BY <2>2 DEF PolicyOK, Fields
  <2>6. TypeOK'
    BY <1>1, <2>1, <2>2, <2>3, <2>4 DEF TypeOK, PolicyOK
  <2>7. DelayInv'
    BY <2>1, <2>2, <2>3, <2>4 DEF DelayInv, PolicyOK
  <2> QED
    BY <2>6, <2>7 DEF Inv
<1>4. CASE CallReturns
  <2>1. calls <= policy.maxRetries
    BY <1>1, <1>4 DEF CallReturns, DelayInv
  <2>2. TypeOK'
    BY <1>1, <1>4, <2>1 DEF CallReturns, TypeOK
  <2>3. DelayInv'
    BY <1>1, <1>4 DEF CallReturns, DelayInv, PolicyOK
  <2> QED
    BY <2>2, <2>3 DEF Inv
<1>5. CASE CallThrows
  <2>1. /\ pc = "call" /\ calls' = calls + 1
        /\ UNCHANGED <<stored, edits, manual, policy, recorded>>
    BY <1>5 DEF CallThrows
  <2>2. calls <= policy.maxRetries
    BY <1>1, <2>1 DEF DelayInv
  <2>3. CASE calls = policy.maxRetries /\ pc' = "failed" /\ UNCHANGED delay
    <3>1. TypeOK'
      BY <1>1, <2>1, <2>2, <2>3 DEF TypeOK
    <3>2. DelayInv'
      BY <1>1, <2>1, <2>3 DEF DelayInv, PolicyOK
    <3> QED
      BY <3>1, <3>2 DEF Inv
  <2>4. CASE /\ calls < policy.maxRetries /\ pc' = "sleep"
             /\ \E k \in 0..(Steps - 1) : delay' = calculateDelay(calls, policy, k)
    <3>1. PICK k \in 0..(Steps - 1) : delay' = calculateDelay(calls, policy, k)
      BY <2>4
    <3>2. /\ delay' \in Nat /\ delay' <= policy.maxDelayMs
          /\ delay' <= policy.baseDelayMs * Pow2[calls]
      BY <1>1, <3>1, DelayBounds
    <3>3. TypeOK'
      BY <1>1, <2>1, <2>4, <3>2 DEF TypeOK
    <3>4. /\ calls' > 0 /\ calls' - 1 = calls /\ calls' <= policy.maxRetries
          /\ calls' # 0
      BY <1>1, <2>1, <2>4
    <3>5. DelayInv'
      BY <1>1, <2>1, <2>4, <3>2, <3>4 DEF DelayInv, PolicyOK
    <3> QED
      BY <3>3, <3>5 DEF Inv
  <2> QED
    BY <1>5, <2>3, <2>4 DEF CallThrows
<1>6. CASE Sleep
  <2>1. /\ pc = "sleep" /\ pc' = "call"
        /\ UNCHANGED <<stored, edits, manual, policy, calls, delay, recorded>>
    BY <1>6 DEF Sleep
  <2>2. TypeOK'
    BY <1>1, <2>1 DEF TypeOK
  <2>3. DelayInv'
    BY <1>1, <2>1 DEF DelayInv, PolicyOK
  <2> QED
    BY <2>2, <2>3 DEF Inv
<1>7. CASE RecordFailure
  <2>1. recorded' \in Nat \cup {-1}
    <3>1. CASE manual
      BY <1>1, <1>7, <3>1 DEF RecordFailure, TypeOK
    <3>2. CASE ~manual
      <4>1. PICK p \in Readings : recorded' = p.maxRetries
        BY <1>7, <3>2 DEF RecordFailure
      <4>2. p.maxRetries \in Nat
        BY <1>1, ReadingsOK DEF PolicyOK, Fields, TypeOK
      <4> QED
        BY <4>1, <4>2
    <3> QED
      BY <3>1, <3>2
  <2>2. /\ pc = "failed" /\ pc' = "ended"
        /\ UNCHANGED <<stored, edits, manual, policy, calls, delay>>
    BY <1>7 DEF RecordFailure
  <2>3. TypeOK'
    BY <1>1, <2>1, <2>2 DEF TypeOK
  <2>4. DelayInv'
    BY <1>1, <2>2 DEF DelayInv, PolicyOK
  <2> QED
    BY <2>3, <2>4 DEF Inv
<1>8. CASE UNCHANGED vars
  <2>1. TypeOK'
    BY <1>1, <1>8 DEF vars, TypeOK
  <2>2. DelayInv'
    BY <1>1, <1>8 DEF vars, DelayInv, PolicyOK
  <2> QED
    BY <2>1, <2>2 DEF Inv
<1> QED
  BY <1>2, <1>3, <1>4, <1>5, <1>6, <1>7, <1>8 DEF Next

LEMMA Inductive == Spec => []Inv
BY InitOK, StepOK, PTL DEF Spec

-----------------------------------------------------------------------------
(***************************************************************************)
(* Whatever an administrator stores and however the policy is edited, an   *)
(* execution runs under a policy of positive numbers and calls the         *)
(* connector at most maxRetries + 1 times.                                 *)
(***************************************************************************)
THEOREM Typing == Spec => []TypeOK
<1>1. Inv => TypeOK
  BY DEF Inv
<1> QED
  BY <1>1, Inductive, PTL

(***************************************************************************)
(* Whatever the jitter draws, no delay of calculateDelay is shorter than   *)
(* the one before it as long as the exponential is within the cap.         *)
(***************************************************************************)
THEOREM BackoffIsMonotone == Spec => BackoffGrows
<1>1. Inv /\ [Next]_vars =>
         [delay' >= delay \/ policy.baseDelayMs * Pow2[calls] > policy.maxDelayMs]_vars
  <2>1. SUFFICES ASSUME Inv, [Next]_vars
                 PROVE  delay' >= delay \/ policy.baseDelayMs * Pow2[calls] > policy.maxDelayMs
    OBVIOUS
  <2>2. /\ DelayInv /\ PolicyOK(policy) /\ calls \in Nat /\ delay \in Nat
        /\ policy.baseDelayMs \in Nat /\ policy.maxDelayMs \in Nat
    BY <2>1 DEF Inv, TypeOK, DelayInv, PolicyOK, Fields
  <2>3. CASE UNCHANGED delay
    BY <2>2, <2>3
  <2>4. CASE CallThrows /\ delay' # delay
    <3>1. /\ pc = "call"
          /\ \E k \in 0..(Steps - 1) : delay' = calculateDelay(calls, policy, k)
      BY <2>4 DEF CallThrows
    <3>2. PICK k \in 0..(Steps - 1) : delay' = calculateDelay(calls, policy, k)
      BY <3>1
    <3> DEFINE e == policy.baseDelayMs * Pow2[calls]
    <3>3. /\ delay' \in Nat
          /\ e <= policy.maxDelayMs => \A q \in Nat : 2 * q <= e => q <= delay'
      BY <2>2, <3>2, DelayBounds
    <3>4. e \in Nat
      BY <2>2, Pow2Doubles
    <3>5. 2 * delay <= e
      <4>1. CASE calls = 0
        BY <2>2, <3>4, <4>1 DEF DelayInv
      <4>2. CASE calls # 0
        <5>1. calls - 1 \in Nat /\ (calls - 1) + 1 = calls /\ calls > 0
          BY <2>2, <4>2
        <5>2. Pow2[calls] = 2 * Pow2[calls - 1] /\ Pow2[calls - 1] \in Nat
          BY <5>1, Pow2Doubles
        <5>3. delay <= policy.baseDelayMs * Pow2[calls - 1]
          BY <2>2, <3>1, <5>1 DEF DelayInv
        <5>4. e = 2 * (policy.baseDelayMs * Pow2[calls - 1])
          BY <2>2, <5>2
        <5>5. policy.baseDelayMs * Pow2[calls - 1] \in Nat
          BY <2>2, <5>2
        <5> HIDE DEF e
        <5> QED
          BY <2>2, <5>3, <5>4, <5>5
      <4> QED
        BY <4>1, <4>2
    <3> HIDE DEF e
    <3>6. delay' >= delay \/ e > policy.maxDelayMs
      BY <2>2, <3>3, <3>4, <3>5
    <3> QED
      BY <3>6 DEF e
  <2> QED
    BY <2>1, <2>3, <2>4 DEF Next, vars, EditPolicy, ReadPolicy,
       CallReturns, CallThrows, Sleep, RecordFailure
<1> QED
  BY <1>1, Inductive, PTL DEF Spec, BackoffGrows
=============================================================================
