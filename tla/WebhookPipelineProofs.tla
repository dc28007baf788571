------------------------ MODULE WebhookPipelineProofs ------------------------
(***************************************************************************)
(* What the synchronous webhook path guarantees for every set of calls,    *)
(* every assignment of events to calls and every TTL.                      *)
(***************************************************************************)
EXTENDS WebhookPipeline, TLAPS

\* Every variable keeps its declared range, whatever the store, the mode and
\* the faults (all actions of the webhook path).
THEOREM Typing == Spec => []TypeOK
<1> USE RequestAssumption, ModeAssumption, TTLAssumption
        DEF TypeOK, Locking, InFlight, Answered
<1>1. Init => TypeOK
  BY DEF Init
<1>2. TypeOK /\ [Next]_vars => TypeOK'
  <2> SUFFICES ASSUME TypeOK, [Next]_vars PROVE TypeOK'
    OBVIOUS
  <2>1. CASE Tick
    BY <2>1 DEF Tick
  <2>2. ASSUME NEW r \in Request, SetNx(r) \/ TxFind(r) \/ TxUpsert(r)
        PROVE  TypeOK'
    BY <2>2 DEF SetNx, TxFind, TxUpsert, TakeKey, AnswerDuplicate, Goto
  <2>3. ASSUME NEW r \in Request, StoreFails(r) PROVE TypeOK'
    BY <2>3 DEF StoreFails, Goto
  <2>4. ASSUME NEW r \in Request, ExecuteOk(r) \/ ExecuteFails(r) \/ Read(r)
        PROVE  TypeOK'
    BY <2>4 DEF ExecuteOk, ExecuteFails, Read, Goto
  <2>5. ASSUME NEW r \in Request, DlqCreate(r) \/ DlqMetrics(r) PROVE TypeOK'
    BY <2>5 DEF DlqCreate, DlqMetrics, Fail, Goto
  <2>6. ASSUME NEW r \in Request, StatusSuccess(r) \/ StatusFailed(r)
        PROVE  TypeOK'
    BY <2>6 DEF StatusSuccess, StatusFailed, Fail, Goto
  <2>7. ASSUME NEW r \in Request, Catch(r) \/ Crash(r) PROVE TypeOK'
    BY <2>7 DEF Catch, Crash, Goto
  <2>8. CASE UNCHANGED vars
    BY <2>8 DEF vars
  <2> QED
    BY <2>1, <2>2, <2>3, <2>4, <2>5, <2>6, <2>7, <2>8 DEF Next, Step
<1> QED
  BY <1>1, <1>2, PTL DEF Spec

-----------------------------------------------------------------------------
(* One effect per event.  The guarantee needs a store whose set-if-absent  *)
(* is atomic, and neither the DLQ gauge query nor the status topic may     *)
(* fail: each of the three breaks it (the violation runs).                 *)

AtomicStore == Store # "readCommitted"
StatusesSafe == "metrics" \notin Faults /\ (KafkaEnabled => "kafka" \notin Faults)

\* A call that is running under the key or has left an effect.
Engaged(r) == pc[r] \in InFlight \/ (effect[r] # "none" /\ ~Untraced(r))

EngagedHoldsKey ==
    \A r \in Request :
        Engaged(r) /\ EventOf[r] \notin lapsed => lock[EventOf[r]] > 0

OneEngaged ==
    \A r1, r2 \in Request :
        r1 # r2 /\ EventOf[r1] = EventOf[r2] /\ Engaged(r1) /\ Engaged(r2)
            => EventOf[r1] \in lapsed

\* An error that lets go of the key means the event has had no effect that
\* the middleware knows of.
ReleaseIsSafe ==
    \A r \in Request :
        /\ pc[r] \in {"idle", "upsert", "execute"} => effect[r] = "none"
        /\ pc[r] = "dlqCreate" => effect[r] \notin Settled
        /\ pc[r] \in {"statusFailed", "caught"} /\ err[r] # "durable"
              => effect[r] \notin Settled

PathsOfMode ==
    \A r \in Request :
        /\ Store = "redis" => pc[r] # "upsert"
        /\ ~KafkaEnabled => pc[r] \notin {"statusSuccess", "statusFailed"}

OnceInv == EngagedHoldsKey /\ OneEngaged /\ ReleaseIsSafe /\ PathsOfMode

\* Every step of a call or of the clock preserves the four parts of OnceInv.
LEMMA OnceInvStep ==
    ASSUME AtomicStore, StatusesSafe, TypeOK, OnceInv, [Next]_vars
    PROVE  OnceInv'
<1> USE RequestAssumption, ModeAssumption, TTLAssumption
        DEF TypeOK, InFlight, Answered, Locking, OnceInv, EngagedHoldsKey,
            OneEngaged, ReleaseIsSafe, PathsOfMode, Engaged, Untraced, Settled,
            AtomicStore, StatusesSafe
<1>1. CASE Tick
  BY <1>1 DEF Tick
<1>2. ASSUME NEW r \in Request, SetNx(r) PROVE OnceInv'
  BY <1>2 DEF SetNx, TakeKey, AnswerDuplicate, Goto
<1>3. ASSUME NEW r \in Request, TxFind(r) PROVE OnceInv'
  BY <1>3 DEF TxFind, AnswerDuplicate, Goto
<1>4. ASSUME NEW r \in Request, TxUpsert(r) PROVE OnceInv'
  BY <1>4 DEF TxUpsert, TakeKey, AnswerDuplicate, Goto
<1>5. ASSUME NEW r \in Request, StoreFails(r) PROVE OnceInv'
  BY <1>5 DEF StoreFails, Goto
<1>6. ASSUME NEW r \in Request, ExecuteOk(r) \/ ExecuteFails(r) PROVE OnceInv'
  BY <1>6 DEF ExecuteOk, ExecuteFails, Goto
<1>7. ASSUME NEW r \in Request, Read(r) PROVE OnceInv'
  BY <1>7 DEF Read, Goto
<1>8. ASSUME NEW r \in Request, DlqCreate(r) PROVE OnceInv'
  BY <1>8 DEF DlqCreate, Fail, Goto
<1>9. ASSUME NEW r \in Request, DlqMetrics(r) PROVE OnceInv'
  BY <1>9 DEF DlqMetrics, Fail, Goto
<1>10. ASSUME NEW r \in Request, StatusSuccess(r) PROVE OnceInv'
  BY <1>10 DEF StatusSuccess, Fail, Goto
<1>11. ASSUME NEW r \in Request, StatusFailed(r) PROVE OnceInv'
  BY <1>11 DEF StatusFailed, Goto
<1>12. ASSUME NEW r \in Request, Catch(r) PROVE OnceInv'
  BY <1>12 DEF Catch, Goto
<1>13. ASSUME NEW r \in Request, Crash(r) PROVE OnceInv'
  BY <1>13 DEF Crash, Goto
<1>14. CASE UNCHANGED vars
  BY <1>14 DEF vars
<1> QED
  BY <1>1, <1>2, <1>3, <1>4, <1>5, <1>6, <1>7, <1>8, <1>9, <1>10, <1>11,
     <1>12, <1>13, <1>14 DEF Next, Step

\* OnceInv holds throughout, under the two assumptions above.
LEMMA OnceInvariant ==
    ASSUME AtomicStore, StatusesSafe
    PROVE  Spec => []OnceInv
<1>1. Init => OnceInv
  BY DEF Init, OnceInv, EngagedHoldsKey, OneEngaged, ReleaseIsSafe,
         PathsOfMode, Engaged, Settled, InFlight
<1>2. TypeOK /\ OnceInv /\ [Next]_vars => OnceInv'
  BY OnceInvStep
<1> QED
  BY <1>1, <1>2, Typing, PTL DEF Spec

\* Of the calls that carry one event at most one reaches the target or the DLQ
\* while its key lives, whatever crashes, DLQ inserts or store calls fail; the
\* one exception is a write that reached the target though its call failed and
\* whose DLQ insert was lost too.
THEOREM EventTakesEffectOnce ==
    ASSUME AtomicStore, StatusesSafe
    PROVE  Spec => []OneEffect
<1>1. OnceInv => OneEffect
  BY DEF OnceInv, OneEngaged, Engaged, OneEffect
<1> QED
  BY <1>1, OnceInvariant, PTL

\* Under the same assumptions two calls of one event are never both past the
\* idempotency check while its key lives.
THEOREM EventIsDispatchedOnce ==
    ASSUME AtomicStore, StatusesSafe
    PROVE  Spec => []DispatchedOnce
<1>1. OnceInv => DispatchedOnce
  BY DEF OnceInv, OneEngaged, Engaged, DispatchedOnce
<1> QED
  BY <1>1, OnceInvariant, PTL

-----------------------------------------------------------------------------
(* Held keys.                                                              *)

\* The pieces of a write's path that show what its effect must be.
EffectRecorded ==
    \A r \in Request :
        /\ pc[r] \in {"dlqMetrics", "statusSuccess"} => effect[r] \in Settled
        /\ err[r] = "durable" => effect[r] \in Settled
        /\ pc[r] \in {"idle", "upsert", "execute", "dlqCreate"} => err[r] = "none"

HeldInv == HeldKeyIsAccounted /\ EffectRecorded

\* The call that vouches for a held key, named.
Vouches(r, e) ==
    /\ EventOf[r] = e
    /\ \/ pc[r] \in InFlight \cup {"crashed"}
       \/ effect[r] \in Settled
       \/ r \in ReadRequest /\ pc[r] \in {"processed", "readFalse"}

\* Every step keeps some call vouching for each key that is still held.
LEMMA HeldInvStep ==
    ASSUME "store" \notin Faults, TypeOK, HeldInv, [Next]_vars
    PROVE  HeldInv'
<1> USE RequestAssumption, ModeAssumption, TTLAssumption
        DEF TypeOK, InFlight, Answered, Locking, Settled, EffectRecorded,
            HeldInv
<1>1. EffectRecorded'
  <2>1. CASE Tick
    BY <2>1 DEF Tick
  <2>2. ASSUME NEW r \in Request, Step(r) \/ Crash(r) PROVE EffectRecorded'
    BY <2>2 DEF Step, SetNx, TxFind, TxUpsert, StoreFails, ExecuteOk,
         ExecuteFails, Read, DlqCreate, DlqMetrics, StatusSuccess,
         StatusFailed, Catch, Crash, TakeKey, AnswerDuplicate, Fail, Goto
  <2>3. CASE UNCHANGED vars
    BY <2>3 DEF vars
  <2> QED
    BY <2>1, <2>2, <2>3 DEF Next
<1>2. HeldKeyIsAccounted'
  <2>1. SUFFICES ASSUME NEW e \in Event, lock'[e] > 0
                 PROVE  \E r \in Request : Vouches(r, e)'
    BY DEF HeldKeyIsAccounted, Vouches
  <2>2. CASE Tick
    <3>1. lock[e] > 0
      BY <2>1, <2>2 DEF Tick
    <3>2. PICK r \in Request : Vouches(r, e)
      BY <3>1 DEF HeldKeyIsAccounted, Vouches
    <3> QED
      BY <2>2, <3>2 DEF Tick, Vouches
  <2>3. ASSUME NEW r \in Request, Step(r) \/ Crash(r)
        PROVE  \E q \in Request : Vouches(q, e)'
    <3>1. CASE EventOf[r] = e /\ pc'[r] = "execute"
      BY <3>1 DEF Vouches
    <3>2. CASE ~(EventOf[r] = e /\ pc'[r] = "execute")
      <4>1. lock[e] > 0
        BY <2>1, <2>3, <3>2 DEF Step, SetNx, TxFind, TxUpsert, StoreFails,
           ExecuteOk, ExecuteFails, Read, DlqCreate, DlqMetrics,
           StatusSuccess, StatusFailed, Catch, Crash, TakeKey,
           AnswerDuplicate, Fail, Goto
      <4>2. PICK q \in Request : Vouches(q, e)
        BY <4>1 DEF HeldKeyIsAccounted, Vouches
      <4>3. CASE q # r
        BY <2>3, <4>2, <4>3 DEF Vouches, Step, SetNx, TxFind, TxUpsert,
           StoreFails, ExecuteOk, ExecuteFails, Read, DlqCreate, DlqMetrics,
           StatusSuccess, StatusFailed, Catch, Crash, TakeKey,
           AnswerDuplicate, Fail, Goto
      <4>4. CASE q = r
        BY <2>1, <2>3, <4>2, <4>4 DEF Vouches, Step, SetNx, TxFind, TxUpsert,
           StoreFails, ExecuteOk, ExecuteFails, Read, DlqCreate, DlqMetrics,
           StatusSuccess, StatusFailed, Catch, Crash, TakeKey,
           AnswerDuplicate, Fail, Goto
      <4> QED
        BY <4>3, <4>4
    <3> QED
      BY <3>1, <3>2
  <2>4. CASE UNCHANGED vars
    BY <2>1, <2>4 DEF vars, HeldKeyIsAccounted, Vouches
  <2> QED
    BY <2>2, <2>3, <2>4 DEF Next
<1> QED
  BY <1>1, <1>2

\* A held key is never the only trace of an event: if the store answers, lost
\* DLQ inserts, failed gauge queries and failed statuses never leave an event
\* both unprocessed and blocked; only the death of its process does (the catch
\* block of processWebhook).
THEOREM HeldKeysAreAccounted ==
    ASSUME "store" \notin Faults
    PROVE  Spec => []HeldKeyIsAccounted
<1>1. Init => HeldInv
  BY DEF Init, HeldInv, HeldKeyIsAccounted, EffectRecorded
<1>2. TypeOK /\ HeldInv /\ [Next]_vars => HeldInv'
  BY HeldInvStep
<1>3. HeldInv => HeldKeyIsAccounted
  BY DEF HeldInv
<1> QED
  BY <1>1, <1>2, <1>3, Typing, PTL DEF Spec

-----------------------------------------------------------------------------
(* Duplicates.  The SQL store answers false to every error, so there the   *)
(* guarantee needs a store that does not fail; Redis throws instead.       *)

ErrorsAreNotAnswers == Store = "redis" \/ "store" \notin Faults

\* A call that got past the idempotency check, or failed in it.
Seen(r) == pc[r] \in InFlight \cup (Answered \ {"duplicate"})

SeenInv ==
    /\ \A e \in Event :
          lock[e] > 0 => \E r \in Request : EventOf[r] = e /\ Seen(r)
    /\ DuplicateWasSeen

\* What one step of a call may do to the calls seen, to the key and to the
\* answer.
LEMMA SeenFrame ==
    ASSUME ErrorsAreNotAnswers, TypeOK, NEW r \in Request, Step(r) \/ Crash(r)
    PROVE  /\ \A q \in Request : Seen(q) => Seen(q)'
           /\ \A q \in Request \ {r} : pc'[q] = pc[q]
           /\ \A e \in Event : lock'[e] > 0 /\ ~(lock[e] > 0) =>
                 EventOf[r] = e /\ Seen(r)'
           /\ pc'[r] = "duplicate" => lock[EventOf[r]] > 0 /\ ~Seen(r)
<1> USE RequestAssumption, ModeAssumption, TTLAssumption
        DEF TypeOK, InFlight, Answered, Locking, Seen, ErrorsAreNotAnswers
<1>1. CASE SetNx(r) \/ TxFind(r) \/ TxUpsert(r)
  BY <1>1 DEF SetNx, TxFind, TxUpsert, TakeKey, AnswerDuplicate, Goto
<1>2. CASE StoreFails(r)
  BY <1>2 DEF StoreFails, Goto
<1>3. CASE ExecuteOk(r) \/ ExecuteFails(r) \/ Read(r)
  BY <1>3 DEF ExecuteOk, ExecuteFails, Read, Goto
<1>4. CASE DlqCreate(r) \/ DlqMetrics(r)
  BY <1>4 DEF DlqCreate, DlqMetrics, Fail, Goto
<1>5. CASE StatusSuccess(r) \/ StatusFailed(r)
  BY <1>5 DEF StatusSuccess, StatusFailed, Fail, Goto
<1>6. CASE Catch(r) \/ Crash(r)
  BY <1>6 DEF Catch, Crash, Goto
<1> QED
  BY <1>1, <1>2, <1>3, <1>4, <1>5, <1>6 DEF Step

LEMMA SeenInvStep ==
    ASSUME ErrorsAreNotAnswers, TypeOK, SeenInv, [Next]_vars
    PROVE  SeenInv'
<1>1. CASE Tick \/ UNCHANGED vars
  <2>1. pc' = pc /\ \A e \in Event : lock'[e] > 0 => lock[e] > 0
    BY <1>1, TTLAssumption DEF Tick, vars, TypeOK
  <2> QED
    BY <2>1 DEF SeenInv, Seen, DuplicateWasSeen
<1>2. ASSUME NEW r \in Request, Step(r) \/ Crash(r) PROVE SeenInv'
  <2>1. /\ \A q \in Request : Seen(q) => Seen(q)'
        /\ \A q \in Request \ {r} : pc'[q] = pc[q]
        /\ \A e \in Event : lock'[e] > 0 /\ ~(lock[e] > 0) =>
              EventOf[r] = e /\ Seen(r)'
        /\ pc'[r] = "duplicate" => lock[EventOf[r]] > 0 /\ ~Seen(r)
    BY <1>2, SeenFrame
  <2>2. ASSUME NEW e \in Event, lock'[e] > 0
        PROVE  \E q \in Request : EventOf[q] = e /\ Seen(q)'
    <3>1. CASE lock[e] > 0
      BY <2>1, <3>1 DEF SeenInv
    <3>2. CASE ~(lock[e] > 0)
      BY <2>1, <2>2, <3>2
    <3> QED
      BY <3>1, <3>2
  <2>3. ASSUME NEW q \in Request, pc'[q] = "duplicate"
        PROVE  \E s \in Request \ {q} : EventOf[s] = EventOf[q] /\ Seen(s)'
    <3>1. CASE q = r
      <4>1. PICK s \in Request : EventOf[s] = EventOf[r] /\ Seen(s)
        BY <2>1, <2>3, <3>1, RequestAssumption DEF SeenInv
      <4> QED
        BY <2>1, <2>3, <3>1, <4>1
    <3>2. CASE q # r
      <4>1. PICK s \in Request \ {q} : EventOf[s] = EventOf[q] /\ Seen(s)
        BY <2>1, <2>3, <3>2 DEF SeenInv, DuplicateWasSeen, Seen
      <4> QED
        BY <2>1, <4>1
    <3> QED
      BY <3>1, <3>2
  <2> QED
    BY <2>2, <2>3 DEF SeenInv, DuplicateWasSeen, Seen
<1> QED
  BY <1>1, <1>2 DEF Next

\* processed=false is told to IDM only of an event that another call carried
\* past the check or failed on, for every number of calls and whatever else
\* fails (IdempotencyService.checkAndLock answering false).
THEOREM DuplicatesWereSeen ==
    ASSUME ErrorsAreNotAnswers
    PROVE  Spec => []DuplicateWasSeen
<1>1. Init => SeenInv
  BY DEF Init, SeenInv, DuplicateWasSeen
<1>2. TypeOK /\ SeenInv /\ [Next]_vars => SeenInv'
  BY SeenInvStep
<1>3. SeenInv => DuplicateWasSeen
  BY DEF SeenInv
<1> QED
  BY <1>1, <1>2, <1>3, Typing, PTL DEF Spec
=============================================================================
