------------------------- MODULE AsyncPipelineProofs -------------------------
(***************************************************************************)
(* What the asynchronous webhook path guarantees for every set of calls,   *)
(* every TTL, every number of lost workers and every fault.                *)
(***************************************************************************)
EXTENDS AsyncPipeline, TLAPS

\* Every variable keeps its declared range (all actions of the asynchronous
\* path).
THEOREM Typing == Spec => []TypeOK
<1> USE RequestAssumption, BoundAssumption DEF TypeOK, Busy, Running, group
<1>1. Init => TypeOK
  BY DEF Init
<1>2. TypeOK /\ [Next]_vars => TypeOK'
  <2> SUFFICES ASSUME TypeOK, [Next]_vars PROVE TypeOK'
    OBVIOUS
  <2>1. CASE Tick
    BY <2>1 DEF Tick
  <2>2. ASSUME NEW r \in Request, Accept(r) \/ Enqueue(r) \/ Release(r)
        PROVE  TypeOK'
    BY <2>2 DEF Accept, Enqueue, Append, Release
  <2>3. ASSUME NEW m \in Record, Work(m) PROVE TypeOK'
    BY <2>3 DEF Work, Take, Execute, DlqCreate, DlqMetrics, Move, Took
  <2>4. ASSUME NEW p \in Partition, Join(p) PROVE TypeOK'
    <3>1. Of(p) \subseteq Record
      BY DEF Of
    <3>2. lost' \subseteq Record
      BY <2>4, <3>1 DEF Join
    <3>3. msg' \in [Record -> {"none", "queued", "done"} \cup Busy]
      BY <2>4, <3>1 DEF Join
    <3> QED
      BY <2>4, <3>2, <3>3 DEF Join
  <2>5. ASSUME NEW p \in Partition, Commit(p) \/ WorkerDies(p) PROVE TypeOK'
    BY <2>5 DEF Commit, WorkerDies
  <2>6. CASE UNCHANGED vars
    BY <2>6 DEF vars
  <2> QED
    BY <2>1, <2>2, <2>3, <2>4, <2>5, <2>6 DEF Next, Serve
<1> QED
  BY <1>1, <1>2, PTL DEF Spec

-----------------------------------------------------------------------------
(* One message per event.                                                  *)

\* A call between its check and the release of its key, if there is one.
Holding(r) == call[r] \in {"enqueue", "caught", "processed"}

HoldingHasKey ==
    \A r \in Request :
        Holding(r) /\ EventOf[r] \notin lapsed => lock[EventOf[r]] > 0

OneHolding ==
    \A r1, r2 \in Request :
        r1 # r2 /\ EventOf[r1] = EventOf[r2] /\ Holding(r1) /\ Holding(r2)
            => EventOf[r1] \in lapsed

\* A message exists only after the send of its call.
SentByCall ==
    \A m \in Record :
        msg[m] # "none" => call[m[1]] \in {"processed", "caught", "failed"}

KeyInv == HoldingHasKey /\ OneHolding /\ SentByCall

\* Every step of a call, of a worker or of the clock preserves KeyInv.
LEMMA KeyInvariant == Spec => []KeyInv
<1> USE RequestAssumption, BoundAssumption
        DEF KeyInv, HoldingHasKey, OneHolding, SentByCall, Holding
<1>1. Init => KeyInv
  BY DEF Init
<1>2. TypeOK /\ KeyInv /\ [Next]_vars => KeyInv'
  <2> SUFFICES ASSUME TypeOK, KeyInv, [Next]_vars PROVE KeyInv'
    OBVIOUS
  <2> USE DEF TypeOK, Busy, Running
  <2>0. \A m \in Record : m[1] \in Request
    BY DEF Record
  <2>1. CASE Tick
    BY <2>1 DEF Tick
  <2>2. ASSUME NEW r \in Request, Accept(r) PROVE KeyInv'
    BY <2>0, <2>2 DEF Accept
  <2>3. ASSUME NEW r \in Request, Enqueue(r) PROVE KeyInv'
    <3>1. \A m \in Record : msg'[m] # msg[m] => m[1] = r
      BY <2>3 DEF Enqueue, Append, Records
    <3> QED
      BY <2>0, <2>3, <3>1 DEF Enqueue, Append
  <2>4. ASSUME NEW r \in Request, Release(r) PROVE KeyInv'
    BY <2>0, <2>4 DEF Release
  <2>5. ASSUME NEW m \in Record, Work(m) PROVE KeyInv'
    <3>1. \A n \in Record : msg'[n] # "none" => msg[n] # "none"
      BY <2>5 DEF Work, Take, Execute, DlqCreate, DlqMetrics, Move
    <3> QED
      BY <2>5, <3>1 DEF Work, Take, Execute, DlqCreate, DlqMetrics
  <2>6. ASSUME NEW p \in Partition, Join(p) \/ Commit(p) \/ WorkerDies(p)
        PROVE  KeyInv'
    BY <2>6 DEF Join, Commit, WorkerDies
  <2>7. CASE UNCHANGED vars
    BY <2>7 DEF vars
  <2> QED
    BY <2>1, <2>2, <2>3, <2>4, <2>5, <2>6, <2>7 DEF Next, Serve
<1> QED
  BY Typing, <1>1, <1>2, PTL DEF Spec

\* While its key lives and no send was reported failed, an event has one
\* message (checkAndLock, dispatch and the release of processWebhook).
THEOREM EventHasOneMessage == Spec => []OneMessagePerEvent
<1>1. KeyInv => OneMessagePerEvent
  BY DEF KeyInv, OneHolding, SentByCall, Holding, OneMessagePerEvent, Sent
<1> QED
  BY KeyInvariant, <1>1, PTL

-----------------------------------------------------------------------------
(* Repetitions.  A record that has not had its effect in this delivery    *)
(* has had at most one for each lost worker before.                        *)

EffectBound == \A m \in Record : effects[m] <= 1 + deaths

FreshBound ==
    \A m \in Record :
        msg[m] \in {"none", "queued", "execute", "dlqCreate"}
            => effects[m] <= deaths

DeliveriesCount == EffectBound /\ FreshBound

\* Only a redelivery, after a lost worker, repeats the effect of a record
\* (Execute, DlqCreate and WorkerDies).
THEOREM RepeatsAreBounded == Spec => []RepeatsNeedDeaths
<1> USE BoundAssumption DEF DeliveriesCount, EffectBound, FreshBound
<1>1. Init => DeliveriesCount
  BY DEF Init
<1>2. TypeOK /\ SentByCall /\ DeliveriesCount /\ [Next]_vars => DeliveriesCount'
  <2> SUFFICES ASSUME TypeOK, SentByCall, DeliveriesCount, [Next]_vars
               PROVE  DeliveriesCount'
    OBVIOUS
  <2> USE DEF TypeOK, Busy, Running, group
  <2>1. CASE Tick
    BY <2>1 DEF Tick
  <2>2. ASSUME NEW r \in Request, Accept(r) \/ Release(r)
        PROVE  DeliveriesCount'
    BY <2>2 DEF Accept, Release
  <2>3. ASSUME NEW r \in Request, Enqueue(r) PROVE DeliveriesCount'
    <3>1. \A m \in Record : msg'[m] # msg[m] => msg[m] = "none"
      BY <2>3 DEF Enqueue, Append, Records, SentByCall
    <3> QED
      BY <2>3, <3>1 DEF Enqueue
  <2>4. ASSUME NEW m \in Record, Take(m) PROVE DeliveriesCount'
    BY <2>4 DEF Take, Move
  <2>5. ASSUME NEW m \in Record, Execute(m) PROVE DeliveriesCount'
    BY <2>5 DEF Execute, Move, Took
  <2>6. ASSUME NEW m \in Record, DlqCreate(m) PROVE DeliveriesCount'
    BY <2>6 DEF DlqCreate, Move, Took
  <2>7. ASSUME NEW m \in Record, DlqMetrics(m) PROVE DeliveriesCount'
    BY <2>7 DEF DlqMetrics, Move
  <2>8. ASSUME NEW p \in Partition, Join(p) \/ Commit(p)
        PROVE  DeliveriesCount'
    BY <2>8 DEF Join, Commit
  <2>9. ASSUME NEW p \in Partition, WorkerDies(p) PROVE DeliveriesCount'
    BY <2>9 DEF WorkerDies
  <2>10. CASE UNCHANGED vars
    BY <2>10 DEF vars
  <2> QED
    BY <2>1, <2>2, <2>3, <2>4, <2>5, <2>6, <2>7, <2>8, <2>9, <2>10
       DEF Next, Serve, Work
<1>3. DeliveriesCount => RepeatsNeedDeaths
  BY DEF RepeatsNeedDeaths
<1> QED
  BY Typing, KeyInvariant, <1>1, <1>2, <1>3, PTL DEF Spec, KeyInv
=============================================================================
