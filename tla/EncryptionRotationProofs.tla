----------------------- MODULE EncryptionRotationProofs -----------------------
(***************************************************************************)
(* Encryption and its rotation for any number of keys, rows, servers and   *)
(* crashes, with either store and with or without the lag check.           *)
(***************************************************************************)
EXTENDS EncryptionRotation, FiniteSetTheorems, TLAPS

-----------------------------------------------------------------------------
(* Typing.  The command never marks a state that does not exist, because   *)
(* it only comes up once there is one.                                     *)

Stopped == {"off", "done", "error"}

ProcessInv ==
    /\ proc[Cli].pc = "up" => state # NoState /\ proc[Cli].active \in Key
    /\ cli.pc \notin Stopped => Up(Cli)
    /\ \A p \in Process : proc[p].pc = "create" => proc[p].active \in Key


\* A row and its history take any content under any key.
LEMMA RowWritten ==
    ASSUME TypeOK, NEW r \in Row, NEW k \in Kid \cup {Absent}, NEW v \in {0, 1}
    PROVE  /\ [row EXCEPT ![r] = [kid |-> k, content |-> v]] \in [Row -> Envelope]
           /\ [wanted EXCEPT ![r] = v] \in [Row -> {0, 1}]
  BY DEF TypeOK, Envelope

\* Each step of the command keeps its own record in range.
LEMMA CommandStep ==
    ASSUME TypeOK, ProcessInv, Rotate \/ DatabaseError \/ CliDies
    PROVE  /\ cli' \in Command
           /\ proc' \in [Process -> Configured]
           /\ cli'.pc \notin Stopped => proc'[Cli].pc = "up"
           /\ cli'.pc \notin Stopped => cli.pc \notin Stopped \/ Up(Cli)
<1> USE NameAssumption, RowAssumption
        DEF TypeOK, ProcessInv, Process, Up, Stopped, Command, Configured
<1>1. ASSUME NEW result \in {"done", "error"}, Exit(result)
      PROVE  /\ cli' \in Command /\ cli'.pc \in Stopped
             /\ proc' \in [Process -> Configured]
  BY <1>1 DEF Exit, CliAt, Down, Kid
<1>c. ASSUME NEW to \in {"check", "mark"}, NEW d \in SUBSET Counts
      PROVE  /\ [cli EXCEPT !.pc = to, !.counts = d] \in Command
             /\ [cli EXCEPT !.pc = to, !.counts = d].pc = to
  OBVIOUS
<1>2. CASE LoadState
  <2>1. CASE state.active = proc[Cli].active
    BY <1>1, <1>2, <2>1 DEF LoadState
  <2>2. CASE state.active # proc[Cli].active
    <3>1. PICK lag \in LagChecks : cli' = [cli EXCEPT !.pc = "check",
                 !.counts = IF lag THEN Counts ELSE Counts \ {"lag"}]
      BY <1>2, <2>2 DEF LoadState
    <3>2. (IF lag THEN Counts ELSE Counts \ {"lag"}) \in SUBSET Counts
      OBVIOUS
    <3>3. cli' \in Command /\ cli'.pc = "check"
      BY <1>c, <3>1, <3>2
    <3> QED
      BY <1>2, <2>2, <3>3 DEF LoadState
  <2> QED
    BY <2>1, <2>2
<1>3. ASSUME NEW q \in Counts, AssertNoActiveProcessing(q)
      PROVE  /\ cli' \in Command /\ proc' \in [Process -> Configured]
             /\ cli'.pc \notin Stopped => proc' = proc /\ cli.pc \notin Stopped
  <2>1. CASE ActiveIn(q)
    BY <1>1, <1>3, <2>1 DEF AssertNoActiveProcessing
  <2>2. CASE ~ActiveIn(q)
    <3>1. PICK to \in {"check", "mark"} :
             cli' = [cli EXCEPT !.pc = to, !.counts = cli.counts \ {q}]
      BY <1>3, <2>2 DEF AssertNoActiveProcessing
    <3>2. cli' \in Command
      BY <1>c, <3>1
    <3> QED
      BY <1>3, <2>2, <3>2 DEF AssertNoActiveProcessing
  <2> QED
    BY <2>1, <2>2
<1>r. ASSUME NEW c \in Command, NEW t \in 0..3
      PROVE  [c EXCEPT !.pc = "read", !.table = t] \in Command
  OBVIOUS
<1>4. CASE MarkRunning
  <2>1. Audit \in 0..3
    BY DEF Audit
  <2>2. cli' \in Command
    BY <1>r, <1>4, <2>1 DEF MarkRunning
  <2> QED
    BY <1>4, <2>2 DEF MarkRunning
<1>5. ASSUME NEW c \in Command PROVE NextTable(c) \in Command
  <2>1. CASE c.table = Target
    BY <2>1 DEF NextTable
  <2>2. CASE c.table # Target
    <3>1. c.table + 1 \in 0..3
      BY <2>2 DEF Target
    <3> QED
      BY <1>r, <2>2, <3>1 DEF NextTable
  <2> QED
    BY <2>1, <2>2
<1>6. CASE ReadTable
  <2> DEFINE rows == {r \in Present : TableOf[r] = cli.table}
  <2>1. CASE rows = {}
    BY <1>5, <1>6, <2>1 DEF ReadTable, NextTable, CliUnchanged
  <2>2. CASE rows # {}
    <3> DEFINE copy == [r \in Row |-> IF r \in rows THEN row[r].content ELSE 0]
               kids == [r \in Row |-> IF r \in rows THEN row[r].kid ELSE Absent]
    <3>1. /\ copy \in [Row -> {0, 1}] /\ kids \in [Row -> Kid \cup {Absent}]
          /\ rows \subseteq Row
      BY DEF Present, Envelope
    <3>2. /\ cli' = [cli EXCEPT !.pc = "rewrite", !.todo = rows,
                                !.copy = copy, !.kids = kids]
          /\ proc' = proc /\ cli.pc = "read"
      BY <1>6, <2>2 DEF ReadTable
    <3> HIDE DEF rows, copy, kids
    <3> QED
      BY <3>1, <3>2
  <2> QED
    BY <2>1, <2>2
<1>7. ASSUME NEW r \in Row, Rewrite(r)
      PROVE  /\ cli' \in Command /\ proc' = proc
             /\ cli.pc = "rewrite"
  <2>1. [cli EXCEPT !.todo = {}] \in Command
    OBVIOUS
  <2>2. NextTable([cli EXCEPT !.todo = {}]) \in Command
    BY <1>5, <2>1
  <2>3. /\ [cli EXCEPT !.todo = cli.todo \ {r}] \in Command
        /\ [cli EXCEPT !.pc = "fail"] \in Command
    OBVIOUS
  <2>4. \/ cli' = NextTable([cli EXCEPT !.todo = {}])
        \/ cli' = [cli EXCEPT !.todo = cli.todo \ {r}]
        \/ cli' = [cli EXCEPT !.pc = "fail"]
    BY <1>7 DEF Rewrite
  <2>5. proc' = proc /\ cli.pc = "rewrite"
    BY <1>7 DEF Rewrite
  <2> QED
    BY <2>2, <2>3, <2>4, <2>5
<1>8. CASE CompleteRotation
  BY <1>1, <1>8 DEF CompleteRotation
<1>9. CASE MarkFailed \/ CliDies
  BY <1>1, <1>9 DEF MarkFailed, CliDies
<1>10. CASE DatabaseError
  BY <1>10 DEF DatabaseError
<1>11. CASE CreateEncryptionState(Cli)
  BY <1>11 DEF CreateEncryptionState, rotation, Down, Kid
<1> QED
  BY <1>2, <1>3, <1>4, <1>6, <1>7, <1>8, <1>9, <1>10, <1>11 DEF Rotate

\* Every step of the operator, the servers and the command keeps the declared
\* ranges and the facts about the command that they need.
LEMMA TypeStep ==
    ASSUME TypeOK, ProcessInv, [Next]_vars
    PROVE  TypeOK' /\ ProcessInv'
<1> USE NameAssumption, RowAssumption, CrashAssumption
        DEF TypeOK, ProcessInv, Process, Up, storage, locking, rotation
<1>1. CASE Operator
  BY <1>1 DEF Operator, AddKey, SetActive, RemoveKey, Kid
<1>2. ASSUME NEW p \in Process, StartUp(p) PROVE TypeOK' /\ ProcessInv'
  <2>1. proc' \in [Process -> Configured]
    BY <1>2 DEF StartUp, Configured
  <2>2. cli' \in Command
    BY <1>2 DEF StartUp, CliAt, Command
  <2>3. ProcessInv'
    BY <1>2 DEF StartUp, Admits, CliAt, Stopped, Kid, NoState, Configured
  <2> QED
    BY <1>2, <2>1, <2>2, <2>3 DEF StartUp
<1>3. ASSUME NEW p \in Process, CreateEncryptionState(p)
      PROVE  TypeOK' /\ ProcessInv'
  <2>1. proc' \in [Process -> Configured]
    BY <1>3 DEF CreateEncryptionState, Configured, Down, Kid
  <2>2. state' \in EncryptionState /\ left' \subseteq Row
    BY <1>3 DEF CreateEncryptionState, EncryptionState, Present
  <2>3. ProcessInv'
    BY <1>3 DEF CreateEncryptionState, Configured, Down, NoState
  <2> QED
    BY <1>3, <2>1, <2>2, <2>3 DEF CreateEncryptionState
<1>4. ASSUME NEW s \in Server, Stop(s) PROVE TypeOK' /\ ProcessInv'
  BY <1>4 DEF Stop, Configured, Down, Kid, NoCall, Lookup
<1>5. ASSUME NEW s \in Server, NEW r \in Row,
             Intercept(s, r) \/ AddItem(s, r) \/ SaveTarget(s, r)
      PROVE  TypeOK' /\ ProcessInv'
  <2>1. Write(s, r) /\ open' \subseteq Row
    BY <1>5 DEF Intercept, AddItem, SaveTarget
  <2>2. row' \in [Row -> Envelope] /\ wanted' \in [Row -> {0, 1}]
    <3>1. 1 - wanted[r] \in {0, 1} /\ proc[s].active \in Kid
      BY DEF Configured
    <3> QED
      BY <2>1, <3>1, RowWritten DEF Write, EncryptFor
  <2>3. left' \subseteq Row /\ lost' \subseteq Row
    BY <2>1 DEF Write
  <2> QED
    BY <2>1, <2>2, <2>3 DEF Write
<1>6. ASSUME NEW s \in Server, NEW r \in Row, Delete(s, r) \/ Settle(s, r)
      PROVE  TypeOK' /\ ProcessInv'
  <2>1. row' \in [Row -> Envelope] /\ wanted' \in [Row -> {0, 1}]
    <3>1. 0 \in {0, 1} /\ Absent \in Kid \cup {Absent}
      OBVIOUS
    <3>2. /\ [row EXCEPT ![r] = [kid |-> Absent, content |-> 0]]
                 \in [Row -> Envelope]
          /\ [wanted EXCEPT ![r] = 0] \in [Row -> {0, 1}]
      BY <3>1, RowWritten
    <3>3. CASE Delete(s, r)
      BY <3>2, <3>3 DEF Delete
    <3>4. CASE Settle(s, r)
      BY <3>4 DEF Settle
    <3> QED
      BY <1>6, <3>3, <3>4
  <2>2. left' \subseteq Row /\ lost' \subseteq Row
    BY <1>6 DEF Delete, Settle
  <2> QED
    BY <1>6, <2>1, <2>2 DEF Delete, Settle
<1>7. ASSUME NEW s \in Server, Send(s) \/ Consume(s)
      PROVE  TypeOK' /\ ProcessInv'
  BY <1>7 DEF Send, Consume, Configured
<1>8. ASSUME NEW s \in Server, CheckAndLock(s) \/ Exists(s)
      PROVE  TypeOK' /\ ProcessInv'
  BY <1>8 DEF CheckAndLock, Exists, IdempotencyKeys, Lookup, NoCall, Kid,
     Configured
<1>9. ASSUME NEW s \in Server, SetIfNotExists(s) \/ Release(s)
      PROVE  TypeOK' /\ ProcessInv'
  <2>1. call' \in [Server -> Lookup] /\ lock' \subseteq Kid
    BY <1>9 DEF SetIfNotExists, Release, Lookup, NoCall, Configured
  <2>2. blind' \in BOOLEAN
    BY <1>9 DEF SetIfNotExists, Release
  <2> QED
    BY <1>9, <2>1, <2>2 DEF SetIfNotExists, Release
<1>10. ASSUME NEW k \in Kid, Expire(k) PROVE TypeOK' /\ ProcessInv'
  BY <1>10 DEF Expire, Lookup, NoCall
<1>11. CASE Rotate \/ DatabaseError \/ CliDies
  <2>1. CASE CreateEncryptionState(Cli)
    BY <1>3, <2>1
  <2>2. ASSUME ~CreateEncryptionState(Cli)
        PROVE  /\ state' \in EncryptionState
               /\ state # NoState => state' # NoState
               /\ row' \in [Row -> Envelope] /\ left' \subseteq Row
               /\ crashes' \in 0..MaxCrashes
               /\ UNCHANGED <<env, open, kafka, lock, call, wanted, lost, blind>>
               /\ proc' \in {proc, [proc EXCEPT ![Cli] = Down]}
    <3>1. CASE \/ LoadState \/ ReadTable
               \/ \E q \in Counts : AssertNoActiveProcessing(q)
      BY <3>1 DEF LoadState, AssertNoActiveProcessing, ReadTable, Exit,
         CliUnchanged
    <3>2. CASE MarkRunning \/ MarkFailed
      <4>1. PICK status \in {"running", "failed"} : MarkRotation(status)
        BY <3>2 DEF MarkRunning, MarkFailed
      <4>2. state \in [active : Key, status : {"completed", "running", "failed"}]
        BY <3>2 DEF MarkRunning, MarkFailed, Stopped, EncryptionState
      <4>3. state' \in [active : Key, status : {"completed", "running", "failed"}]
        BY <4>1, <4>2 DEF MarkRotation
      <4>4. state' \in EncryptionState /\ state' # NoState
        BY <4>3 DEF EncryptionState, NoState
      <4> QED
        BY <3>2, <4>4 DEF MarkRunning, MarkFailed, Exit, CliUnchanged
    <3>3. ASSUME NEW r \in Row, Rewrite(r)
          PROVE  /\ row' \in [Row -> Envelope] /\ left' \subseteq Row
                 /\ UNCHANGED <<env, open, kafka, lock, call, wanted, lost,
                                blind, state, crashes, proc>>
      <4>1. cli.copy[r] \in {0, 1} /\ proc[Cli].active \in Kid
        BY DEF Command, Configured
      <4>2. [row EXCEPT ![r] = EncryptFor(Cli, cli.copy[r])] \in [Row -> Envelope]
        BY <4>1, RowWritten DEF EncryptFor
      <4> QED
        BY <3>3, <4>2 DEF Rewrite, CliUnchanged
    <3>4. CASE CompleteRotation
      BY <3>4 DEF CompleteRotation, Exit, CliUnchanged, Stopped,
         EncryptionState, NoState
    <3>5. CASE DatabaseError \/ CliDies
      BY <3>5 DEF DatabaseError, CliDies, Exit, CliUnchanged
    <3> QED
      BY <1>11, <2>2, <3>1, <3>2, <3>3, <3>4, <3>5 DEF Rotate
  <2>3. ASSUME ~CreateEncryptionState(Cli) PROVE TypeOK' /\ ProcessInv'
    <3>1. /\ cli' \in Command /\ proc' \in [Process -> Configured]
          /\ cli'.pc \notin Stopped => proc'[Cli].pc = "up"
      BY <1>11, CommandStep
    <3> QED
      BY <2>2, <2>3, <3>1 DEF Down
  <2> QED
    BY <2>1, <2>3
<1>12. CASE UNCHANGED vars
  BY <1>12 DEF vars
<1> QED
  BY <1>1, <1>2, <1>3, <1>4, <1>5, <1>6, <1>7, <1>8, <1>9, <1>10, <1>11,
     <1>12
  DEF Next, ServerStep

\* Init gives every variable a value of its range.
LEMMA TypeInit == Init => TypeOK /\ ProcessInv
<1> SUFFICES ASSUME Init PROVE TypeOK /\ ProcessInv
  OBVIOUS
<1>1. /\ proc \in [Process -> Configured] /\ call \in [Server -> Lookup]
      /\ cli \in Command
  BY DEF Init, Down, Configured, Kid, NoCall, Lookup, CliAt, Command
<1>2. /\ state \in EncryptionState
      /\ row \in [Row -> Envelope]
      /\ wanted \in [Row -> {0, 1}]
      /\ crashes \in 0..MaxCrashes
  BY CrashAssumption DEF Init, EncryptionState, Envelope
<1>3. ProcessInv
  BY DEF Init, ProcessInv, Down, Up, Process, CliAt, Stopped
<1> QED
  BY <1>1, <1>2, <1>3 DEF Init, TypeOK, Kid

\* The command's facts and the types hold throughout.
LEMMA ProcessInvariant == Spec => [](TypeOK /\ ProcessInv)
<1>1. TypeOK /\ ProcessInv /\ [Next]_vars => (TypeOK /\ ProcessInv)'
  BY TypeStep
<1> QED
  BY <1>1, TypeInit, PTL DEF Spec

\* Every variable keeps its declared range whatever the operator does to the
\* keys, in whatever order processes start, stop, fail and die.
THEOREM Typing == Spec => []TypeOK
  BY ProcessInvariant, PTL

-----------------------------------------------------------------------------
(* The rows.  While the command is between its marks, what it has passed    *)
(* is under its key and what it still holds a copy of is as it was read;    *)
(* a key somebody writes under is never taken out of the keyring.           *)

CopyInv ==
    cli.pc = "rewrite" =>
        \A r \in cli.todo : r \in Present \ lost => cli.copy[r] = wanted[r]

PassedInv ==
    Rotating => /\ state.status = "running"
                /\ \A r \in Present \ left :
                      Passed(r) => row[r].kid = proc[Cli].active

KeyringInv ==
    /\ env.active \in env.ring \cup {Plain}
    /\ \A p \in Process :
          proc[p].pc # "down" => /\ proc[p].active \in env.ring \cup {Plain}
                                 /\ proc[p].active \in proc[p].ring \cup {Plain}

RowInv == /\ EditsSurvive /\ CopyInv
          /\ CompletedMeansRotated /\ PassedInv
          /\ KeyringOpensEverything /\ KeyringInv

(* The lock.  A server past its first lookup still has to look up the key   *)
(* of a holder, unless it will ask for that same key or cannot see it.      *)

Sees(s, k) == proc[s].active # Plain /\ k \in proc[s].ring

CallInv ==
    \A s \in Server : /\ call[s].pc # "idle" => Up(s)
                      /\ call[s].pc = "set" => call[s].todo = {}

HolderInv ==
    /\ \A s \in Server : call[s].pc = "held" => proc[s].active \in lock
    /\ \A s, t \in Server :
          call[s].pc = "held" /\ call[t].pc = "held" => s = t
    /\ \A s, t \in Server :
          /\ call[t].pc = "held" /\ call[s].pc \in {"exists", "set"}
          /\ proc[t].active # proc[s].active /\ Sees(s, proc[t].active)
          => proc[t].active \in call[s].todo

LockInv == CallInv /\ (blind \/ HolderInv)

\* The operator: a key leaves the ring when no row, message or process is
\* under it any more.
LEMMA RowOperator ==
    ASSUME TypeOK, RowInv, Operator
    PROVE  RowInv'
<1> USE DEF TypeOK, storage, locking, rotation
<1>1. PICK k \in Key : AddKey(k) \/ SetActive(k) \/ RemoveKey(k)
  BY DEF Operator
<1>2. UNCHANGED <<state, row, open, wanted, lost, left, kafka, proc, cli>>
  BY <1>1 DEF AddKey, SetActive, RemoveKey
<1>3. EditsSurvive' /\ CopyInv' /\ CompletedMeansRotated' /\ PassedInv'
  BY <1>2 DEF RowInv, EditsSurvive, CopyInv, CompletedMeansRotated, PassedInv,
     Present, Rotating, Passed
<1>4. CASE AddKey(k)
  BY <1>2, <1>3, <1>4 DEF RowInv, AddKey, KeyringInv, KeyringOpensEverything,
     CanDecrypt, Present
<1>5. CASE SetActive(k)
  BY <1>2, <1>3, <1>5 DEF RowInv, SetActive, KeyringInv, KeyringOpensEverything,
     CanDecrypt, Present
<1>6. CASE RemoveKey(k)
  <2>1. /\ env'.active = env.active /\ env'.ring = env.ring \ {k}
        /\ k # env.active
        /\ \A p \in Process : proc[p].pc # "down" => proc[p].active # k
    BY <1>6 DEF RemoveKey
  <2>2. \A r \in Present \ left : row[r].kid # k
    BY <1>6 DEF RemoveKey, RowInv, CompletedMeansRotated
  <2>3. k \notin kafka
    BY <1>6 DEF RemoveKey
  <2>4. KeyringInv'
    BY <1>2, <2>1 DEF RowInv, KeyringInv
  <2>5. KeyringOpensEverything'
    BY <1>2, <2>1, <2>2, <2>3
    DEF RowInv, KeyringOpensEverything, CanDecrypt, Present
  <2> QED
    BY <1>3, <2>4, <2>5 DEF RowInv
<1> QED
  BY <1>1, <1>3, <1>4, <1>5, <1>6 DEF RowInv

\* A process that starts takes the ring in force; one that creates the state
\* gives up every row that slipped in before it.
LEMMA RowProcess ==
    ASSUME TypeOK, ProcessInv, RowInv, NEW p \in Process,
           \/ StartUp(p) \/ CreateEncryptionState(p)
           \/ p \in Server /\ Stop(p)
    PROVE  RowInv'
<1> USE NameAssumption DEF TypeOK, Process, storage, locking, rotation, RowInv
<1>1. UNCHANGED <<env, row, open, wanted, lost, kafka>>
  BY DEF StartUp, CreateEncryptionState, Stop
<1>2. /\ left \subseteq left'
      /\ \/ state' = state /\ left' = left
         \/ Present \subseteq left' /\ ~Rotating
  <2>1. CASE CreateEncryptionState(p)
    BY <2>1 DEF CreateEncryptionState, ProcessInv, Stopped, Rotating, Up
  <2>2. CASE ~CreateEncryptionState(p)
    BY <2>2 DEF StartUp, Stop
  <2> QED
    BY <2>1, <2>2
<1>3. \/ cli' = cli
      \/ cli'.pc = "off"
  BY DEF StartUp, CreateEncryptionState, Stop, CliAt
<1>4. Rotating => proc'[Cli] = proc[Cli]
  BY DEF StartUp, CreateEncryptionState, Stop, Rotating, ProcessInv, Stopped,
     Up
<1>5. EditsSurvive' /\ CopyInv'
  BY <1>1, <1>3 DEF EditsSurvive, CopyInv, Present
<1>6. CompletedMeansRotated'
  BY <1>1, <1>2 DEF CompletedMeansRotated, Present
<1>7. PassedInv'
  BY <1>1, <1>2, <1>3, <1>4 DEF PassedInv, Rotating, Passed, Present
<1>8. KeyringOpensEverything'
  BY <1>1, <1>2 DEF KeyringOpensEverything, CanDecrypt, Present
<1>9. KeyringInv'
  <2>1. \A q \in Process \ {p} : proc'[q] = proc[q]
    BY DEF StartUp, CreateEncryptionState, Stop
  <2>2. \/ proc'[p].active = env.active /\ proc'[p].ring = env.ring
        \/ /\ proc[p].pc # "down"
           /\ proc'[p].active = proc[p].active /\ proc'[p].ring = proc[p].ring
        \/ proc'[p].pc = "down"
    BY DEF StartUp, CreateEncryptionState, Stop, Configured, Down
  <2> QED
    BY <1>1, <2>1, <2>2 DEF KeyringInv
<1> QED
  BY <1>5, <1>6, <1>7, <1>8, <1>9

\* A server that writes behind the rotation's back is recorded; any other
\* write is under a key the ring opens and what the rotation expects.
LEMMA RowServer ==
    ASSUME TypeOK, ProcessInv, RowInv, NEW s \in Server, NEW r \in Row,
           \/ Intercept(s, r) \/ AddItem(s, r) \/ Settle(s, r)
           \/ SaveTarget(s, r) \/ Delete(s, r)
    PROVE  RowInv'
<1> USE NameAssumption DEF TypeOK, Process, storage, locking, rotation, RowInv
<1>1. UNCHANGED <<env, state, kafka, proc, cli>>
  BY DEF Intercept, AddItem, Settle, SaveTarget, Delete, Write
<1>2. KeyringInv' /\ proc[s].active \in Kid
  BY <1>1 DEF KeyringInv, Configured
<1>3. CASE Settle(s, r)
  BY <1>1, <1>2, <1>3
  DEF Settle, EditsSurvive, CopyInv, CompletedMeansRotated, PassedInv,
      KeyringOpensEverything, Present, Rotating, Passed, CanDecrypt
<1>4. CASE Delete(s, r)
  <2>1. /\ row' = [row EXCEPT ![r] = [kid |-> Absent, content |-> 0]]
        /\ wanted' = [wanted EXCEPT ![r] = 0]
        /\ lost' = lost \ {r} /\ left' = left \ {r}
    BY <1>4 DEF Delete
  <2>2. /\ Present' = Present \ {r}
        /\ \A q \in Present \ {r} : row'[q] = row[q] /\ wanted'[q] = wanted[q]
    BY <2>1 DEF Present
  <2>3. EditsSurvive' /\ CopyInv'
    BY <1>1, <2>1, <2>2 DEF EditsSurvive, CopyInv
  <2>4. CompletedMeansRotated' /\ KeyringOpensEverything'
    BY <1>1, <2>1, <2>2
    DEF CompletedMeansRotated, KeyringOpensEverything, CanDecrypt
  <2>5. PassedInv'
    BY <1>1, <2>1, <2>2 DEF PassedInv, Rotating, Passed
  <2> QED
    BY <1>2, <2>3, <2>4, <2>5
<1>5. CASE Write(s, r)
  <2>1. /\ Up(s)
        /\ row' = [row EXCEPT ![r] = EncryptFor(s, 1 - wanted[r])]
        /\ wanted' = [wanted EXCEPT ![r] = 1 - wanted[r]]
    BY <1>5 DEF Write
  <2>2. /\ row'[r].kid = proc[s].active
        /\ row'[r].content = wanted'[r]
        /\ \A q \in Row \ {r} : row'[q] = row[q] /\ wanted'[q] = wanted[q]
    BY <2>1 DEF EncryptFor
  <2>3. /\ Present' = Present \cup {r}
        /\ r \in Present \/ r \notin cli.todo
    BY <1>2, <1>5, <2>2 DEF Present, Kid, Write
  <2>4. /\ \A q \in Row \ {r} : (q \in lost' <=> q \in lost)
                                /\ (q \in left' <=> q \in left)
        /\ cli.pc = "rewrite" /\ r \in cli.todo => r \in lost'
        /\ state # NoState /\ (proc[s].active # state.active \/ Passed(r))
           => r \in left'
    BY <1>5 DEF Write
  <2>5. EditsSurvive' /\ CopyInv'
    BY <1>1, <2>2, <2>3, <2>4 DEF EditsSurvive, CopyInv, Present, Command
  <2>6. CompletedMeansRotated'
    <3>1. state.status = "completed" => state # NoState
      BY DEF NoState
    <3> QED
      BY <1>1, <2>2, <2>3, <2>4, <3>1 DEF CompletedMeansRotated, Present
  <2>7. PassedInv'
    <3>1. Rotating => state # NoState
      BY DEF Rotating, ProcessInv, Stopped, Up
    <3>2. \A q \in Row : Passed(q)' <=> Passed(q)
      BY <1>1 DEF Passed, Rotating
    <3>3. Rotating' <=> Rotating
      BY <1>1 DEF Rotating
    <3>4. \A q \in Present' \ left' : Passed(q) => q # r
      BY <2>4, <3>1 DEF Passed
    <3> QED
      BY <1>1, <2>2, <2>3, <2>4, <3>2, <3>3, <3>4 DEF PassedInv, Present
  <2>8. KeyringOpensEverything'
    <3>1. proc[s].active \in env.ring \cup {Plain}
      BY <2>1 DEF KeyringInv, Up
    <3> QED
      BY <1>1, <2>2, <2>3, <2>4, <3>1
      DEF KeyringOpensEverything, CanDecrypt, Present
  <2> QED
    BY <1>2, <2>5, <2>6, <2>7, <2>8
<1> QED
  BY <1>3, <1>4, <1>5 DEF Intercept, AddItem, SaveTarget

\* The command moves on only when every row of the table it leaves is under
\* its key, so that nothing is left to pass at the end.
LEMMA PassedAtNextTable ==
    ASSUME NEW c \in Command, NEW r \in Row
    PROVE  /\ NextTable(c).pc \in {"read", "complete"}
           /\ NextTable(c).pc = "complete" => TableOf[r] <= c.table
           /\ NextTable(c).pc = "read" /\ TableOf[r] < NextTable(c).table
              => TableOf[r] <= c.table
<1>1. CASE c.table = Target
  BY <1>1, RowAssumption DEF NextTable, Command, Target, Tables, Audit
<1>2. CASE c.table # Target
  BY <1>2, RowAssumption DEF NextTable, Command, Target, Tables, Audit
<1> QED
  BY <1>1, <1>2

\* Each step of the command but the creation of the state.
LEMMA RowCommand ==
    ASSUME TypeOK, ProcessInv, RowInv, Rotate \/ DatabaseError \/ CliDies,
           ~CreateEncryptionState(Cli)
    PROVE  RowInv'
<1> USE NameAssumption DEF TypeOK, Process, storage, locking, rotation, RowInv
<1>0. cli' \in Command /\ proc' \in [Process -> Configured]
  BY CommandStep
<1>1. KeyringInv'
  <2>1. /\ env' = env
        /\ proc' \in {proc, [proc EXCEPT ![Cli] = Down]}
    BY DEF Rotate, LoadState, AssertNoActiveProcessing, MarkRunning, ReadTable,
       Rewrite, CompleteRotation, MarkFailed, DatabaseError, CliDies, Exit,
       CliUnchanged
  <2> QED
    BY <2>1 DEF KeyringInv, Down
<1>2. ASSUME UNCHANGED <<env, row, wanted, lost, left, kafka>>
      PROVE  EditsSurvive' /\ KeyringOpensEverything'
  BY <1>2 DEF EditsSurvive, KeyringOpensEverything, CanDecrypt, Present
<1>3. ASSUME UNCHANGED <<env, row, wanted, lost, left, kafka>>,
             cli'.pc \notin {"read", "rewrite", "complete"},
             \/ state' = state
             \/ state'.status = "failed"
      PROVE  RowInv'
  BY <1>1, <1>2, <1>3 DEF CopyInv, CompletedMeansRotated, PassedInv, Rotating,
     Present
<1>4. CASE LoadState \/ CliDies \/ \E q \in Counts : AssertNoActiveProcessing(q)
  <2>1. cli'.pc \in {"check", "mark", "done", "error"}
    <3>1. CASE LoadState
      <4>1. CASE state.active = proc[Cli].active
        BY <3>1, <4>1 DEF LoadState, Exit, CliAt
      <4>2. CASE state.active # proc[Cli].active
        <5>1. PICK lag \in LagChecks : cli' = [cli EXCEPT !.pc = "check",
                     !.counts = IF lag THEN Counts ELSE Counts \ {"lag"}]
          BY <3>1, <4>2 DEF LoadState
        <5> QED
          BY <5>1 DEF Command
      <4> QED
        BY <4>1, <4>2
    <3>2. CASE CliDies
      BY <3>2 DEF CliDies, Exit, CliAt
    <3>3. ASSUME NEW q \in Counts, AssertNoActiveProcessing(q)
          PROVE  cli'.pc \in {"check", "mark", "error"}
      <4>1. CASE ActiveIn(q)
        BY <3>3, <4>1 DEF AssertNoActiveProcessing, Exit, CliAt
      <4>2. CASE ~ActiveIn(q)
        BY <3>3, <4>2 DEF AssertNoActiveProcessing, Command
      <4> QED
        BY <4>1, <4>2
    <3> QED
      BY <1>4, <3>1, <3>2, <3>3
  <2>2. state' = state /\ UNCHANGED <<env, row, wanted, lost, left, kafka>>
    BY <1>4 DEF LoadState, AssertNoActiveProcessing, CliDies, CliUnchanged
  <2> QED
    BY <1>3, <2>1, <2>2
<1>5. CASE DatabaseError \/ MarkFailed
  <2>1. CASE DatabaseError
    BY <1>3, <2>1 DEF DatabaseError, CliUnchanged, Command
  <2>2. CASE MarkFailed
    <3>1. state # NoState
      BY <2>2 DEF MarkFailed, ProcessInv, Stopped, Up
    <3>2. state'.status = "failed"
      BY <2>2, <3>1 DEF MarkFailed, MarkRotation, EncryptionState
    <3> QED
      BY <1>3, <2>2, <3>2 DEF MarkFailed, Exit, CliAt, CliUnchanged
  <2> QED
    BY <1>5, <2>1, <2>2
<1>6. CASE MarkRunning
  <2>1. state # NoState
    BY <1>6 DEF MarkRunning, ProcessInv, Stopped, Up
  <2>2. /\ state'.status = "running"
        /\ cli'.pc = "read" /\ cli'.table = Audit
        /\ UNCHANGED <<env, row, wanted, lost, left, kafka>>
    BY <1>6, <2>1 DEF MarkRunning, MarkRotation, EncryptionState, Command,
       CliUnchanged
  <2>3. \A r \in Row : ~Passed(r)'
    BY <2>2, RowAssumption DEF Passed, Audit, Tables, Target
  <2> QED
    BY <1>1, <1>2, <2>2, <2>3 DEF CopyInv, CompletedMeansRotated, PassedInv,
       Present
<1>7. CASE ReadTable
  <2> DEFINE rows == {r \in Present : TableOf[r] = cli.table}
  <2>0. /\ UNCHANGED <<env, state, row, wanted, lost, left, kafka, proc>>
        /\ cli.pc = "read"
    BY <1>7 DEF ReadTable, CliUnchanged
  <2>1. CompletedMeansRotated'
    BY <2>0 DEF CompletedMeansRotated, Present
  <2>2. CASE rows = {}
    <3>1. cli' = NextTable(cli)
      BY <1>7, <2>2 DEF ReadTable
    <3>2. \A r \in Present : Passed(r)' => Passed(r)
      BY <2>0, <2>2, <3>1, PassedAtNextTable, RowAssumption
      DEF Passed, Rotating, Present, Command, Tables, Audit, Target
    <3>3. CopyInv' /\ PassedInv'
      BY <2>0, <3>1, <3>2, PassedAtNextTable
      DEF CopyInv, PassedInv, Rotating, Present
    <3> QED
      BY <1>1, <1>2, <2>0, <2>1, <3>3
  <2>3. CASE rows # {}
    <3>1. /\ cli'.pc = "rewrite" /\ cli'.table = cli.table /\ cli'.todo = rows
          /\ \A r \in rows : cli'.copy[r] = row[r].content
      BY <1>7, <2>3 DEF ReadTable, Command, Present
    <3>2. \A r \in Present : Passed(r)' => Passed(r)
      BY <2>0, <3>1 DEF Passed, Rotating
    <3>3. CopyInv' /\ PassedInv'
      BY <2>0, <3>1, <3>2 DEF CopyInv, PassedInv, Rotating, Present,
         EditsSurvive
    <3> QED
      BY <1>1, <1>2, <2>0, <2>1, <3>3
  <2> QED
    BY <2>2, <2>3
<1>8. ASSUME NEW r \in Row, Rewrite(r) PROVE RowInv'
  <2>0. /\ UNCHANGED <<env, state, wanted, lost, kafka, proc>>
        /\ cli.pc = "rewrite" /\ r \in cli.todo
    BY <1>8 DEF Rewrite, CliUnchanged
  <2>1. CASE cli' = [cli EXCEPT !.pc = "fail"] /\ UNCHANGED <<row, left>>
    BY <1>3, <2>0, <2>1 DEF Command
  <2>2. CASE /\ row' = [row EXCEPT ![r] = EncryptFor(Cli, cli.copy[r])]
             /\ left' = left \ {r} /\ r \in Present
             /\ cli' = IF cli.todo = {r} THEN NextTable([cli EXCEPT !.todo = {}])
                       ELSE [cli EXCEPT !.todo = cli.todo \ {r}]
    <3>1. /\ row'[r].kid = proc[Cli].active
          /\ row'[r].content = cli.copy[r]
          /\ \A q \in Row \ {r} : row'[q] = row[q]
      BY <2>2 DEF EncryptFor
    <3>2. /\ proc[Cli].active \in env.ring /\ proc[Cli].active # Absent
          /\ state.status = "running"
      BY <2>0 DEF KeyringInv, ProcessInv, Stopped, Up, PassedInv, Rotating
    <3>3. Present' = Present
      BY <2>2, <3>1, <3>2 DEF Present
    <3>4. EditsSurvive' /\ CompletedMeansRotated'
      BY <2>0, <3>1, <3>2, <3>3
      DEF EditsSurvive, CompletedMeansRotated, CopyInv, Present
    <3>5. KeyringOpensEverything'
      BY <2>0, <2>2, <3>1, <3>2, <3>3
      DEF KeyringOpensEverything, CanDecrypt, Present
    <3>6. \A q \in Row \ {r} : Passed(q)' => Passed(q)
      <4>1. CASE cli.todo = {r}
        <5> DEFINE c == [cli EXCEPT !.todo = {}]
        <5>1. /\ c \in Command /\ c.table = cli.table
              /\ cli' = NextTable(c)
          BY <2>2, <4>1 DEF Command
        <5>2. cli.table \in 0..3 /\ TableOf \in [Row -> 1..3]
          BY RowAssumption DEF Command, Tables, Audit, Target
        <5> HIDE DEF c
        <5> QED
          BY <2>0, <4>1, <5>1, <5>2, PassedAtNextTable DEF Passed, Rotating
      <4>2. CASE cli.todo # {r}
        BY <2>0, <2>2, <4>2 DEF Passed, Rotating, Command
      <4> QED
        BY <4>1, <4>2
    <3>7. CopyInv'
      <4>1. CASE cli.todo = {r}
        <5>1. [cli EXCEPT !.todo = {}] \in Command
          BY DEF Command
        <5> QED
          BY <2>2, <4>1, <5>1, PassedAtNextTable DEF CopyInv
      <4>2. CASE cli.todo # {r}
        BY <2>0, <2>2, <3>3, <4>2 DEF CopyInv, Command
      <4> QED
        BY <4>1, <4>2
    <3>8. PassedInv'
      BY <2>0, <2>2, <3>1, <3>2, <3>3, <3>6 DEF PassedInv, Rotating, Present
    <3> QED
      BY <1>1, <3>4, <3>5, <3>7, <3>8
  <2> QED
    BY <1>8, <2>1, <2>2 DEF Rewrite
<1>9. CASE CompleteRotation
  <2>1. /\ UNCHANGED <<env, row, wanted, lost, left, kafka>>
        /\ cli'.pc = "done"
        /\ state'.active = proc[Cli].active
        /\ cli.pc = "complete"
    BY <1>9 DEF CompleteRotation, Exit, CliAt, CliUnchanged
  <2>2. \A r \in Present \ left : row[r].kid = proc[Cli].active
    BY <2>1 DEF PassedInv, Passed, Rotating
  <2>3. CopyInv' /\ PassedInv' /\ CompletedMeansRotated'
    BY <2>1, <2>2 DEF CopyInv, PassedInv, Rotating, CompletedMeansRotated,
       Present
  <2> QED
    BY <1>1, <1>2, <2>1, <2>3
<1> QED
  BY <1>4, <1>5, <1>6, <1>7, <1>8, <1>9 DEF Rotate

\* Whatever the operator, the servers and the command do, RowInv survives it.
LEMMA RowStep ==
    ASSUME TypeOK, ProcessInv, RowInv, [Next]_vars
    PROVE  RowInv'
<1> DEFINE v == <<env, state, row, wanted, lost, left, kafka, proc, cli>>
<1>1. ASSUME UNCHANGED v PROVE RowInv'
  BY <1>1 DEF RowInv, EditsSurvive, CopyInv, CompletedMeansRotated, PassedInv,
     KeyringOpensEverything, KeyringInv, Present, Rotating, Passed, CanDecrypt
<1>2. CASE Operator
  BY <1>2, RowOperator
<1>3. ASSUME NEW s \in Server, ServerStep(s) PROVE RowInv'
  <2>1. CASE StartUp(s) \/ CreateEncryptionState(s) \/ Stop(s)
    BY <2>1, RowProcess DEF Process
  <2>2. ASSUME NEW r \in Row,
               \/ Intercept(s, r) \/ AddItem(s, r) \/ Settle(s, r)
               \/ SaveTarget(s, r) \/ Delete(s, r)
        PROVE  RowInv'
    BY <2>2, RowServer
  <2>3. CASE Send(s) \/ Consume(s)
    <3>1. UNCHANGED <<env, state, row, wanted, lost, left, proc, cli>>
      BY <2>3 DEF Send, Consume, storage, rotation
    <3>2. \A kid \in kafka' : kid \in kafka \/ (Up(s) /\ kid = proc[s].active)
      BY <2>3 DEF Send, Consume
    <3>3. KeyringOpensEverything'
      BY <3>1, <3>2 DEF RowInv, KeyringOpensEverything, CanDecrypt, Present,
         KeyringInv, Process, Up
    <3> QED
      BY <3>1, <3>3 DEF RowInv, EditsSurvive, CopyInv, CompletedMeansRotated,
         PassedInv, KeyringInv, Present, Rotating, Passed
  <2>4. CASE CheckAndLock(s) \/ Exists(s) \/ SetIfNotExists(s) \/ Release(s)
    BY <1>1, <2>4 DEF CheckAndLock, Exists, SetIfNotExists, Release, storage,
       rotation
  <2> QED
    BY <1>3, <2>1, <2>2, <2>3, <2>4 DEF ServerStep
<1>4. ASSUME NEW k \in Kid, Expire(k) PROVE RowInv'
  BY <1>1, <1>4 DEF Expire, storage, rotation
<1>5. CASE StartUp(Cli) \/ CreateEncryptionState(Cli)
  BY <1>5, RowProcess DEF Process
<1>6. CASE Rotate \/ DatabaseError \/ CliDies
  BY <1>5, <1>6, RowCommand
<1>7. CASE UNCHANGED vars
  BY <1>1, <1>7 DEF vars, storage, rotation
<1> QED
  BY <1>2, <1>3, <1>4, <1>5, <1>6, <1>7 DEF Next

\* RowInv holds throughout.
LEMMA RowInvariant == Spec => []RowInv
<1>1. Init => RowInv
  BY NameAssumption DEF Init, RowInv, EditsSurvive, CopyInv,
     CompletedMeansRotated, PassedInv, KeyringOpensEverything, KeyringInv,
     Present, Rotating, NoState, CliAt, Down
<1>2. TypeOK /\ ProcessInv /\ RowInv /\ [Next]_vars => RowInv'
  BY RowStep
<1> QED
  BY <1>1, <1>2, ProcessInvariant, PTL DEF Spec

\* When completeRotation has run, or no rotation ever did, every row is under
\* the key the state names, except those a running server wrote behind the
\* command: for any tables' contents, any servers and any number of failed,
\* killed and repeated runs.
THEOREM CompletedRotationIsComplete == Spec => []CompletedMeansRotated
  BY RowInvariant, PTL DEF RowInv

\* The keyring in force opens every row and every queued message although the
\* startup check compares one key id and a failed run leaves rows under two:
\* a key can only leave the ring once a rotation is complete.
THEOREM RingOpensEverything == Spec => []KeyringOpensEverything
  BY RowInvariant, PTL DEF RowInv

\* Re-encryption never changes the content of a row, except one edited
\* between the bulk read of its table and its own rewrite.
THEOREM RotationKeepsContent == Spec => []EditsSurvive
  BY RowInvariant, PTL DEF RowInv

-----------------------------------------------------------------------------
\* A ring with no two keys looks up nothing before the set: what it sees is
\* the active key.
LEMMA SmallRing ==
    ASSUME NEW R \in SUBSET Key, ~(Cardinality(R) > 1), NEW a \in R, NEW b \in R
    PROVE  a = b
<1>1. SUFFICES ASSUME a # b PROVE FALSE
  OBVIOUS
<1>2. IsFiniteSet(R) /\ Cardinality(R) \in Nat
  BY KeyAssumption, FS_Subset, FS_CardinalityType
<1>3. IsFiniteSet({a}) /\ Cardinality({a}) = 1
  BY FS_Singleton
<1>4. Cardinality({a} \cup {b}) = 2
  <2>1. Cardinality({a} \cup {b})
           = IF b \in {a} THEN Cardinality({a}) ELSE Cardinality({a}) + 1
    BY <1>3, FS_AddElement, Zenon
  <2>2. b \notin {a}
    BY <1>1
  <2> QED
    BY <1>3, <2>1, <2>2
<1>5. {a} \cup {b} \subseteq R
  OBVIOUS
<1>6. Cardinality({a} \cup {b}) <= Cardinality(R)
  BY <1>2, <1>5, FS_Subset
<1> QED
  BY <1>2, <1>4, <1>6

\* Starting and stopping: a process that is not up has no call under way.
LEMMA LockProcess ==
    ASSUME TypeOK, LockInv, NEW p \in Process,
           \/ StartUp(p) \/ CreateEncryptionState(p)
           \/ p \in Server /\ Stop(p)
    PROVE  LockInv'
<1> USE NameAssumption DEF TypeOK, Process, storage, locking, rotation
<1>1. /\ lock' = lock /\ blind' = blind
      /\ \A s \in Server \ {p} : call'[s] = call[s] /\ proc'[s] = proc[s]
      /\ p \in Server => call'[p].pc = "idle"
  BY DEF StartUp, CreateEncryptionState, Stop, NoCall, LockInv, CallInv, Up,
     Lookup
<1>2. CallInv'
  BY <1>1 DEF LockInv, CallInv, Up
<1>3. HolderInv => HolderInv'
  BY <1>1 DEF HolderInv, Sees
<1> QED
  BY <1>1, <1>2, <1>3 DEF LockInv

\* The lookups: a key that is not locked belongs to no holder.
LEMMA LockLookup ==
    ASSUME TypeOK, RowInv, LockInv, NEW s \in Server,
           CheckAndLock(s) \/ Exists(s)
    PROVE  LockInv'
<1> USE DEF TypeOK, Process, storage, locking, rotation
<1>1. /\ UNCHANGED <<lock, blind, proc>> /\ Up(s)
      /\ \A t \in Server \ {s} : call'[t] = call[t]
      /\ call'[s].pc \in {"idle", "exists", "set"}
      /\ call'[s].pc = "set" => call'[s].todo = {}
  BY DEF CheckAndLock, Exists, NoCall, LockInv, CallInv
<1>2. CallInv'
  BY <1>1 DEF LockInv, CallInv, Up
<1>3. ASSUME HolderInv, NEW t \in Server, t # s, call[t].pc = "held",
             call'[s].pc \in {"exists", "set"},
             proc[t].active # proc[s].active, Sees(s, proc[t].active)
      PROVE  proc[t].active \in call'[s].todo
  <2>1. proc[t].active \in lock
    BY <1>3 DEF HolderInv
  <2>2. CASE CheckAndLock(s)
    <3>1. IdempotencyKeys(s) = proc[s].ring
      BY <1>3 DEF IdempotencyKeys, Sees
    <3>2. proc[s].active \in proc[s].ring /\ proc[s].ring \in SUBSET Key
      BY <1>1, <1>3 DEF RowInv, KeyringInv, Up, Sees, Configured
    <3>3. Cardinality(proc[s].ring) > 1
      BY <1>3, <3>2, SmallRing DEF Sees
    <3> QED
      BY <1>3, <2>2, <3>1, <3>3 DEF CheckAndLock, Sees
  <2>3. CASE Exists(s)
    <3>1. proc[t].active \in call[s].todo
      BY <1>3, <2>3 DEF HolderInv, Exists
    <3>2. PICK k \in call[s].todo :
             call'[s] = IF k \in lock THEN NoCall
                        ELSE IF call[s].todo = {k}
                             THEN [pc |-> "set", todo |-> {}]
                             ELSE [pc |-> "exists", todo |-> call[s].todo \ {k}]
      BY <2>3 DEF Exists
    <3>3. k \notin lock
      BY <1>3, <3>2 DEF NoCall
    <3> QED
      BY <2>1, <3>1, <3>2, <3>3
  <2> QED
    BY <2>2, <2>3
<1>4. HolderInv => HolderInv'
  BY <1>1, <1>3 DEF HolderInv, Sees
<1> QED
  BY <1>1, <1>2, <1>4 DEF LockInv

\* The set: whoever locks past a holder it could not see, or past a lookup
\* that cannot see it, is recorded as blind.
LEMMA LockSet ==
    ASSUME TypeOK, LockInv, NEW s \in Server, SetIfNotExists(s)
    PROVE  LockInv'
<1> USE DEF TypeOK, Process, storage, locking, rotation
<1> DEFINE k == proc[s].active
<1>1. /\ UNCHANGED proc /\ Up(s)
      /\ \A t \in Server \ {s} : call'[t] = call[t]
      /\ call[s].pc = "set" /\ call[s].todo = {}
  BY DEF SetIfNotExists, LockInv, CallInv
<1>2. CASE k \in lock
  <2>1. UNCHANGED <<lock, blind>> /\ call'[s].pc = "idle"
    BY <1>2 DEF SetIfNotExists, NoCall
  <2> QED
    BY <1>1, <2>1 DEF LockInv, CallInv, HolderInv, Sees, Up
<1>3. CASE k \notin lock
  <2>1. /\ lock' = lock \cup {k} /\ call'[s].pc = "held"
        /\ blind => blind'
        /\ \A t \in Server \ {s} :
              /\ call[t].pc \in {"exists", "set"} /\ ~blind'
                 => proc[t].active = k
              /\ call[t].pc = "held" /\ ~blind' => Sees(s, proc[t].active)
    <3> DEFINE unseen ==
          \E t \in Server \ {s} :
             \/ call[t].pc \in {"exists", "set"} /\ proc[t].active # k
             \/ call[t].pc = "held" /\ ~Sees(s, proc[t].active)
    <3>1. lock' = lock \cup {k} /\ call'[s].pc = "held"
      BY <1>3 DEF SetIfNotExists
    <3>2. blind \/ unseen => blind'
      BY <1>3 DEF SetIfNotExists, Sees
    <3> QED
      BY <3>1, <3>2
  <2>2. CallInv'
    BY <1>1, <2>1 DEF LockInv, CallInv, Up
  <2>3. ASSUME HolderInv, ~blind' PROVE HolderInv'
    <3>1. \A t \in Server \ {s} : call[t].pc # "held"
      BY <1>1, <1>3, <2>1, <2>3 DEF HolderInv
    <3> QED
      BY <1>1, <2>1, <2>3, <3>1 DEF HolderInv, Sees
  <2> QED
    BY <2>1, <2>2, <2>3 DEF LockInv
<1> QED
  BY <1>2, <1>3

\* A key leaves the store with its holder.
LEMMA LockRelease ==
    ASSUME TypeOK, LockInv,
           (\E s \in Server : Release(s)) \/ (\E k \in Kid : Expire(k))
    PROVE  LockInv'
<1> USE DEF TypeOK, Process, storage, locking, rotation
<1>1. ASSUME NEW s \in Server, Release(s) PROVE LockInv'
  <2>1. /\ UNCHANGED <<proc, blind>>
        /\ call[s].pc = "held" /\ call'[s].pc = "idle"
        /\ \A t \in Server \ {s} : call'[t] = call[t]
    BY <1>1 DEF Release, NoCall
  <2>2. CallInv'
    BY <2>1 DEF LockInv, CallInv, Up
  <2>3. HolderInv => \A t \in Server : call'[t].pc # "held"
    BY <2>1 DEF HolderInv
  <2>4. HolderInv => HolderInv'
    BY <2>3 DEF HolderInv
  <2> QED
    BY <2>1, <2>2, <2>4 DEF LockInv
<1>2. ASSUME NEW k \in Kid, Expire(k) PROVE LockInv'
  <2>1. /\ UNCHANGED <<proc, blind>> /\ lock' = lock \ {k}
        /\ \A s \in Server :
              IF call[s].pc = "held" /\ proc[s].active = k
              THEN call'[s].pc = "idle" ELSE call'[s] = call[s]
    BY <1>2 DEF Expire, NoCall
  <2>2. CallInv'
    BY <2>1 DEF LockInv, CallInv, Up
  <2>3. HolderInv => HolderInv'
    BY <2>1 DEF HolderInv, Sees
  <2> QED
    BY <2>1, <2>2, <2>3 DEF LockInv
<1> QED
  BY <1>1, <1>2

\* LockInv holds throughout.
LEMMA LockInvariant == Spec => []LockInv
<1>1. Init => LockInv
  BY DEF Init, LockInv, CallInv, HolderInv, NoCall
<1>2. ASSUME TypeOK, ProcessInv, RowInv, LockInv, [Next]_vars PROVE LockInv'
  <2>1. ASSUME UNCHANGED <<lock, call, proc, blind>> PROVE LockInv'
    BY <1>2, <2>1 DEF LockInv, CallInv, HolderInv, Sees, Up
  <2>2. CASE Operator \/ UNCHANGED vars
    BY <2>1, <2>2 DEF Operator, AddKey, SetActive, RemoveKey, vars, locking
  <2>3. ASSUME NEW s \in Server, ServerStep(s) PROVE LockInv'
    <3>1. CASE StartUp(s) \/ CreateEncryptionState(s) \/ Stop(s)
      BY <1>2, <3>1, LockProcess DEF Process
    <3>2. ASSUME NEW r \in Row,
                 \/ Intercept(s, r) \/ AddItem(s, r) \/ Settle(s, r)
                 \/ SaveTarget(s, r) \/ Delete(s, r)
          PROVE  LockInv'
      BY <2>1, <3>2 DEF Intercept, AddItem, Settle, SaveTarget, Delete, Write,
         locking
    <3>3. CASE Send(s) \/ Consume(s)
      BY <2>1, <3>3 DEF Send, Consume, locking
    <3>4. CASE CheckAndLock(s) \/ Exists(s) \/ SetIfNotExists(s) \/ Release(s)
      BY <1>2, <3>4, LockLookup, LockSet, LockRelease
    <3> QED
      BY <2>3, <3>1, <3>2, <3>3, <3>4 DEF ServerStep
  <2>4. ASSUME NEW k \in Kid, Expire(k) PROVE LockInv'
    BY <1>2, <2>4, LockRelease
  <2>5. CASE StartUp(Cli) \/ CreateEncryptionState(Cli)
    BY <1>2, <2>5, LockProcess DEF Process
  <2>6. ASSUME Rotate \/ DatabaseError \/ CliDies, ~CreateEncryptionState(Cli)
        PROVE  LockInv'
    <3>1. /\ UNCHANGED <<lock, call, blind>>
          /\ proc' \in {proc, [proc EXCEPT ![Cli] = Down]}
      BY <2>6 DEF Rotate, LoadState, AssertNoActiveProcessing, MarkRunning,
         ReadTable, Rewrite, CompleteRotation, MarkFailed, DatabaseError,
         CliDies, Exit, CliUnchanged, locking
    <3>2. \A s \in Server : proc'[s] = proc[s]
      BY <1>2, <3>1, NameAssumption DEF TypeOK, Process
    <3> QED
      BY <1>2, <3>1, <3>2 DEF LockInv, CallInv, HolderInv, Sees, Up
  <2> QED
    BY <1>2, <2>2, <2>3, <2>4, <2>5, <2>6 DEF Next
<1>3. TypeOK /\ ProcessInv /\ RowInv /\ LockInv /\ [Next]_vars => LockInv'
  BY <1>2
<1> QED
  BY <1>1, <1>3, ProcessInvariant, RowInvariant, PTL DEF Spec

\* checkAndLock with one key per ring entry admits one holder of an event, for
\* any rings and any change of the active key, unless a server locked it past
\* another one's lookups or past a holder it cannot see.
THEOREM EventHasOneHolder == Spec => []OneHolder
<1>1. LockInv => OneHolder
  <2>1. SUFFICES ASSUME HolderInv
                 PROVE  Cardinality({s \in Server : call[s].pc = "held"}) <= 1
    BY DEF LockInv, OneHolder
  <2>2. CASE \E s \in Server : call[s].pc = "held"
    <3>1. PICK s \in Server : call[s].pc = "held"
      BY <2>2
    <3>2. {t \in Server : call[t].pc = "held"} = {s}
      BY <2>1, <3>1 DEF HolderInv
    <3> QED
      BY <3>2, FS_Singleton
  <2>3. CASE ~ \E s \in Server : call[s].pc = "held"
    <3>1. {t \in Server : call[t].pc = "held"} = {}
      BY <2>3
    <3> QED
      BY <3>1, FS_EmptySet
  <2> QED
    BY <2>2, <2>3
<1> QED
  BY <1>1, LockInvariant, PTL
=============================================================================
