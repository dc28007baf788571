----------------------- MODULE ConnectorRegistryProofs -----------------------
(***************************************************************************)
(* The registry's cache for any number of target systems, handlers and     *)
(* changes.                                                                *)
(***************************************************************************)
EXTENDS ConnectorRegistry, FiniteSetTheorems, WellFoundedInduction, TLAPS

-----------------------------------------------------------------------------
(* The version queries.                                                    *)

\* The count of the rows is a count of systems.
LEMMA CountInRange ==
    /\ Cardinality(System) \in Nat /\ CountQuery \in Count
    /\ Unread \notin Count /\ Unread \notin Stamp
    /\ IsFiniteSet(Rows) /\ CountQuery \in Nat
<1>1. IsFiniteSet(System)
  BY RegistryAssumption
<1>2. Rows \in SUBSET System
  BY DEF Rows
<1>3. IsFiniteSet(Rows) /\ Cardinality(Rows) <= Cardinality(System)
  BY <1>1, <1>2, FS_Subset
<1>4. Cardinality(System) \in Nat /\ Cardinality(Rows) \in Nat
  BY <1>1, <1>3, FS_CardinalityType
<1> QED
  BY <1>3, <1>4, RegistryAssumption DEF CountQuery, Count, Stamp, Unread

\* The greatest updatedAt exists, belongs to a row and bounds every row.
LEMMA MaxIsBound ==
    ASSUME db \in [System -> Row]
    PROVE  /\ MaxQuery \in Stamp
           /\ \A s \in Rows : db[s].change <= MaxQuery
           /\ Rows # {} => \E s \in Rows : MaxQuery = db[s].change
<1>1. CASE Rows = {}
  BY <1>1, RegistryAssumption DEF MaxQuery, Stamp
<1>2. CASE Rows # {}
  <2> DEFINE Bounds == {n \in Nat : \A s \in Rows : db[s].change <= n}
  <2>1. \A s \in Rows : db[s].change \in 1..MaxChanges
    BY DEF Rows, Row
  <2>2. MaxChanges \in Bounds
    BY <2>1, RegistryAssumption
  <2>3. PICK m \in Bounds : \A n \in Bounds : ~(<<n, m>> \in OpToRel(<, Nat))
    <3>1. IsWellFoundedOn(OpToRel(<, Nat), Nat)
      BY NatLessThanWellFounded
    <3>2. Bounds \subseteq Nat /\ Bounds # {}
      BY <2>2
    <3> HIDE DEF Bounds
    <3> QED
      BY <3>1, <3>2, WFMin
  <2>4. \A n \in Bounds : ~(n < m)
    BY <2>3 DEF OpToRel
  <2>5. \E s \in Rows : db[s].change = m
    <3>1. SUFFICES ASSUME \A s \in Rows : db[s].change # m PROVE FALSE
      OBVIOUS
    <3>2. m \in Nat /\ \A s \in Rows : db[s].change <= m - 1
      BY <2>1, <3>1, RegistryAssumption
    <3>3. m - 1 \in Nat
      BY <1>2, <2>1, <3>2, RegistryAssumption
    <3>4. m - 1 \in Bounds
      BY <3>2, <3>3
    <3> QED
      BY <2>4, <3>2, <3>4
  <2>6. /\ m \in {db[s].change : s \in Rows}
        /\ \A s \in Rows : db[s].change <= m
    BY <2>5
  <2>7. /\ MaxQuery \in {db[s].change : s \in Rows}
        /\ \A s \in Rows : db[s].change <= MaxQuery
    BY <1>2, <2>6 DEF MaxQuery
  <2> QED
    BY <2>1, <2>7, RegistryAssumption DEF Stamp
<1> QED
  BY <1>1, <1>2

-----------------------------------------------------------------------------
(* Typing.                                                                 *)

\* A reading starts unread and takes the two answers one by one.
LEMMA ReadingStep ==
    ASSUME db \in [System -> Row], NEW phase \in {"idle", "load", "version"}
    PROVE  /\ At(phase) \in Reading
           /\ \A r \in Reading : Complete(r) => VersionOf(r) \in [count : Count, max : Stamp]
<1>1. ASSUME NEW c \in Count \cup {Unread}, NEW m \in Stamp \cup {Unread}
      PROVE  [at |-> phase, count |-> c, max |-> m] \in Reading
  BY DEF Reading
<1>2. At(phase) \in Reading
  BY <1>1 DEF At
<1>3. ASSUME NEW r \in Reading, Complete(r)
      PROVE  VersionOf(r) \in [count : Count, max : Stamp]
  BY <1>3 DEF Reading, Complete, VersionOf
<1> QED
  BY <1>2, <1>3

\* What a load installs is a change, a static connector or nothing.
LEMMA VisibleTyped ==
    ASSUME db \in [System -> Row]
    PROVE  Visible \in [System -> 0..Blueprint]
<1>1. ASSUME NEW s \in System
      PROVE  Visible[s] \in 0..Blueprint
  <2>1. db[s].change \in 0..MaxChanges /\ db[s].served \in BOOLEAN
    <3>1. CASE db[s] = NoRow
      BY <3>1, RegistryAssumption DEF NoRow
    <3>2. CASE db[s] # NoRow
      BY <3>2 DEF Row
    <3> QED
      BY <3>1, <3>2
  <2>2. Visible[s] \in {db[s].change, Blueprint, Nothing}
    BY <2>1 DEF Visible
  <2> QED
    BY <2>1, <2>2, RegistryAssumption DEF Blueprint, Nothing
<1> QED
  BY <1>1 DEF Visible

\* A row is written with the number of its change.
LEMMA WriteTyped ==
    ASSUME TypeOK, NEW s \in System, WriteRow(s)
    PROVE  /\ db' \in [System -> Row] /\ changes' \in 0..MaxChanges
           /\ changes' = changes + 1
           /\ \A q \in System \ {s} : db'[q] = db[q]
           /\ db'[s] = NoRow \/ db'[s].change = changes + 1
<1> USE DEF TypeOK
<1>1. changes + 1 \in 1..MaxChanges
  BY RegistryAssumption DEF WriteRow
<1>2. ASSUME NEW n \in 1..MaxChanges, NEW served \in BOOLEAN
      PROVE  [change |-> n, served |-> served] \in Row
  BY DEF Row
<1>3. NoRow \in Row
  BY DEF Row
<1>4. CASE db' = [db EXCEPT ![s] = NoRow]
  BY <1>1, <1>3, <1>4 DEF WriteRow
<1>5. ASSUME NEW served \in BOOLEAN,
             db' = [db EXCEPT ![s] = [change |-> changes + 1, served |-> served]]
      PROVE  /\ db' \in [System -> Row] /\ db'[s].change = changes + 1
             /\ \A q \in System \ {s} : db'[q] = db[q]
  <2>1. [change |-> changes + 1, served |-> served] \in Row
    BY <1>1, <1>2
  <2> QED
    BY <1>5, <2>1
<1> QED
  BY <1>1, <1>4, <1>5 DEF WriteRow

\* Every variable keeps its declared range; in particular the version queries
\* answer within the bounds of the table.
THEOREM Typing == Spec => []TypeOK
<1>1. Init => TypeOK
  <2> SUFFICES ASSUME Init PROVE TypeOK
    OBVIOUS
  <2>1. NoRow \in Row
    BY DEF Row
  <2>2. db \in [System -> Row]
    BY <2>1 DEF Init
  <2>3. conn \in [System -> 0..Blueprint]
    BY <2>2, VisibleTyped DEF Init
  <2>4. last \in [count : Count, max : Stamp]
    BY <2>2, CountInRange, MaxIsBound DEF Init
  <2>5. reload \in Reading /\ poll \in Reading
    BY <2>2, ReadingStep DEF Init
  <2>6. changes \in 0..MaxChanges /\ failures \in 0..MaxFailures
    BY RegistryAssumption DEF Init
  <2> QED
    BY <2>2, <2>3, <2>4, <2>5, <2>6 DEF Init, TypeOK
<1>2. ASSUME TypeOK, [Next]_vars PROVE TypeOK'
  <2> USE <1>2, RegistryAssumption DEF TypeOK
  <2>1. ASSUME NEW s \in System,
               ChangeElsewhere(s) \/ \E h \in Handler : Change(h, s)
        PROVE  TypeOK'
    <3>1. db' \in [System -> Row] /\ changes' \in 0..MaxChanges
      BY <2>1, WriteTyped DEF ChangeElsewhere, Change
    <3> QED
      BY <2>1, <3>1 DEF ChangeElsewhere, Change
  <2>2. ASSUME NEW h \in Handler, CallReload(h) \/ Answer(h) PROVE TypeOK'
    BY <2>2, ReadingStep DEF CallReload, JoinOrStart, Answer
  <2>3. CASE Load
    BY <2>3, VisibleTyped, ReadingStep DEF Load
  <2>4. CASE ReloadReads \/ PollReads
    BY <2>4 DEF ReloadReads, PollReads
  <2>5. CASE ReloadEnds
    BY <2>5, ReadingStep DEF ReloadEnds
  <2>6. CASE ReloadFails \/ PollFails
    BY <2>6, ReadingStep DEF ReloadFails, PollFails
  <2>7. CASE PollStarts \/ PollEnds
    BY <2>7, ReadingStep DEF PollStarts, PollEnds, JoinOrStart
  <2>8. CASE UNCHANGED vars
    BY <2>8 DEF vars
  <2> QED
    BY <2>1, <2>2, <2>3, <2>4, <2>5, <2>6, <2>7, <2>8 DEF Next
<1>3. TypeOK /\ [Next]_vars => TypeOK'
  BY <1>2
<1> QED
  BY <1>1, <1>3, PTL DEF Spec

-----------------------------------------------------------------------------
(* The cache.  The table the process last took its version from is not     *)
(* kept anywhere; all that is known of it is that what it serves was built *)
(* from it and that every row written since is newer than the version.     *)

RowsOf(d) == {s \in System : d[s] # NoRow}
VisibleOf(d) ==
    [s \in System |-> CASE d[s].served -> d[s].change
                        [] ~d[s].served /\ s \in Allowlist -> Blueprint
                        [] OTHER -> Nothing]

TakenFrom(d) ==
    /\ reload.at # "version" => conn = VisibleOf(d)
    /\ last.count = Cardinality(RowsOf(d))
    /\ \A s \in System : db[s] \in {d[s], NoRow} \/ db[s].change > last.max

ReloadInv ==
    reload.at = "version" => /\ conn = Visible
                             /\ reload.count \in {Unread, CountQuery}
                             /\ reload.max \in {Unread, MaxQuery}

CacheInv ==
    /\ \A s \in System : db[s].change <= changes
    /\ last.max <= changes
    /\ ReloadInv
    /\ \E d \in [System -> Row] : TakenFrom(d)

\* The version's maximum is not ahead of the clock of the changes.
LEMMA MaxNotAhead ==
    ASSUME TypeOK, CacheInv
    PROVE  MaxQuery <= changes
<1>1. CASE Rows = {}
  BY <1>1 DEF MaxQuery, TypeOK
<1>2. CASE Rows # {}
  BY <1>2, MaxIsBound DEF TypeOK, CacheInv, Rows
<1> QED
  BY <1>1, <1>2

\* With no change between a load and its version, and no version query that
\* fails, CacheInv survives every step.
LEMMA CacheStep ==
    ASSUME Quiet, "version" \notin Faults, TypeOK, CacheInv, [Next]_vars
    PROVE  CacheInv'
<1> USE DEF TypeOK
<1>1. ASSUME NEW s \in System, WriteRow(s), UNCHANGED <<conn, last, reload>>
      PROVE  CacheInv'
  <2>1. /\ changes' = changes + 1 /\ changes \in Nat /\ reload.at # "version"
        /\ \A q \in System \ {s} : db'[q] = db[q]
        /\ db'[s] = NoRow \/ db'[s].change = changes + 1
        /\ \A q \in System : db[q].change \in Nat
    BY <1>1, WriteTyped, RegistryAssumption DEF WriteRow, Row, NoRow
  <2>2. PICK d \in [System -> Row] : TakenFrom(d)
    BY DEF CacheInv
  <2>3. last.max \in Nat
    BY DEF Stamp
  <2>4. TakenFrom(d)'
    BY <1>1, <2>1, <2>2, <2>3 DEF TakenFrom, CacheInv
  <2>5. \A q \in System : db'[q].change <= changes'
    BY <2>1 DEF CacheInv, NoRow
  <2> QED
    BY <1>1, <2>1, <2>3, <2>4, <2>5 DEF CacheInv, ReloadInv
<1>2. ASSUME UNCHANGED <<db, changes, conn, last>>,
             reload' = reload \/ (reload.at # "version" /\ reload'.at # "version")
      PROVE  CacheInv'
  <2>1. CountQuery' = CountQuery /\ MaxQuery' = MaxQuery /\ Visible' = Visible
    BY <1>2 DEF CountQuery, MaxQuery, Rows, Visible
  <2>2. ReloadInv'
    BY <1>2, <2>1 DEF CacheInv, ReloadInv
  <2>3. \A d \in [System -> Row] : TakenFrom(d) => TakenFrom(d)'
    BY <1>2 DEF TakenFrom
  <2> QED
    BY <1>2, <2>2, <2>3 DEF CacheInv
<1>3. ASSUME NEW h \in Handler, CallReload(h) \/ Answer(h) PROVE CacheInv'
  BY <1>2, <1>3 DEF CallReload, JoinOrStart, Answer, At
<1>4. CASE Load
  <2>1. /\ UNCHANGED <<db, changes, last>> /\ conn' = Visible
        /\ reload'.at = "version" /\ reload'.count = Unread /\ reload'.max = Unread
    BY <1>4 DEF Load, At
  <2> QED
    BY <2>1 DEF CacheInv, ReloadInv, TakenFrom, Visible
<1>5. CASE ReloadReads
  <2>1. /\ UNCHANGED <<db, changes, last, conn>>
        /\ reload.at = "version" /\ reload'.at = "version"
        /\ \/ reload'.count = CountQuery /\ reload'.max = reload.max
           \/ reload'.max = MaxQuery /\ reload'.count = reload.count
    BY <1>5 DEF ReloadReads, ReadVersion, Reading
  <2>2. CountQuery' = CountQuery /\ MaxQuery' = MaxQuery /\ Visible' = Visible
    BY <2>1 DEF CountQuery, MaxQuery, Rows, Visible
  <2> QED
    BY <2>1, <2>2 DEF CacheInv, ReloadInv, TakenFrom
<1>6. CASE ReloadEnds
  <2>1. /\ UNCHANGED <<db, changes, conn>> /\ conn = Visible
        /\ reload'.at = "idle"
        /\ last'.count = CountQuery /\ last'.max = MaxQuery
    BY <1>6 DEF ReloadEnds, Complete, VersionOf, CacheInv, ReloadInv, At
  <2>2. Visible = VisibleOf(db) /\ CountQuery = Cardinality(RowsOf(db))
    BY DEF Visible, VisibleOf, CountQuery, Rows, RowsOf
  <2>3. MaxQuery <= changes
    BY MaxNotAhead
  <2>4. \E d \in [System -> Row] : TakenFrom(d)'
    BY <2>1, <2>2 DEF TakenFrom
  <2> QED
    BY <2>1, <2>3, <2>4 DEF CacheInv, ReloadInv
<1>7. CASE ReloadFails
  BY <1>2, <1>7 DEF ReloadFails, At
<1>8. CASE PollStarts \/ PollReads \/ PollEnds \/ PollFails
  BY <1>2, <1>8 DEF PollStarts, PollReads, PollEnds, PollFails, JoinOrStart, At
<1>9. CASE UNCHANGED vars
  BY <1>2, <1>9 DEF vars
<1> QED
  BY <1>1, <1>3, <1>4, <1>5, <1>6, <1>7, <1>8, <1>9
  DEF Next, ChangeElsewhere, Change

\* A version that is the table's leaves no room for another table: no row is
\* newer, so rows are missing at most, and the count says that none is.
LEMMA VersionTells ==
    ASSUME TypeOK, CacheInv
    PROVE  CurrentVersionMeansCurrentRows
<1>1. SUFFICES ASSUME last.count = CountQuery, last.max = MaxQuery,
                      reload.at # "version"
               PROVE  conn = Visible
  BY DEF CurrentVersionMeansCurrentRows, CacheInv, ReloadInv
<1>2. PICK d \in [System -> Row] : TakenFrom(d)
  BY DEF CacheInv
<1>3. MaxQuery \in Nat /\ \A s \in Rows : db[s].change \in Nat /\ db[s].change <= MaxQuery
  BY MaxIsBound, RegistryAssumption DEF TypeOK, Stamp, Rows, Row
<1>4. \A s \in System : db[s] = d[s] \/ db[s] = NoRow
  BY <1>1, <1>2, <1>3 DEF TakenFrom, Rows
<1>5. Rows \in SUBSET RowsOf(d)
  BY <1>4 DEF Rows, RowsOf
<1>6. IsFiniteSet(RowsOf(d))
  <2>1. RowsOf(d) \in SUBSET System /\ IsFiniteSet(System)
    BY RegistryAssumption DEF RowsOf
  <2> QED
    BY <2>1, FS_Subset
<1>7. RowsOf(d) = Rows
  <2>1. Cardinality(RowsOf(d)) = Cardinality(Rows)
    BY <1>1, <1>2 DEF TakenFrom, CountQuery
  <2> QED
    BY <1>5, <1>6, <2>1, FS_Subset
<1>8. \A s \in System : db[s] = d[s]
  BY <1>4, <1>7 DEF Rows, RowsOf
<1> QED
  BY <1>1, <1>2, <1>8 DEF TakenFrom, VisibleOf, Visible

\* The poll can trust lastRegistryVersion for any table, any deletions and any
\* number of handlers, provided no row changes between the two steps of a
\* reload and its version queries do not fail.
THEOREM VersionIsTrustworthy ==
    ASSUME Quiet, "version" \notin Faults
    PROVE  Spec => []CurrentVersionMeansCurrentRows
<1>1. Init => CacheInv
  <2> SUFFICES ASSUME Init PROVE CacheInv
    OBVIOUS
  <2>1. Rows = {} /\ \A s \in System : db[s].change = 0
    BY DEF Init, Rows, NoRow
  <2>2. last.max = 0 /\ last.count = CountQuery /\ changes = 0
    BY <2>1 DEF Init, MaxQuery
  <2>3. db \in [System -> Row]
    BY DEF Init, Row
  <2>4. TakenFrom(db)
    BY <2>2 DEF TakenFrom, Init, Visible, VisibleOf, CountQuery, Rows, RowsOf
  <2>5. reload.at = "idle"
    BY DEF Init, At
  <2> QED
    BY <2>1, <2>2, <2>3, <2>4, <2>5 DEF CacheInv, ReloadInv
<1>2. TypeOK /\ CacheInv /\ [Next]_vars => CacheInv'
  BY CacheStep
<1>3. TypeOK /\ CacheInv => CurrentVersionMeansCurrentRows
  BY VersionTells
<1> QED
  BY <1>1, <1>2, <1>3, Typing, PTL DEF Spec
=============================================================================
