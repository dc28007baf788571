------------------------- MODULE ConnectorCallsProofs -------------------------
(***************************************************************************)
(* Theorems about ConnectorCalls, for any number of overlapping calls,     *)
(* users and executions: what the connectors declare is what they do, a    *)
(* pool is closed on every way out, and an answered write is visible.      *)
(***************************************************************************)
EXTENDS ConnectorCalls, TLAPS

Writing == {"send", "merge", "members"}

-----------------------------------------------------------------------------
(***************************************************************************)
(* What the four connectors make of the vocabulary, in one table: the      *)
(* change a writing plan may ask for, and the kinds of request it may use. *)
(***************************************************************************)
ChangesOf(t, op) ==
    CASE op \in {"user.create", "group.create"} -> {"new", "newDefault"}
      [] op \in {"user.update", "user.addAttributes", "group.update"} -> {"set"}
      [] op = "user.changePassword" -> {"set", "same"}
      [] op = "user.removeAttributes" -> {"clear"}
      [] op \in {"user.delete", "group.delete"} ->
            IF t = "cmdbuild" THEN {"off"} ELSE {"gone"}
      [] op \in {"user.enable", "user.unlock"} ->
            IF t = "zabbix" THEN {"enableGroup"} ELSE {"on"}
      [] op \in {"user.disable", "user.lock"} ->
            IF t = "zabbix" THEN {"disableGroup"} ELSE {"off"}
      [] op = "group.addMember" -> {"join"}
      [] op = "group.removeMember" -> {"leave"}
      [] OTHER -> {}

Means(t, op, given, plan) ==
    /\ plan.kind \in Writing
    /\ plan.change \in ChangesOf(t, op)
    /\ "password" \in given => plan.change # "same"
    /\ op \in {"user.create", "group.create"} => plan.kind = "send"
    /\ t = "zabbix" => plan.kind # "merge"
    /\ plan.kind = "members" => t = "zabbix" /\ op \in MemberOps

\* What REST, DB and fake send does not concern a card.
Foreign == {"echo", "insert", "touch"}

-----------------------------------------------------------------------------
(***************************************************************************)
(* The inductive invariant.                                                *)
(***************************************************************************)
\* A pool is open exactly while a call that owns one is under way.
PoolOK(x) ==
    CASE x.pc \in {"idle", "ok", "error"} -> x.pool = "none"
      [] x.pc = "thrown" -> x.pool \in {"none", "leaked"}
      [] x.pc = "destroy" -> x.pool = "open" /\ OwnsPool(x.in)
      [] x.pc \in Waiting -> x.pool = IF OwnsPool(x.in) THEN "open" ELSE "none"

SupportOK(x) ==
    conn \in Declared /\ x.in.op \in AVANPOST_OPERATIONS =>
        IF OperationStatus(conn)[x.in.op] = "unsupported"
        THEN x.pc = "error" /\ ~x.sent
        ELSE x.pc = "error" /\ cfg \in Complete /\ Sufficient(x.in) => x.sent

\* How far a call is decides what it holds.
StageOK(x) ==
    LET kind == ConnectorPlan(conn, cfg, x.in.op, x.in.given).kind
    IN  /\ x.pc \in Waiting => x.sent
        /\ x.pc = "login" => conn = "zabbix"
        /\ x.pc = "read" => kind \in {"merge", "members"}
        /\ x.pc = "write" => kind \in Writing
        /\ x.pc = "write" /\ kind = "merge" => x.card.here
        /\ Holdable(x.card)

TypedCall(c, x) ==
    /\ DOMAIN x = DOMAIN Idle
    /\ x.pc \in {"idle", "destroy"} \cup Waiting \cup Ended
    /\ x.in.ent \in Entity
    /\ IF x.pc = "idle" THEN x.in = NoOp /\ x.tries = 0 ELSE x.in \in Inputs(conn, c)
    /\ x.sent \in BOOLEAN /\ x.ok \in BOOLEAN
    /\ x.card \in Card
    /\ x.list \subseteq User
    /\ x.pool \in {"none", "open", "leaked"}
    /\ x.tries \in 0..MaxTries[c]

CallOK(c, x) == TypedCall(c, x) /\ StageOK(x) /\ PoolOK(x) /\ SupportOK(x)

\* A request that was sent: its call is the same as when it was built.
WriteOK(w) ==
    /\ w.by \in Call /\ call[w.by].pc # "idle"
    /\ w.in = call[w.by].in /\ w.in \in Inputs(conn, w.by)
    /\ w.plan = ConnectorPlan(conn, cfg, w.in.op, w.in.given)
    /\ w.plan.kind \in Writing
    /\ w.card \in Card /\ w.list \subseteq User
    /\ Holdable(w.card)
    /\ w.plan.kind = "merge" => w.card.here

ShapeInv ==
    /\ conn \in Connectors
    /\ DOMAIN call = Call
    /\ \A c \in Call : CallOK(c, call[c])
    /\ \A w \in late : WriteOK(w)
    /\ \A e \in Entity : Holdable(store[e])

\* Only an answered call is in fresh, so repeating a call undoes nothing that
\* was promised.
VisibleInv ==
    conn \in Declared \ {"fake"} =>
        \A c \in fresh : call[c].pc = "ok" /\ Achieved(call[c].in, store)

Inv == TypeOK /\ ShapeInv /\ VisibleInv

-----------------------------------------------------------------------------
(* The plans.                                                              *)

\* Every plan is one of the six kinds; REST, DB and fake write no card.
LEMMA PlanKinds ==
    ASSUME NEW t \in Declared \cup {"rest", "db"}, NEW g, NEW op, NEW id,
           t \in Declared => op \in AVANPOST_OPERATIONS \cup {"testConnection"}
    PROVE  /\ ConnectorPlan(t, g, op, id).kind \in
                  {"refuse", "local", "query"} \cup Writing
           /\ t \in {"fake", "rest", "db"} =>
                  /\ ConnectorPlan(t, g, op, id).kind \notin {"merge", "members"}
                  /\ ConnectorPlan(t, g, op, id).kind = "send" =>
                        ConnectorPlan(t, g, op, id).change \in Foreign
           /\ t = "db" => ConnectorPlan(t, g, op, id) = SqlPlan(op)
<1>1. CASE t = "rest"
  <2>1. ConnectorPlan(t, g, op, id) = RestPlan(g, op)
    BY <1>1 DEF ConnectorPlan
  <2>2. RestPlan(g, op) \in {Refuse, Query, Send("echo")}
    BY DEF RestPlan, RestTestConnection
  <2> QED
    BY <1>1, <2>1, <2>2 DEF Refuse, Query, Send, Plan, Writing, Foreign
<1>2. CASE t = "db"
  <2>1. ConnectorPlan(t, g, op, id) = SqlPlan(op)
    BY <1>2 DEF ConnectorPlan
  <2>2. SqlPlan(op) \in {Refuse, Query, Send("insert"), Send("touch")}
    BY DEF SqlPlan, DbTestConnection
  <2> QED
    BY <1>2, <2>1, <2>2 DEF Refuse, Query, Send, Plan, Writing, Foreign
<1>3. CASE t = "fake"
  BY <1>3 DEF ConnectorPlan, FakePlan, ExecuteLocalMock, TestConnectionPlan,
     FakeTestConnection, Refuse, Local, Query, Send, Plan, Writing, Foreign
<1>4. CASE t = "zabbix"
  BY <1>4 DEF ConnectorPlan, ZabbixPlan, BuildZabbixCall, TestConnectionPlan,
     ZabbixTestConnection, Refuse, Query, Send, Members, Plan, Writing
<1>5. CASE t = "cmdbuild"
  BY <1>5 DEF ConnectorPlan, CmdbuildPlan, ExecuteStatefulOperation,
     CmdbuildRequest, PathSegment, SearchRoles, TestConnectionPlan,
     CmdbuildTestConnection, Refuse, Query, Send, Merge, Plan, Writing
<1>6. CASE t = "passwork"
  BY <1>6 DEF ConnectorPlan, PassworkPlan, PassworkRequest, PassworkSync,
     RequireId, LocalSchema, TestConnectionPlan, PassworkTestConnection,
     Refuse, Local, Query, Send, Plan, Writing
<1> QED
  BY <1>1, <1>2, <1>3, <1>4, <1>5, <1>6 DEF Declared

\* A plan that writes asks for what its operation means, on each of the three
\* connectors that keep cards.
LEMMA PlanMeans ==
    ASSUME NEW t \in Declared \ {"fake"}, NEW g, NEW id,
           NEW op \in AVANPOST_OPERATIONS \cup {"testConnection"},
           ConnectorPlan(t, g, op, id).kind \in Writing
    PROVE  Means(t, op, id, ConnectorPlan(t, g, op, id))
<1>1. CASE t = "zabbix"
  <2>1. CASE op = "user.changePassword"
    <3>1. ConnectorPlan(t, g, op, id) \in
            {Refuse, Send(IF "password" \in id THEN "set" ELSE "same")}
      BY <1>1, <2>1 DEF ConnectorPlan, ZabbixPlan, BuildZabbixCall, MemberOps
    <3> QED
      BY <1>1, <2>1, <3>1 DEF Refuse, Send, Plan, Means, ChangesOf, Writing
  <2>2. CASE op # "user.changePassword"
    <3> DEFINE plan == ConnectorPlan(t, g, op, id)
    <3>1. /\ plan.kind \in Writing /\ plan.kind # "merge"
          /\ plan.change \in ChangesOf(t, op)
          /\ op \in {"user.create", "group.create"} => plan.kind = "send"
          /\ plan.kind = "members" => op \in MemberOps
      <4>1. CASE op \in MemberOps
        <5>1. plan \in {Refuse, Members(IF op = "group.addMember" THEN "join"
                                       ELSE "leave")}
          BY <1>1, <4>1 DEF ConnectorPlan, ZabbixPlan, MemberOps
        <5> QED
          BY <1>1, <4>1, <5>1
             DEF Refuse, Members, Plan, Writing, ChangesOf, MemberOps
      <4>2. CASE op \notin MemberOps
        <5>1. plan \in {Refuse, Query, BuildZabbixCall(op, id)}
          BY <1>1, <4>2 DEF ConnectorPlan, ZabbixPlan, MemberOps,
             TestConnectionPlan, ZabbixTestConnection
        <5>2. plan = BuildZabbixCall(op, id) /\ plan # Query
          BY <5>1 DEF Refuse, Query, Plan, Writing
        <5> HIDE DEF plan
        <5>3. /\ plan.kind = "send" /\ plan.change \in ChangesOf(t, op)
          BY <1>1, <2>2, <5>2 DEF BuildZabbixCall, Send, Plan, ChangesOf
        <5> QED
          BY <4>2, <5>3 DEF Writing
      <4> QED
        BY <4>1, <4>2
    <3> HIDE DEF plan
    <3>2. plan.change # "same"
      BY <1>1, <2>2, <3>1 DEF ChangesOf
    <3> QED
      BY <1>1, <3>1, <3>2 DEF Means, plan
  <2> QED
    BY <2>1, <2>2
<1>2. CASE t = "cmdbuild"
  BY <1>2 DEF ConnectorPlan, CmdbuildPlan, ExecuteStatefulOperation,
     CmdbuildRequest, PathSegment, SearchRoles, TestConnectionPlan,
     ApplyDefaultUserGroup,
     CmdbuildTestConnection, Refuse, Query, Send, Merge, Plan, Writing,
     Means, ChangesOf, MemberOps, AVANPOST_OPERATIONS, READ_OPERATIONS,
     WRITE_OPERATIONS
<1>3. CASE t = "passwork"
  BY <1>3 DEF ConnectorPlan, PassworkPlan, PassworkRequest, PassworkSync,
     RequireId, LocalSchema, TestConnectionPlan, PassworkTestConnection,
     Refuse, Local, Query, Send, Plan, Writing,
     Means, ChangesOf, MemberOps, AVANPOST_OPERATIONS, READ_OPERATIONS,
     WRITE_OPERATIONS
<1> QED
  BY <1>1, <1>2, <1>3 DEF Declared

\* The declarations: what is unsupported is refused, and nothing else is when
\* the config is complete and the payload names its object.
LEMMA PlanDeclared ==
    ASSUME NEW t \in Declared, NEW g, NEW id, NEW op \in AVANPOST_OPERATIONS
    PROVE  /\ OperationStatus(t)[op] = "unsupported" =>
                  /\ t = "passwork"
                  /\ ConnectorPlan(t, g, op, id).kind = "refuse"
           /\ OperationStatus(t)[op] # "unsupported" /\ g \in Complete /\ "id" \in id
              /\ (t = "cmdbuild" /\ op = "user.changePassword" => "password" \in id) =>
                  ConnectorPlan(t, g, op, id).kind # "refuse"
<1>1. CASE t = "zabbix"
  BY <1>1 DEF ConnectorPlan, ZabbixPlan, BuildZabbixCall, TestConnectionPlan,
     ZabbixTestConnection, Refuse, Query, Send, Members, Plan, Complete,
     OperationStatus, CreateConnectorCapabilities
<1>2. CASE t = "cmdbuild"
  BY <1>2 DEF ConnectorPlan, CmdbuildPlan, ExecuteStatefulOperation,
     CmdbuildRequest, PathSegment, SearchRoles, TestConnectionPlan,
     CmdbuildTestConnection, Refuse, Query, Send, Merge, Plan, MemberOps,
     Complete, OperationStatus, CreateConnectorCapabilities, AVANPOST_OPERATIONS,
     READ_OPERATIONS, WRITE_OPERATIONS
<1>3. CASE t = "passwork"
  BY <1>3 DEF ConnectorPlan, PassworkPlan, PassworkRequest, PassworkSync,
     RequireId, LocalSchema, PASSWORK_UNSUPPORTED_OPERATIONS,
     PASSWORK_PARTIAL_OPERATIONS, Refuse, Local, Query, Send, Plan, Complete,
     OperationStatus, CreateConnectorCapabilities, AVANPOST_OPERATIONS,
     READ_OPERATIONS, WRITE_OPERATIONS
<1>4. CASE t = "fake"
  BY <1>4 DEF ConnectorPlan, FakePlan, ExecuteLocalMock, Refuse, Local, Send,
     Plan, OperationStatus, CreateConnectorCapabilities, AVANPOST_OPERATIONS,
     READ_OPERATIONS, WRITE_OPERATIONS
<1> QED
  BY <1>1, <1>2, <1>3, <1>4 DEF Declared

-----------------------------------------------------------------------------
(* The cards.                                                              *)

\* Two cards that agree except in the fields F.
SameBut(a, b, F) == \A f \in DOMAIN NoCard \ F : a[f] = b[f]

\* What a change makes of a card, field by field.
LEMMA ChangedFields ==
    ASSUME NEW card \in Card, NEW change
    PROVE  LET new == Changed(card, change)
           IN  /\ new \in Card
               /\ change \in {"new", "newDefault"} =>
                     new.here /\ new.active /\ new.groups \subseteq {"default"}
               /\ change = "gone" => new = NoCard
               /\ change = "set" => new.attr = "set"
               /\ change = "clear" => new.attr = "clear"
               /\ change \in {"set", "clear"} => SameBut(new, card, {"attr"})
               /\ change = "on" => new.active
               /\ change = "off" => ~new.active
               /\ change \in {"on", "off"} => SameBut(new, card, {"active"})
               /\ change = "enableGroup" => new.groups = {"on"}
               /\ change = "disableGroup" => new.groups = {"off"}
               /\ change = "join" => new.groups = card.groups \cup {Group}
               /\ change = "leave" => new.groups = card.groups \ {Group}
               /\ change \in {"enableGroup", "disableGroup", "join", "leave"} =>
                     SameBut(new, card, {"groups"})
               /\ change \in Foreign \cup {"same"} => new = card
<1>1. NoCard \in Card
  BY DEF NoCard, Card
<1>2. CASE change \in {"new", "newDefault", "gone", "same"} \cup Foreign
  BY <1>1, <1>2 DEF Changed, NoCard, Card, Foreign
<1>3. CASE change \in {"set", "clear"}
  BY <1>3 DEF Changed, NoCard, Card, Foreign, SameBut
<1>4. CASE change \in {"on", "off"}
  BY <1>4 DEF Changed, NoCard, Card, Foreign, SameBut
<1>5. CASE change \in {"enableGroup", "disableGroup", "join", "leave"}
  BY <1>5 DEF Changed, NoCard, Card, Foreign, SameBut
<1>6. CASE change \notin {"new", "newDefault", "gone", "set", "clear", "on",
                          "off", "enableGroup", "disableGroup", "join",
                          "leave", "same"} \cup Foreign
  BY <1>6 DEF Changed, Foreign
<1> QED
  BY <1>2, <1>3, <1>4, <1>5, <1>6

\* The card a request starts from.
Base(w) == IF w.plan.kind = "merge" THEN w.card ELSE store[w.in.ent]

KeepsCards == conn \in Declared \ {"fake"}

\* A member is already in, a stranger already out.
LEMMA JoinAgain ==
    ASSUME NEW card \in Card
    PROVE  /\ Group \in card.groups => Changed(card, "join") = card
           /\ Group \notin card.groups => Changed(card, "leave") = card
<1>1. ASSUME NEW change \in {"join", "leave"}, Changed(card, change).groups = card.groups
      PROVE  Changed(card, change) = card
  <2>1. Changed(card, change) \in Card /\ SameBut(Changed(card, change), card, {"groups"})
    BY <1>1, ChangedFields
  <2> QED
    BY <1>1, <2>1 DEF Card, SameBut, NoCard
<1>2. Changed(card, "join").groups = card.groups \cup {Group}
  BY ChangedFields
<1>3. Changed(card, "leave").groups = card.groups \ {Group}
  BY ChangedFields
<1>4. ASSUME Group \in card.groups PROVE Changed(card, "join") = card
  BY <1>1, <1>2, <1>4
<1>5. ASSUME Group \notin card.groups PROVE Changed(card, "leave") = card
  BY <1>1, <1>3, <1>5
<1> QED
  BY <1>4, <1>5

\* What a request stands for, given what is known of its call.
LEMMA WriteFacts ==
    ASSUME TypeOK, ShapeInv, NEW w, WriteOK(w)
    PROVE  /\ w.in.ent \in Entity
           /\ w.by \in Call
           /\ w.plan.kind \in Writing
           /\ KeepsCards => Means(conn, w.in.op, w.in.given, w.plan)
           /\ w.in.op \in MemberOps /\ KeepsCards => w.in.ent \in User
           /\ ~KeepsCards => w.plan.kind = "send" /\ w.plan.change \in Foreign
<1>1. conn \in Connectors /\ w.by \in Call /\ w.in \in Inputs(conn, w.by)
  BY DEF ShapeInv, WriteOK
<1>2. /\ w.in.ent \in Entity
      /\ conn \in Declared =>
            /\ w.in.op \in AVANPOST_OPERATIONS \cup {"testConnection"}
            /\ w.in.op \in MemberOps => w.in.ent \in User
  BY <1>1, InputAssumption
<1>3. w.plan = ConnectorPlan(conn, cfg, w.in.op, w.in.given) /\ w.plan.kind \in Writing
  BY DEF WriteOK
<1>4. conn \in Declared \cup {"rest", "db"}
  BY <1>1, ConnectorsAssumption
<1>5. KeepsCards => Means(conn, w.in.op, w.in.given, w.plan)
  BY <1>2, <1>3, PlanMeans DEF KeepsCards
<1>6. ~KeepsCards => w.plan.kind = "send" /\ w.plan.change \in Foreign
  <2>1. SUFFICES ASSUME ~KeepsCards
                 PROVE  w.plan.kind = "send" /\ w.plan.change \in Foreign
    OBVIOUS
  <2>2. conn \in {"fake", "rest", "db"}
    BY <1>4, <2>1 DEF KeepsCards, Declared
  <2> QED
    BY <1>2, <1>3, <1>4, <2>2, PlanKinds DEF Writing
<1> QED
  BY <1>1, <1>2, <1>3, <1>5, <1>6 DEF KeepsCards

\* The request of a connector without cards leaves the target as it is.
LEMMA ForeignWrite ==
    ASSUME TypeOK, ShapeInv, NEW w, WriteOK(w), ~KeepsCards
    PROVE  Applied(w, store) = store
<1>1. w.in.ent \in Entity /\ w.plan.kind = "send" /\ w.plan.change \in Foreign
  BY WriteFacts
<1>2. store \in [Entity -> Card]
  BY DEF TypeOK
<1>3. Applied(w, store) = [store EXCEPT ![w.in.ent] = Changed(store[w.in.ent], w.plan.change)]
  BY <1>1 DEF Applied
<1>4. Changed(store[w.in.ent], w.plan.change) = store[w.in.ent]
  BY <1>1, <1>2, ChangedFields
<1> QED
  BY <1>1, <1>2, <1>3, <1>4

\* A request changes the card it names from its base, and another card at
\* most in its membership; neither happens by a request that is up to date.
LEMMA AppliedCards ==
    ASSUME TypeOK, ShapeInv, NEW w, WriteOK(w), KeepsCards, Accepts(w, store)
    PROVE  /\ Base(w) \in Card /\ Holdable(Base(w))
           /\ w.in.op \notin {"user.create", "group.create"} => Base(w).here
           /\ Applied(w, store) \in [Entity -> Card]
           /\ Applied(w, store)[w.in.ent] = Changed(Base(w), w.plan.change)
           /\ \A e \in Entity \ {w.in.ent} :
                 \/ Applied(w, store)[e] = store[e]
                 \/ Applied(w, store)[e] = Changed(store[e], "join")
                 \/ Applied(w, store)[e] = Changed(store[e], "leave")
           /\ ~Stale(w) =>
                 /\ Base(w) = store[w.in.ent]
                 /\ \A e \in Entity \ {w.in.ent} : Applied(w, store)[e] = store[e]
<1> DEFINE ent == w.in.ent  change == w.plan.change  st == Applied(w, store)
<1>1. /\ ent \in Entity /\ Means(conn, w.in.op, w.in.given, w.plan)
      /\ w.in.op \in MemberOps => ent \in User
  BY WriteFacts
<1>2. store \in [Entity -> Card]
  BY DEF TypeOK
<1>3. Base(w) \in Card /\ Holdable(Base(w))
  BY <1>1, <1>2 DEF Base, WriteOK, ShapeInv
<1>4. ASSUME w.in.op \notin {"user.create", "group.create"} PROVE Base(w).here
  <2>1. CASE w.plan.kind = "merge"
    BY <2>1 DEF Base, WriteOK
  <2>2. CASE w.plan.kind = "members"
    BY <2>2 DEF Base, Accepts
  <2>3. CASE w.plan.kind = "send"
    <3>1. change \notin {"new", "newDefault", "echo", "insert", "touch"}
      BY <1>1, <1>4 DEF Means, ChangesOf
    <3> QED
      BY <2>3, <3>1 DEF Base, Accepts
  <2> QED
    BY <1>1, <2>1, <2>2, <2>3 DEF Means, Writing
<1>5. CASE w.plan.kind # "members"
  <2>1. st = [store EXCEPT ![ent] = Changed(Base(w), change)]
    BY <1>5 DEF Applied, PutMerged, Base
  <2>2. Changed(Base(w), change) \in Card
    BY <1>3, ChangedFields
  <2>3. st \in [Entity -> Card] /\ st[ent] = Changed(Base(w), change)
    BY <1>1, <1>2, <2>1, <2>2
  <2>4. \A e \in Entity \ {ent} : st[e] = store[e]
    BY <1>1, <1>2, <2>1
  <2>5. ~Stale(w) => Base(w) = store[ent]
    BY DEF Stale, Base
  <2> QED
    BY <1>3, <1>4, <2>3, <2>4, <2>5
<1>6. CASE w.plan.kind = "members"
  <2> DEFINE users == UpdatedUsers(w)
  <2>1. Base(w) = store[ent]
    BY <1>6 DEF Base
  <2>2. /\ ent \in User /\ ent # Group /\ store[ent].here
        /\ change \in {"join", "leave"}
    BY <1>1, <1>6, NamesAssumption DEF Means, MemberOps, ChangesOf, Accepts
  <2>3. ent \in users <=> change = "join"
    BY <2>2 DEF UpdatedUsers
  <2>4. st = [e \in Entity |-> IF e = Group \/ ~store[e].here THEN store[e]
                               ELSE IF e \in users THEN Changed(store[e], "join")
                               ELSE Changed(store[e], "leave")]
    BY <1>6 DEF Applied, WithMembers
  <2> HIDE DEF users, st
  <2>5. st[ent] = Changed(Base(w), change)
    BY <1>1, <2>1, <2>2, <2>3, <2>4
  <2>6. \A e \in Entity : \/ st[e] = store[e]
                          \/ st[e] = Changed(store[e], "join")
                          \/ st[e] = Changed(store[e], "leave")
    BY <2>4
  <2>7. \A e \in Entity : st[e] \in Card
    BY <1>2, <2>6, ChangedFields
  <2>8. st \in [Entity -> Card]
    BY <2>4, <2>7
  <2>9. ASSUME ~Stale(w), NEW e \in Entity \ {ent} PROVE st[e] = store[e]
    <3>1. w.list = MembersOf(store)
      BY <1>6, <2>9 DEF Stale
    <3>2. e \in users <=> e \in w.list
      BY <2>9 DEF users, UpdatedUsers
    <3>3. CASE e = Group \/ ~store[e].here
      BY <2>4, <3>3
    <3>4. CASE e # Group /\ store[e].here
      <4>1. e \in User
        BY <2>9, <3>4 DEF Entity
      <4>2. e \in users <=> Group \in store[e].groups
        BY <3>1, <3>2, <4>1 DEF MembersOf
      <4>3. st[e] = IF e \in users THEN Changed(store[e], "join")
                    ELSE Changed(store[e], "leave")
        BY <2>4, <2>9, <3>4
      <4>4. store[e] \in Card
        BY <1>2, <2>9
      <4> QED
        BY <4>2, <4>3, <4>4, JoinAgain
    <3> QED
      BY <3>3, <3>4
  <2> QED
    BY <1>3, <1>4, <2>1, <2>5, <2>6, <2>8, <2>9 DEF st
<1> QED
  BY <1>5, <1>6

\* The target goes on holding what its kind can hold.
LEMMA WriteIsHoldable ==
    ASSUME TypeOK, ShapeInv, NEW w, WriteOK(w), Accepts(w, store)
    PROVE  /\ Applied(w, store) \in [Entity -> Card]
           /\ \A e \in Entity : Holdable(Applied(w, store)[e])
<1>1. store \in [Entity -> Card] /\ \A e \in Entity : Holdable(store[e])
  BY DEF TypeOK, ShapeInv
<1>2. CASE ~KeepsCards
  BY <1>1, <1>2, ForeignWrite
<1>3. CASE KeepsCards
  <2>1. /\ w.in.ent \in Entity /\ Means(conn, w.in.op, w.in.given, w.plan)
    BY <1>3, WriteFacts
  <2>2. /\ Base(w) \in Card /\ Holdable(Base(w))
        /\ Applied(w, store) \in [Entity -> Card]
        /\ Applied(w, store)[w.in.ent] = Changed(Base(w), w.plan.change)
        /\ \A e \in Entity \ {w.in.ent} :
              \/ Applied(w, store)[e] = store[e]
              \/ Applied(w, store)[e] = Changed(store[e], "join")
              \/ Applied(w, store)[e] = Changed(store[e], "leave")
    BY <1>3, AppliedCards
  <2>3. ASSUME NEW card \in Card, Holdable(card), NEW change \in {"join", "leave"}
        PROVE  Holdable(Changed(card, change))
    <3>1. /\ Changed(card, change).groups \subseteq card.groups \cup {Group}
          /\ SameBut(Changed(card, change), card, {"groups"})
      BY <2>3, ChangedFields
    <3> QED
      BY <2>3, <3>1, NamesAssumption DEF Holdable, SameBut, NoCard
  <2>4. Holdable(Changed(Base(w), w.plan.change))
    <3> DEFINE new == Changed(Base(w), w.plan.change)
    <3>1. CASE w.plan.change \in {"new", "newDefault", "gone"}
      BY <2>2, <3>1, ChangedFields DEF Holdable, NoCard
    <3>2. CASE w.plan.change \in {"set", "clear"}
      <4>1. SameBut(new, Base(w), {"attr"})
        BY <2>2, <3>2, ChangedFields
      <4> QED
        BY <2>2, <4>1 DEF Holdable, SameBut, NoCard
    <3>3. CASE w.plan.change \in {"on", "off"}
      <4>1. SameBut(new, Base(w), {"active"})
        BY <2>2, <3>3, ChangedFields
      <4>2. conn # "zabbix"
        BY <2>1, <3>3 DEF Means, ChangesOf
      <4> QED
        BY <2>2, <4>1, <4>2 DEF Holdable, SameBut, NoCard
    <3>4. CASE w.plan.change \in {"enableGroup", "disableGroup"}
      <4>1. SameBut(new, Base(w), {"groups"})
        BY <2>2, <3>4, ChangedFields
      <4>2. conn = "zabbix"
        BY <2>1, <3>4 DEF Means, ChangesOf
      <4> QED
        BY <2>2, <4>1, <4>2 DEF Holdable, SameBut, NoCard
    <3>5. CASE w.plan.change \in {"join", "leave"}
      BY <2>2, <2>3, <3>5
    <3>6. CASE w.plan.change = "same"
      BY <2>2, <3>6, ChangedFields
    <3> QED
      BY <2>1, <3>1, <3>2, <3>3, <3>4, <3>5, <3>6 DEF Means, ChangesOf
  <2>5. ASSUME NEW e \in Entity \ {w.in.ent} PROVE Holdable(Applied(w, store)[e])
    BY <1>1, <2>2, <2>3, <2>5
  <2> QED
    BY <2>2, <2>4, <2>5
<1> QED
  BY <1>2, <1>3

\* A request that is up to date stays within its card and its scope.
LEMMA WriteStaysInScope ==
    ASSUME TypeOK, ShapeInv, NEW w, WriteOK(w), KeepsCards, Accepts(w, store),
           ~Stale(w)
    PROVE  /\ SameBut(Applied(w, store)[w.in.ent], store[w.in.ent], Scope(w.in))
           /\ \A e \in Entity \ {w.in.ent} : Applied(w, store)[e] = store[e]
<1> DEFINE new == Changed(Base(w), w.plan.change)
<1>1. /\ w.in.ent \in Entity /\ Means(conn, w.in.op, w.in.given, w.plan)
  BY WriteFacts
<1>2. /\ Base(w) \in Card /\ Base(w) = store[w.in.ent]
      /\ Applied(w, store)[w.in.ent] = new
      /\ \A e \in Entity \ {w.in.ent} : Applied(w, store)[e] = store[e]
  BY AppliedCards
<1>3. SameBut(new, Base(w), Scope(w.in))
  <2>1. CASE w.in.op \in {"user.create", "user.delete", "group.create", "group.delete"}
    <3>1. Scope(w.in) = DOMAIN NoCard
      BY <2>1 DEF Scope, MemberOps, NoCard
    <3> QED
      BY <3>1 DEF SameBut
  <2>2. CASE w.in.op \in {"user.enable", "user.unlock", "user.disable", "user.lock"}
    <3>1. Scope(w.in) = IF conn = "zabbix" THEN {"groups"} ELSE {"active"}
      BY <2>2 DEF Scope, MemberOps
    <3>2. w.plan.change \in IF conn = "zabbix" THEN {"enableGroup", "disableGroup"}
                            ELSE {"on", "off"}
      BY <1>1, <2>2 DEF Means, ChangesOf
    <3> QED
      BY <1>2, <3>1, <3>2, ChangedFields
  <2>3. CASE w.in.op \in MemberOps
    <3>1. Scope(w.in) = {"groups"}
      BY <2>3 DEF Scope, MemberOps
    <3>2. w.plan.change \in {"join", "leave"}
      BY <1>1, <2>3 DEF Means, ChangesOf, MemberOps
    <3> QED
      BY <1>2, <3>1, <3>2, ChangedFields
  <2>4. CASE w.in.op \in {"user.update", "user.addAttributes", "user.changePassword",
                          "user.removeAttributes", "group.update"}
    <3>1. Scope(w.in) = {"attr"}
      BY <2>4 DEF Scope, MemberOps
    <3>2. w.plan.change \in {"set", "clear", "same"}
      BY <1>1, <2>4 DEF Means, ChangesOf
    <3>3. w.plan.change = "same" => new = Base(w)
      BY <1>2, ChangedFields
    <3>4. w.plan.change # "same" => SameBut(new, Base(w), {"attr"})
      BY <1>2, <3>2, ChangedFields
    <3> QED
      BY <3>1, <3>3, <3>4 DEF SameBut
  <2> QED
    BY <1>1, <2>1, <2>2, <2>3, <2>4 DEF Means, ChangesOf, MemberOps
<1> QED
  BY <1>2, <1>3

\* A request that is accepted achieves what its operation means, stale or not.
LEMMA WriteAchieves ==
    ASSUME TypeOK, ShapeInv, NEW w, WriteOK(w), KeepsCards, Accepts(w, store)
    PROVE  Achieved(w.in, Applied(w, store))
<1> DEFINE new == Changed(Base(w), w.plan.change)
<1>1. Means(conn, w.in.op, w.in.given, w.plan)
  BY WriteFacts
<1>2. /\ Base(w) \in Card /\ Holdable(Base(w))
      /\ w.in.op \notin {"user.create", "group.create"} => Base(w).here
      /\ Applied(w, store)[w.in.ent] = new
  BY AppliedCards
<1>3. CASE w.in.op \in {"user.create", "group.create"}
  <2>0. w.plan.change \in {"new", "newDefault"}
    BY <1>1, <1>3 DEF Means, ChangesOf
  <2>1. new.here
    BY <1>2, <2>0, ChangedFields
  <2> QED
    BY <1>2, <1>3, <2>1 DEF Achieved
<1>4. CASE w.in.op \in {"user.update", "user.addAttributes", "group.update",
                        "user.changePassword", "user.removeAttributes"}
  <2>1. \/ new.attr = IF w.in.op = "user.removeAttributes" THEN "clear" ELSE "set"
        \/ w.in.op = "user.changePassword" /\ "password" \notin w.in.given
    <3>1. \/ w.plan.change = IF w.in.op = "user.removeAttributes" THEN "clear" ELSE "set"
          \/ w.in.op = "user.changePassword" /\ "password" \notin w.in.given
      BY <1>1, <1>4 DEF Means, ChangesOf
    <3> QED
      BY <1>2, <3>1, ChangedFields
  <2> QED
    BY <1>2, <1>4, <2>1 DEF Achieved
<1>5. CASE w.in.op \in {"user.delete", "group.delete", "user.disable", "user.lock"}
  <2>1. w.plan.change \in {"gone", "off", "disableGroup"}
    BY <1>1, <1>5 DEF Means, ChangesOf
  <2>2. ~Usable(new)
    BY <1>2, <2>1, ChangedFields DEF Usable, NoCard
  <2> QED
    BY <1>2, <1>5, <2>2 DEF Achieved
<1>6. CASE w.in.op \in {"user.enable", "user.unlock"}
  <2>1. Base(w).here
    BY <1>2, <1>6
  <2>2. CASE conn = "zabbix"
    <3>0. w.plan.change = "enableGroup"
      BY <1>1, <1>6, <2>2 DEF Means, ChangesOf
    <3>1. new.groups = {"on"} /\ SameBut(new, Base(w), {"groups"})
      BY <1>2, <3>0, ChangedFields
    <3>2. new.here /\ new.active
      BY <1>2, <2>1, <2>2, <3>1 DEF SameBut, NoCard, Holdable
    <3>3. Usable(new)
      BY <3>1, <3>2 DEF Usable
    <3> QED
      BY <1>2, <1>6, <3>3 DEF Achieved
  <2>3. CASE conn # "zabbix"
    <3>0. w.plan.change = "on"
      BY <1>1, <1>6, <2>3 DEF Means, ChangesOf
    <3>1. new.active /\ SameBut(new, Base(w), {"active"})
      BY <1>2, <3>0, ChangedFields
    <3>2. new.here /\ "off" \notin new.groups
      BY <1>2, <2>1, <2>3, <3>1 DEF SameBut, NoCard, Holdable
    <3>3. Usable(new)
      BY <3>1, <3>2 DEF Usable
    <3> QED
      BY <1>2, <1>6, <3>3 DEF Achieved
  <2> QED
    BY <2>2, <2>3
<1>7. CASE w.in.op \in MemberOps
  <2>1. (Group \in new.groups) <=> (w.in.op = "group.addMember")
    <3>1. w.plan.change = IF w.in.op = "group.addMember" THEN "join" ELSE "leave"
      BY <1>1, <1>7 DEF Means, ChangesOf, MemberOps
    <3> QED
      BY <1>2, <3>1, ChangedFields
  <2> QED
    BY <1>2, <1>7, <2>1 DEF Achieved, MemberOps
<1> QED
  BY <1>1, <1>3, <1>4, <1>5, <1>6, <1>7 DEF Means, ChangesOf, MemberOps

\* What another operation has achieved outlives a request that is up to date
\* and not about the same fields.
LEMMA WriteKeepsOthers ==
    ASSUME TypeOK, ShapeInv, NEW w, WriteOK(w), KeepsCards, Accepts(w, store),
           ~Stale(w), NEW in, in.ent \in Entity, ~Conflict(in, w.in),
           Achieved(in, store)
    PROVE  Achieved(in, Applied(w, store))
<1> DEFINE old == store[in.ent]  new == Applied(w, store)[in.ent]
<1>1. Means(conn, w.in.op, w.in.given, w.plan)
  BY WriteFacts
<1>2. /\ SameBut(Applied(w, store)[w.in.ent], store[w.in.ent], Scope(w.in))
      /\ \A e \in Entity \ {w.in.ent} : Applied(w, store)[e] = store[e]
  BY WriteStaysInScope
<1>3. CASE in.ent # w.in.ent
  <2>1. new = old
    BY <1>2, <1>3
  <2> QED
    BY <2>1 DEF Achieved
<1>4. CASE in.ent = w.in.ent
  <2>1. SameBut(new, old, Scope(w.in)) /\ Scope(in) \cap Scope(w.in) = {}
    BY <1>2, <1>4 DEF Conflict, KeepsCards
  <2>2. w.in.op \notin {"user.create", "user.delete"}
    BY <1>4 DEF Conflict, KeepsCards
  <2> HIDE DEF old, new
  <2>3. Scope(w.in) \in {{"here", "active", "attr", "groups"}, {"groups"}, {"active"}, {"attr"}}
    BY <1>1, <2>2 DEF Means, ChangesOf, Scope, MemberOps
  <2>4. CASE in.op \in {"user.create", "user.delete", "group.create", "group.delete"}
    <3>1. Scope(in) = {"here", "active", "attr", "groups"}
      BY <2>4 DEF Scope, MemberOps
    <3> QED
      BY <2>1, <2>3, <3>1
  <2>5. CASE in.op \in {"user.update", "user.addAttributes", "group.update",
                        "user.changePassword", "user.removeAttributes"}
    <3>1. Scope(in) = {"attr"}
      BY <2>5 DEF Scope, MemberOps
    <3>2. new.attr = old.attr
      BY <2>1, <3>1 DEF SameBut, NoCard
    <3> QED
      BY <2>5, <3>2 DEF Achieved, old, new
  <2>6. CASE in.op \in MemberOps
    <3>1. Scope(in) = {"groups"}
      BY <2>6 DEF Scope, MemberOps
    <3>2. new.groups = old.groups
      BY <2>1, <3>1 DEF SameBut, NoCard
    <3> QED
      BY <2>6, <3>2 DEF Achieved, MemberOps, old, new
  <2>7. CASE in.op \in {"user.enable", "user.unlock", "user.disable", "user.lock"}
    <3>1. Scope(in) = IF conn = "zabbix" THEN {"groups"} ELSE {"active"}
      BY <2>7 DEF Scope, MemberOps
    <3>2. Scope(w.in) # {"here", "active", "attr", "groups"}
      BY <2>1, <3>1
    <3>3. Scope(w.in) = {"attr"} => Usable(new) = Usable(old)
      BY <2>1 DEF SameBut, NoCard, Usable
    <3>4. conn = "zabbix" => Scope(w.in) = {"attr"}
      <4>1. ASSUME conn = "zabbix" PROVE Scope(w.in) # {"active"}
        BY <4>1, <1>1 DEF Scope, MemberOps, Means, ChangesOf
      <4> QED
        BY <2>1, <2>3, <3>1, <3>2, <4>1
    <3>5. ASSUME conn # "zabbix", Scope(w.in) = {"groups"} PROVE Usable(new) = Usable(old)
      <4>1. w.in.op \in MemberOps
        BY <1>1, <3>5 DEF Scope, MemberOps, Means, ChangesOf
      <4>2. w.plan.change \in {"join", "leave"}
        BY <1>1, <4>1 DEF Means, ChangesOf, MemberOps
      <4>3. Base(w) \in Card /\ Base(w) = old /\ new = Changed(Base(w), w.plan.change)
        BY <1>4, AppliedCards DEF old, new
      <4>4. new.groups \in {old.groups \cup {Group}, old.groups \ {Group}}
        BY <4>2, <4>3, ChangedFields
      <4>5. "off" \in new.groups <=> "off" \in old.groups
        BY <4>4, NamesAssumption
      <4>6. new.here = old.here /\ new.active = old.active
        BY <2>1, <3>5 DEF SameBut, NoCard
      <4> QED
        BY <4>5, <4>6 DEF Usable
    <3>6. Usable(new) = Usable(old)
      BY <2>1, <2>3, <3>1, <3>2, <3>3, <3>4, <3>5
    <3>7. Achieved(in, store) = IF in.op \in {"user.enable", "user.unlock"}
                                THEN Usable(old) ELSE ~Usable(old)
      BY <2>7 DEF Achieved, old
    <3>8. Achieved(in, Applied(w, store)) = IF in.op \in {"user.enable", "user.unlock"}
                                            THEN Usable(new) ELSE ~Usable(new)
      BY <2>7 DEF Achieved, new
    <3> QED
      BY <3>6, <3>7, <3>8
  <2>8. CASE in.op \notin {"user.create", "user.delete", "group.create",
                           "group.delete", "user.update", "user.addAttributes",
                           "group.update", "user.changePassword",
                           "user.removeAttributes", "user.enable",
                           "user.unlock", "user.disable", "user.lock"} \cup MemberOps
    BY <2>8 DEF Achieved, MemberOps
  <2> QED
    BY <2>4, <2>5, <2>6, <2>7, <2>8
<1> QED
  BY <1>3, <1>4

-----------------------------------------------------------------------------
(* Calls.                                                                  *)

LEMMA InputFacts ==
    ASSUME ShapeInv, NEW c \in Call, NEW in \in Inputs(conn, c)
    PROVE  /\ in.ent \in Entity /\ in.given \subseteq PayloadFields
           /\ conn \in Declared \cup {"rest", "db"}
           /\ conn \in Declared => in.op \in AVANPOST_OPERATIONS \cup {"testConnection"}
BY InputAssumption, ConnectorsAssumption DEF ShapeInv

\* A call nobody touches stays in order.
LEMMA CallStays ==
    ASSUME ShapeInv, UNCHANGED <<conn, cfg, call>>, NEW d \in Call
    PROVE  CallOK(d, call[d])'
<1>1. CallOK(d, call[d])
  BY DEF ShapeInv
<1>2. TypedCall(d, call[d])'
  BY <1>1 DEF CallOK, TypedCall
<1>3. StageOK(call[d])'
  BY <1>1 DEF CallOK, StageOK, Holdable
<1>4. PoolOK(call[d])'
  BY <1>1 DEF CallOK, PoolOK, OwnsPool
<1>5. SupportOK(call[d])'
  BY <1>1 DEF CallOK, SupportOK, Sufficient
<1> QED
  BY <1>2, <1>3, <1>4, <1>5 DEF CallOK

\* Where a call goes after its plan is made.
LEMMA PlanStage ==
    ASSUME NEW plan, plan.kind \in {"refuse", "local", "query"} \cup Writing
    PROVE  /\ PcAfter(plan) \in {"ok", "error", "query", "read", "write"}
           /\ PcAfter(plan) = "error" <=> plan.kind = "refuse"
           /\ PcAfter(plan) = "ok" <=> plan.kind = "local"
           /\ PcAfter(plan) = "read" <=> plan.kind \in {"merge", "members"}
           /\ PcAfter(plan) = "write" <=> plan.kind = "send"
BY DEF PcAfter, Writing

LEMMA NoCardIsFine == NoCard \in Card /\ Holdable(NoCard)
BY DEF NoCard, Card, Holdable

\* A call that starts is in order, on each of the ways through execute.
LEMMA BegunOK ==
    ASSUME ShapeInv, NEW c \in Call, NEW in \in Inputs(conn, c),
           call[c].tries < MaxTries[c], conn # "db"
    PROVE  CallOK(c, Begun(c, in)) /\ Begun(c, in).in = in /\ Begun(c, in).pc # "idle"
<1> DEFINE plan == ConnectorPlan(conn, cfg, in.op, in.given)
           logs == conn = "zabbix" /\ ZabbixLogsIn(cfg, in.op)
           pc   == IF logs THEN "login" ELSE PcAfter(plan)
           x    == Begun(c, in)
<1>1. /\ in.ent \in Entity /\ in.given \subseteq PayloadFields
      /\ conn \in Declared \cup {"rest", "db"}
      /\ conn \in Declared => in.op \in AVANPOST_OPERATIONS \cup {"testConnection"}
  BY InputFacts
<1>2. plan.kind \in {"refuse", "local", "query"} \cup Writing
  BY <1>1, PlanKinds
<1>3. x = [Idle EXCEPT !.pc = pc, !.in = in, !.sent = (pc \in Waiting),
                       !.tries = call[c].tries + 1]
  BY DEF Begun
<1> HIDE DEF x, plan, pc, logs
<1>4. /\ DOMAIN x = DOMAIN Idle /\ x.pc = pc /\ x.in = in /\ x.sent = (pc \in Waiting)
      /\ x.tries = call[c].tries + 1 /\ x.card = NoCard /\ x.list = {}
      /\ x.pool = "none" /\ x.ok = FALSE
  BY <1>3 DEF Idle
<1>5. call[c].tries + 1 \in 0..MaxTries[c]
  BY TriesAssumption DEF ShapeInv, CallOK, TypedCall
<1>6. pc \in {"login", "ok", "error", "query", "read", "write"}
  BY <1>2, PlanStage DEF pc
<1>7. TypedCall(c, x)
  <2>1. x.sent \in BOOLEAN /\ x.ok \in BOOLEAN
    BY <1>3 DEF Idle
  <2> QED
    BY <1>1, <1>4, <1>5, <1>6, <2>1, NoCardIsFine DEF TypedCall, Waiting, Ended
<1>8. StageOK(x)
  <2>1. pc = "login" => conn = "zabbix"
    BY <1>2, PlanStage DEF pc, logs
  <2>2. pc = "read" => plan.kind \in {"merge", "members"}
    BY <1>2, PlanStage DEF pc, logs
  <2>3. pc = "write" => plan.kind = "send"
    BY <1>2, PlanStage DEF pc, logs
  <2> QED
    BY <1>4, <2>1, <2>2, <2>3, NoCardIsFine DEF StageOK, Writing, plan
<1>9. PoolOK(x)
  BY <1>4, <1>6 DEF PoolOK, OwnsPool, Waiting
<1>10. SupportOK(x)
  <2>1. SUFFICES ASSUME conn \in Declared, in.op \in AVANPOST_OPERATIONS
                 PROVE  IF OperationStatus(conn)[in.op] = "unsupported"
                        THEN pc = "error" /\ ~(pc \in Waiting)
                        ELSE pc = "error" /\ cfg \in Complete /\ Sufficient(in) => pc \in Waiting
    BY <1>4 DEF SupportOK
  <2>0. /\ OperationStatus(conn)[in.op] = "unsupported" =>
              conn = "passwork" /\ plan.kind = "refuse"
        /\ OperationStatus(conn)[in.op] # "unsupported" /\ cfg \in Complete /\ Sufficient(in) =>
              plan.kind # "refuse"
    BY <1>1, <2>1, PlanDeclared DEF plan, Sufficient
  <2>2. CASE OperationStatus(conn)[in.op] = "unsupported"
    <3>1. conn = "passwork" /\ plan.kind = "refuse"
      BY <2>0, <2>2
    <3>2. pc = "error"
      BY <1>2, <3>1, PlanStage DEF pc, logs
    <3> QED
      BY <2>2, <3>2 DEF Waiting
  <2>3. CASE OperationStatus(conn)[in.op] # "unsupported"
    <3>1. cfg \in Complete /\ Sufficient(in) => plan.kind # "refuse"
      BY <2>0, <2>3
    <3>2. pc = "error" => plan.kind = "refuse"
      BY <1>2, PlanStage DEF pc
    <3> QED
      BY <1>1, <2>3, <3>1, <3>2
  <2> QED
    BY <2>2, <2>3
<1> QED
  BY <1>4, <1>6, <1>7, <1>8, <1>9, <1>10 DEF CallOK, x

LEMMA PooledOK ==
    ASSUME ShapeInv, NEW c \in Call, NEW in \in Inputs(conn, c),
           call[c].tries < MaxTries[c], conn = "db"
    PROVE  CallOK(c, Pooled(c, in)) /\ Pooled(c, in).in = in /\ Pooled(c, in).pc # "idle"
<1> DEFINE plan == SqlPlan(in.op)
           own  == OwnsPool(in)
           pc   == IF plan.kind = "refuse" /\ own THEN "destroy" ELSE PcAfter(plan)
           x    == Pooled(c, in)
<1>1. in.ent \in Entity /\ conn \notin Declared
  BY InputFacts DEF Declared
<1>2. plan.kind \in {"refuse", "query", "send"}
  BY DEF SqlPlan, DbTestConnection, Refuse, Query, Send, Plan
<1>3. plan = ConnectorPlan(conn, cfg, in.op, in.given)
  BY DEF ConnectorPlan
<1>4. x = [Idle EXCEPT !.pc = pc, !.in = in, !.sent = (pc \in Waiting),
                       !.pool = IF own THEN "open" ELSE "none",
                       !.tries = call[c].tries + 1]
  BY DEF Pooled
<1> HIDE DEF x, plan, pc, own
<1>5. /\ DOMAIN x = DOMAIN Idle /\ x.pc = pc /\ x.in = in /\ x.sent = (pc \in Waiting)
      /\ x.tries = call[c].tries + 1 /\ x.card = NoCard /\ x.list = {}
      /\ x.pool = (IF own THEN "open" ELSE "none") /\ x.ok = FALSE
  BY <1>4 DEF Idle
<1>6. call[c].tries + 1 \in 0..MaxTries[c]
  BY TriesAssumption DEF ShapeInv, CallOK, TypedCall
<1>7. /\ pc \in {"destroy", "error", "query", "write"}
      /\ pc = "destroy" => own
      /\ pc = "error" => ~own
      /\ pc = "write" => plan.kind = "send"
  BY <1>2, PlanStage DEF pc, Writing
<1>8. TypedCall(c, x)
  <2>1. x.sent \in BOOLEAN /\ x.ok \in BOOLEAN
    BY <1>4 DEF Idle
  <2> QED
    BY <1>1, <1>5, <1>6, <1>7, <2>1, NoCardIsFine DEF TypedCall, Waiting, Ended
<1>9. StageOK(x)
  BY <1>3, <1>5, <1>7, NoCardIsFine DEF StageOK, Writing
<1>10. PoolOK(x)
  BY <1>5, <1>7 DEF PoolOK, own, Waiting
<1>11. SupportOK(x)
  BY <1>1 DEF SupportOK
<1> QED
  BY <1>5, <1>7, <1>8, <1>9, <1>10, <1>11 DEF CallOK, x

LEMMA NoPoolOK ==
    ASSUME ShapeInv, NEW c \in Call, NEW in \in Inputs(conn, c),
           call[c].tries < MaxTries[c], conn = "db"
    PROVE  /\ CallOK(c, NoPool(c, in))
           /\ NoPool(c, in).in = in /\ NoPool(c, in).pc # "idle"
<1> DEFINE x == NoPool(c, in)
<1>1. in.ent \in Entity /\ conn \notin Declared
  BY InputFacts DEF Declared
<1>2. /\ DOMAIN x = DOMAIN Idle /\ x.pc \in {"error", "thrown"} /\ x.in = in /\ x.sent = FALSE
      /\ x.tries = call[c].tries + 1 /\ x.card = NoCard /\ x.list = {}
      /\ x.pool = "none" /\ x.ok = FALSE
  BY DEF NoPool, Idle
<1>3. call[c].tries + 1 \in 0..MaxTries[c]
  BY TriesAssumption DEF ShapeInv, CallOK, TypedCall
<1> HIDE DEF x
<1>4. TypedCall(c, x)
  BY <1>1, <1>2, <1>3, NoCardIsFine DEF TypedCall, Waiting, Ended
<1>5. StageOK(x) /\ PoolOK(x) /\ SupportOK(x)
  BY <1>1, <1>2, NoCardIsFine DEF StageOK, PoolOK, SupportOK, Waiting
<1> QED
  BY <1>2, <1>4, <1>5 DEF CallOK, x

\* A call that is answered is in order, whatever the answer.
LEMMA EndsOK ==
    ASSUME ShapeInv, NEW c \in Call, call[c].pc \in Waiting, NEW ok \in BOOLEAN
    PROVE  /\ CallOK(c, Ends(c, ok))
           /\ Ends(c, ok).in = call[c].in /\ Ends(c, ok).pc # "idle"
           /\ conn # "db" => Ends(c, ok).pc = IF ok THEN "ok" ELSE "error"
<1> DEFINE x == Ends(c, ok)  own == OwnsPool(call[c].in)
<1>1. CallOK(c, call[c])
  BY DEF ShapeInv
<1>2. /\ DOMAIN x = DOMAIN Idle
      /\ x.pc = (IF own THEN "destroy" ELSE IF ok THEN "ok" ELSE "error")
      /\ x.in = call[c].in /\ x.sent = call[c].sent /\ x.tries = call[c].tries
      /\ x.card = NoCard /\ x.list = {} /\ x.pool = call[c].pool /\ x.ok = ok
  BY <1>1 DEF Ends, CallOK, TypedCall, Idle
<1> HIDE DEF x
<1>3. TypedCall(c, x)
  BY <1>1, <1>2, NoCardIsFine DEF CallOK, TypedCall, Waiting, Ended
<1>4. StageOK(x)
  BY <1>2, NoCardIsFine DEF StageOK, Waiting
<1>5. PoolOK(x)
  <2>1. call[c].pool = IF own THEN "open" ELSE "none"
    BY <1>1 DEF CallOK, PoolOK, Waiting
  <2> QED
    BY <1>2, <2>1 DEF PoolOK, Waiting
<1>6. SupportOK(x)
  BY <1>1, <1>2 DEF CallOK, StageOK, SupportOK, Waiting
<1>7. conn # "db" => ~own
  BY DEF OwnsPool
<1> QED
  BY <1>2, <1>3, <1>4, <1>5, <1>6, <1>7 DEF CallOK, x

\* A request under way is in order.
LEMMA WriteOfOK ==
    ASSUME ShapeInv, NEW c \in Call, call[c].pc = "write"
    PROVE  WriteOK(WriteOf(c)) /\ WriteOf(c).by = c /\ WriteOf(c).in = call[c].in
<1>1. TypedCall(c, call[c]) /\ StageOK(call[c])
  BY DEF ShapeInv, CallOK
<1> QED
  BY <1>1 DEF TypedCall, StageOK, WriteOK, WriteOf, PlanOf

\* What a step on one call leaves to be shown of the others: nothing.
LEMMA CallFrame ==
    ASSUME ShapeInv, NEW c \in Call, NEW x, call' = [call EXCEPT ![c] = x],
           conn' = conn, cfg' = cfg, CallOK(c, x), x.pc # "idle",
           call[c].pc # "idle" => x.in = call[c].in
    PROVE  /\ DOMAIN call' = Call
           /\ \A d \in Call : CallOK(d, call[d])'
           /\ \A w : WriteOK(w) => WriteOK(w)'
<1>1. DOMAIN call = Call /\ \A d \in Call : CallOK(d, call[d])
  BY DEF ShapeInv
<1>2. /\ DOMAIN call' = Call /\ call'[c] = x
      /\ \A d \in Call \ {c} : call'[d] = call[d]
  BY <1>1
<1>3. ASSUME NEW d \in Call PROVE CallOK(d, call[d])'
  <2>1. CallOK(d, call'[d])
    BY <1>1, <1>2
  <2>2. TypedCall(d, call[d])' <=> TypedCall(d, call'[d])
    BY DEF TypedCall
  <2>3. StageOK(call[d])' <=> StageOK(call'[d])
    BY DEF StageOK, Holdable
  <2>4. PoolOK(call[d])' <=> PoolOK(call'[d])
    BY DEF PoolOK, OwnsPool
  <2>5. SupportOK(call[d])' <=> SupportOK(call'[d])
    BY DEF SupportOK, Sufficient
  <2> QED
    BY <2>1, <2>2, <2>3, <2>4, <2>5 DEF CallOK
<1>4. ASSUME NEW w, WriteOK(w) PROVE WriteOK(w)'
  <2>1. w.by \in Call /\ call[w.by].pc # "idle" /\ w.in = call[w.by].in
    BY <1>4 DEF WriteOK
  <2>2. call'[w.by].pc # "idle" /\ w.in = call'[w.by].in
    BY <1>2, <2>1
  <2> QED
    BY <1>4, <2>1, <2>2 DEF WriteOK, Holdable
<1> QED
  BY <1>2, <1>3, <1>4

\* A call of the set fresh is an answered one, so no step but a write concerns
\* it: the invariant for the steps that leave target and history alone.
LEMMA QuietStep ==
    ASSUME Inv, NEW c \in Call, NEW x, call' = [call EXCEPT ![c] = x],
           UNCHANGED <<conn, cfg, store, fresh>>, CallOK(c, x), x.pc # "idle",
           call[c].pc # "idle" => x.in = call[c].in,
           call[c].pc # "ok",
           \A w \in late' : w \in late \/ WriteOK(w)
    PROVE  Inv'
<1>1. TypeOK /\ ShapeInv /\ VisibleInv
  BY DEF Inv
<1>2. /\ DOMAIN call' = Call
      /\ \A d \in Call : CallOK(d, call[d])'
      /\ \A w : WriteOK(w) => WriteOK(w)'
  BY <1>1, CallFrame
<1>3. \A w \in late' : WriteOK(w)'
  BY <1>1, <1>2 DEF ShapeInv
<1>4. ShapeInv'
  BY <1>1, <1>2, <1>3 DEF ShapeInv, Holdable
<1>5. TypeOK'
  <2>1. \A w \in late' : w.by \in Call
    BY <1>3 DEF WriteOK
  <2> QED
    BY <1>1, <1>2, <2>1 DEF TypeOK, CallOK, TypedCall
<1>6. VisibleInv'
  <2>1. SUFFICES ASSUME conn \in Declared \ {"fake"}, NEW d \in fresh
                 PROVE  call'[d].pc = "ok" /\ Achieved(call'[d].in, store)
    BY DEF VisibleInv, Achieved, Usable
  <2>2. d \in Call /\ call[d].pc = "ok" /\ Achieved(call[d].in, store)
    BY <1>1, <2>1 DEF VisibleInv, TypeOK
  <2>3. call'[d] = call[d]
    BY <1>1, <2>2 DEF ShapeInv
  <2> QED
    BY <2>2, <2>3
<1> QED
  BY <1>4, <1>5, <1>6 DEF Inv

\* A write leaves visible what nobody had a reason to undo.
LEMMA WriteVisible ==
    ASSUME Inv, NEW w, WriteOK(w), KeepsCards, Accepts(w, store),
           NEW d \in {w.by} \cup Undisturbed(w)
    PROVE  Achieved(call[d].in, Applied(w, store))
<1>1. TypeOK /\ ShapeInv /\ VisibleInv
  BY DEF Inv
<1>2. CASE d = w.by
  <2>1. call[d].in = w.in
    BY <1>2 DEF WriteOK
  <2> QED
    BY <1>1, <2>1, WriteAchieves
<1>3. CASE d # w.by
  <2>1. d \in fresh /\ ~Stale(w) /\ ~Conflict(call[d].in, w.in)
    BY <1>3 DEF Undisturbed
  <2>2. d \in Call /\ Achieved(call[d].in, store)
    BY <1>1, <2>1 DEF VisibleInv, KeepsCards, TypeOK
  <2>3. call[d].in.ent \in Entity
    BY <1>1, <2>2 DEF TypeOK
  <2> QED
    BY <1>1, <2>1, <2>2, <2>3, WriteKeepsOthers
<1> QED
  BY <1>2, <1>3

-----------------------------------------------------------------------------
(* The steps.                                                              *)

LEMMA InitOK == Init => Inv
<1> SUFFICES ASSUME Init PROVE Inv
  OBVIOUS
<1>1. /\ conn \in Connectors /\ store \in [Entity -> Card]
      /\ call = [c \in Call |-> Idle] /\ late = {} /\ fresh = {}
      /\ \A e \in Entity : Holdable(store[e])
  BY StoresAssumption DEF Init
<1>2. ASSUME NEW c \in Call PROVE CallOK(c, Idle)
  <2>1. MaxTries[c] \in Nat
    BY TriesAssumption
  <2>2. /\ Idle.pc = "idle" /\ Idle.in = NoOp /\ Idle.card = NoCard
        /\ Idle.list = {} /\ Idle.pool = "none" /\ Idle.tries = 0
        /\ Idle.sent \in BOOLEAN /\ Idle.ok \in BOOLEAN
    BY DEF Idle
  <2>3. NoOp.ent \in Entity /\ NoOp.op \notin AVANPOST_OPERATIONS
    BY DEF NoOp, Entity, AVANPOST_OPERATIONS, READ_OPERATIONS, WRITE_OPERATIONS
  <2>4. TypedCall(c, Idle)
    BY <2>1, <2>2, <2>3, NoCardIsFine DEF TypedCall
  <2>5. StageOK(Idle) /\ PoolOK(Idle) /\ SupportOK(Idle)
    BY <2>2, <2>3, NoCardIsFine DEF StageOK, PoolOK, SupportOK, Waiting
  <2> QED
    BY <2>4, <2>5 DEF CallOK
<1>3. DOMAIN call = Call /\ \A c \in Call : CallOK(c, call[c])
  BY <1>1, <1>2
<1>4. ShapeInv
  BY <1>1, <1>3 DEF ShapeInv
<1>5. TypeOK
  BY <1>1, <1>3 DEF TypeOK, CallOK, TypedCall
<1>6. VisibleInv
  BY <1>1 DEF VisibleInv
<1> QED
  BY <1>4, <1>5, <1>6 DEF Inv

LEMMA ExecuteStep ==
    ASSUME Inv, NEW c \in Call, NEW in \in Inputs(conn, c), Execute(c, in),
           call[c].tries < MaxTries[c], call[c].pc # "ok",
           call[c].pc # "idle" => in = call[c].in
    PROVE  Inv'
<1> DEFINE x == IF conn # "db" THEN Begun(c, in)
                ELSE IF BuildKnexConfig(cfg) /\ KnexKnows(cfg.client)
                THEN Pooled(c, in) ELSE NoPool(c, in)
<1>1. ShapeInv
  BY DEF Inv
<1>2. CallOK(c, x) /\ x.in = in /\ x.pc # "idle"
  <2>1. CASE conn # "db"
    BY <1>1, <2>1, BegunOK
  <2>2. CASE conn = "db" /\ BuildKnexConfig(cfg) /\ KnexKnows(cfg.client)
    BY <1>1, <2>2, PooledOK
  <2>3. CASE conn = "db" /\ ~(BuildKnexConfig(cfg) /\ KnexKnows(cfg.client))
    BY <1>1, <2>3, NoPoolOK
  <2> QED
    BY <2>1, <2>2, <2>3
<1>3. call' = [call EXCEPT ![c] = x] /\ UNCHANGED <<conn, cfg, store, late, fresh>>
  BY DEF Execute
<1> HIDE DEF x
<1> QED
  BY <1>2, <1>3, QuietStep

LEMMA StartStep ==
    ASSUME Inv, NEW c \in Call, Start(c) \/ Repeat(c)
    PROVE  Inv'
<1>1. TypedCall(c, call[c]) /\ MaxTries[c] \in Nat \ {0}
  BY TriesAssumption DEF Inv, ShapeInv, CallOK
<1>2. CASE Start(c)
  <2>1. PICK in \in Inputs(conn, c) : Execute(c, in)
    BY <1>2 DEF Start
  <2>2. call[c].pc = "idle"
    BY <1>2 DEF Start
  <2>3. call[c].tries < MaxTries[c]
    BY <1>1, <2>2 DEF TypedCall
  <2> QED
    BY <2>1, <2>2, <2>3, ExecuteStep
<1>3. CASE Repeat(c)
  <2>1. /\ call[c].pc \in {"error", "thrown"} /\ call[c].tries < MaxTries[c]
        /\ Execute(c, call[c].in)
    BY <1>3 DEF Repeat
  <2>2. call[c].in \in Inputs(conn, c)
    BY <1>1, <2>1 DEF TypedCall
  <2> QED
    BY <2>1, <2>2, ExecuteStep
<1> QED
  BY <1>2, <1>3

LEMMA LoggedInStep ==
    ASSUME Inv, NEW c \in Call, LoggedIn(c)
    PROVE  Inv'
<1> DEFINE plan == PlanOf(c)
           x == [call[c] EXCEPT !.pc = PcAfter(plan)]
<1>1. ShapeInv /\ CallOK(c, call[c]) /\ DOMAIN call = Call
  BY DEF Inv, ShapeInv
<1>2. /\ call[c].pc = "login" /\ call' = [call EXCEPT ![c] = x]
      /\ UNCHANGED <<conn, cfg, store, late, fresh>>
  BY <1>1 DEF LoggedIn
<1>3. /\ conn = "zabbix" /\ conn \in Declared \ {"fake"}
      /\ call[c].in \in Inputs(conn, c) /\ call[c].sent
  BY <1>1, <1>2 DEF CallOK, StageOK, TypedCall, Waiting, Declared
<1>4. plan = ConnectorPlan(conn, cfg, call[c].in.op, call[c].in.given)
  BY DEF PlanOf
<1>5. /\ call[c].in.op \in AVANPOST_OPERATIONS \cup {"testConnection"}
      /\ conn \in Declared \cup {"rest", "db"}
  BY <1>1, <1>3, InputFacts
<1>6. plan.kind \in {"refuse", "local", "query"} \cup Writing
  BY <1>4, <1>5, PlanKinds
<1>7. plan.kind # "merge"
  <2>1. plan.kind \in Writing => Means(conn, call[c].in.op, call[c].in.given, plan)
    BY <1>3, <1>4, <1>5, PlanMeans
  <2> QED
    BY <1>3, <2>1 DEF Means, Writing
<1>8. /\ PcAfter(plan) \in {"ok", "error", "query", "read", "write"}
      /\ PcAfter(plan) = "read" => plan.kind \in {"merge", "members"}
      /\ PcAfter(plan) = "write" => plan.kind \in Writing
  BY <1>6, PlanStage DEF Writing
<1>9. /\ DOMAIN x = DOMAIN Idle /\ x.pc = PcAfter(plan) /\ x.in = call[c].in
      /\ x.sent = call[c].sent /\ x.tries = call[c].tries /\ x.card = call[c].card
      /\ x.list = call[c].list /\ x.pool = call[c].pool /\ x.ok = call[c].ok
  BY <1>1 DEF CallOK, TypedCall, Idle
<1> HIDE DEF x, plan
<1>10. TypedCall(c, x)
  BY <1>1, <1>2, <1>8, <1>9 DEF CallOK, TypedCall, Waiting, Ended
<1>11. StageOK(x)
  BY <1>1, <1>3, <1>4, <1>7, <1>8, <1>9 DEF CallOK, StageOK
<1>12. PoolOK(x)
  <2>1. call[c].pool = "none" /\ ~OwnsPool(call[c].in)
    BY <1>1, <1>2, <1>3 DEF CallOK, PoolOK, OwnsPool, Waiting
  <2> QED
    BY <1>8, <1>9, <2>1 DEF PoolOK, Waiting
<1>13. SupportOK(x)
  BY <1>1, <1>2, <1>3, <1>9 DEF CallOK, SupportOK
<1>14. CallOK(c, x)
  BY <1>10, <1>11, <1>12, <1>13 DEF CallOK
<1> QED
  BY <1>2, <1>8, <1>9, <1>14, QuietStep

\* An answer that changes nothing at the target.
LEMMA EndsStep ==
    ASSUME Inv, NEW c \in Call, NEW ok \in BOOLEAN, call[c].pc \in Waiting,
           call' = [call EXCEPT ![c] = Ends(c, ok)],
           UNCHANGED <<conn, cfg, store, fresh>>,
           \A w \in late' : w \in late \/ WriteOK(w)
    PROVE  Inv'
<1>1. ShapeInv
  BY DEF Inv
<1>2. /\ CallOK(c, Ends(c, ok))
      /\ Ends(c, ok).in = call[c].in /\ Ends(c, ok).pc # "idle"
  BY <1>1, EndsOK
<1>3. call[c].pc # "ok"
  BY DEF Waiting
<1> QED
  BY <1>2, <1>3, QuietStep

LEMMA ReadStep ==
    ASSUME Inv, NEW c \in Call, Read(c)
    PROVE  Inv'
<1>1. /\ TypeOK /\ ShapeInv /\ DOMAIN call = Call
      /\ TypedCall(c, call[c]) /\ StageOK(call[c]) /\ PoolOK(call[c])
      /\ SupportOK(call[c])
  BY DEF Inv, ShapeInv, CallOK
<1>2. call[c].pc = "read" /\ UNCHANGED <<conn, cfg, store, late, fresh>>
  BY DEF Read
<1>3. ASSUME NEW x, call' = [call EXCEPT ![c] = x],
             DOMAIN x = DOMAIN Idle, x.pc = "write", x.in = call[c].in,
             x.sent = call[c].sent, x.tries = call[c].tries,
             x.pool = call[c].pool, x.ok = call[c].ok,
             x.card \in Card, Holdable(x.card), x.list \subseteq User,
             PlanOf(c).kind = "merge" => x.card.here
      PROVE  Inv'
  <2>1. TypedCall(c, x)
    BY <1>1, <1>2, <1>3 DEF TypedCall, Waiting
  <2>2. StageOK(x)
    BY <1>1, <1>2, <1>3 DEF StageOK, PlanOf, Writing, Waiting
  <2>3. PoolOK(x) /\ SupportOK(x)
    BY <1>1, <1>2, <1>3 DEF PoolOK, SupportOK, Waiting
  <2>4. CallOK(c, x)
    BY <2>1, <2>2, <2>3 DEF CallOK
  <2> QED
    BY <1>2, <1>3, <2>4, QuietStep
<1>4. CASE PlanOf(c).kind = "members"
  <2> DEFINE x == [call[c] EXCEPT !.pc = "write", !.list = MembersOf(store)]
  <2>1. call' = [call EXCEPT ![c] = x]
    BY <1>4 DEF Read
  <2>2. /\ DOMAIN x = DOMAIN Idle /\ x.pc = "write" /\ x.in = call[c].in
        /\ x.sent = call[c].sent /\ x.tries = call[c].tries /\ x.pool = call[c].pool
        /\ x.ok = call[c].ok /\ x.card = call[c].card /\ x.list = MembersOf(store)
    BY <1>1 DEF TypedCall, Idle
  <2> HIDE DEF x
  <2>3. x.card \in Card /\ Holdable(x.card) /\ x.list \subseteq User
    BY <1>1, <2>2 DEF TypedCall, StageOK, MembersOf
  <2> QED
    BY <1>3, <1>4, <2>1, <2>2, <2>3
<1>5. CASE PlanOf(c).kind # "members" /\ store[call[c].in.ent].here
  <2> DEFINE x == [call[c] EXCEPT !.pc = "write", !.card = store[call[c].in.ent]]
  <2>1. call' = [call EXCEPT ![c] = x]
    BY <1>5 DEF Read
  <2>2. /\ DOMAIN x = DOMAIN Idle /\ x.pc = "write" /\ x.in = call[c].in
        /\ x.sent = call[c].sent /\ x.tries = call[c].tries /\ x.pool = call[c].pool
        /\ x.ok = call[c].ok /\ x.card = store[call[c].in.ent] /\ x.list = call[c].list
    BY <1>1 DEF TypedCall, Idle
  <2> HIDE DEF x
  <2>3. x.card \in Card /\ Holdable(x.card) /\ x.list \subseteq User
    BY <1>1, <2>2 DEF TypedCall, TypeOK, ShapeInv
  <2> QED
    BY <1>3, <1>5, <2>1, <2>2, <2>3
<1>6. CASE PlanOf(c).kind # "members" /\ ~store[call[c].in.ent].here
  <2>1. call' = [call EXCEPT ![c] = Ends(c, FALSE)]
    BY <1>6 DEF Read
  <2>2. call[c].pc \in Waiting
    BY <1>2 DEF Waiting
  <2> QED
    BY <1>2, <2>1, <2>2, EndsStep
<1> QED
  BY <1>4, <1>5, <1>6

LEMMA WrittenStep ==
    ASSUME Inv, NEW c \in Call, Written(c)
    PROVE  Inv'
<1> DEFINE w == WriteOf(c)
<1>1. /\ TypeOK /\ ShapeInv /\ VisibleInv /\ call[c].pc = "write"
      /\ call[c].pc \in Waiting /\ UNCHANGED <<conn, cfg, late>>
  BY DEF Inv, Written, Waiting
<1>2. WriteOK(w) /\ w.by = c
  BY <1>1, WriteOfOK
<1>3. CASE ~Accepts(w, store)
  <2>1. call' = [call EXCEPT ![c] = Ends(c, FALSE)] /\ UNCHANGED <<store, fresh>>
    BY <1>3 DEF Written
  <2> QED
    BY <1>1, <2>1, EndsStep
<1>4. CASE Accepts(w, store)
  <2>1. /\ store' = Applied(w, store)
        /\ fresh' = {c} \cup Undisturbed(w)
        /\ call' = [call EXCEPT ![c] = Ends(c, TRUE)]
    BY <1>4 DEF Written
  <2> HIDE DEF w
  <2>2. /\ CallOK(c, Ends(c, TRUE))
        /\ Ends(c, TRUE).in = call[c].in /\ Ends(c, TRUE).pc # "idle"
        /\ conn # "db" => Ends(c, TRUE).pc = "ok"
    BY <1>1, EndsOK
  <2>3. /\ DOMAIN call' = Call
        /\ \A d \in Call : CallOK(d, call[d])'
        /\ \A v : WriteOK(v) => WriteOK(v)'
    BY <1>1, <2>1, <2>2, CallFrame
  <2>4. store' \in [Entity -> Card] /\ \A e \in Entity : Holdable(store'[e])
    BY <1>1, <1>2, <1>4, <2>1, WriteIsHoldable
  <2>5. ShapeInv'
    BY <1>1, <2>3, <2>4 DEF ShapeInv, Holdable
  <2>6. fresh' \subseteq Call
    BY <1>1, <2>1 DEF Undisturbed, TypeOK
  <2>7. TypeOK'
    <3>1. \A v \in late' : v.by \in Call
      BY <2>5 DEF ShapeInv, WriteOK
    <3> QED
      BY <2>3, <2>4, <2>6, <3>1 DEF TypeOK, CallOK, TypedCall
  <2>8. VisibleInv'
    <3>1. SUFFICES ASSUME KeepsCards, NEW d \in fresh'
                   PROVE  call'[d].pc = "ok" /\ Achieved(call'[d].in, Applied(w, store))
      BY <1>1, <2>1 DEF VisibleInv, Achieved, Usable, KeepsCards
    <3>2. conn # "db"
      BY <3>1 DEF KeepsCards, Declared
    <3>3. d \in Call /\ call'[d].in = call[d].in
      BY <1>1, <2>1, <2>2, <2>6 DEF ShapeInv
    <3>4. call'[d].pc = "ok"
      <4>1. CASE d = c
        BY <1>1, <2>1, <2>2, <3>2, <4>1 DEF ShapeInv
      <4>2. CASE d # c
        <5>1. d \in fresh
          BY <2>1, <4>2 DEF Undisturbed
        <5>2. call[d].pc = "ok"
          BY <1>1, <3>1, <5>1 DEF VisibleInv, KeepsCards
        <5> QED
          BY <1>1, <2>1, <3>3, <4>2, <5>2 DEF ShapeInv
      <4> QED
        BY <4>1, <4>2
    <3>5. Achieved(call[d].in, Applied(w, store))
      BY <1>2, <1>4, <2>1, <3>1, WriteVisible
    <3> QED
      BY <3>3, <3>4, <3>5
  <2> QED
    BY <2>5, <2>7, <2>8 DEF Inv
<1> QED
  BY <1>3, <1>4

LEMMA AnswerStep ==
    ASSUME Inv, NEW c \in Call, Queried(c) \/ Rejected(c) \/ Timeout(c)
    PROVE  Inv'
<1>1. CASE Queried(c)
  BY <1>1, EndsStep DEF Queried, Waiting
<1>2. CASE Rejected(c)
  BY <1>2, EndsStep DEF Rejected
<1>3. CASE Timeout(c)
  <2>1. /\ call[c].pc \in Waiting /\ call' = [call EXCEPT ![c] = Ends(c, FALSE)]
        /\ UNCHANGED <<conn, cfg, store, fresh>>
        /\ late' = IF call[c].pc = "write" THEN late \cup {WriteOf(c)} ELSE late
    BY <1>3 DEF Timeout
  <2>2. call[c].pc = "write" => WriteOK(WriteOf(c))
    BY WriteOfOK DEF Inv
  <2>3. \A w \in late' : w \in late \/ WriteOK(w)
    BY <2>1, <2>2
  <2> QED
    BY <2>1, <2>3, EndsStep
<1> QED
  BY <1>1, <1>2, <1>3

LEMMA DestroyStep ==
    ASSUME Inv, NEW c \in Call, Destroy(c)
    PROVE  Inv'
<1>1. /\ ShapeInv /\ DOMAIN call = Call
      /\ TypedCall(c, call[c]) /\ StageOK(call[c]) /\ PoolOK(call[c])
  BY DEF Inv, ShapeInv, CallOK
<1>2. call[c].pc = "destroy" /\ UNCHANGED <<conn, cfg, store, late, fresh>>
  BY DEF Destroy
<1>3. conn \notin Declared
  BY <1>1, <1>2 DEF PoolOK, OwnsPool, Declared, Waiting
<1>4. ASSUME NEW x, call' = [call EXCEPT ![c] = x],
             DOMAIN x = DOMAIN Idle, x.in = call[c].in,
             x.sent = call[c].sent, x.tries = call[c].tries, x.ok = call[c].ok,
             x.card = call[c].card, x.list = call[c].list,
             \/ x.pc \in {"ok", "error"} /\ x.pool = "none"
             \/ x.pc = "thrown" /\ x.pool = "leaked"
      PROVE  Inv'
  <2>1. TypedCall(c, x)
    BY <1>1, <1>2, <1>4 DEF TypedCall, Ended
  <2>2. StageOK(x) /\ PoolOK(x) /\ SupportOK(x)
    BY <1>1, <1>3, <1>4 DEF StageOK, PoolOK, SupportOK, Waiting
  <2>3. CallOK(c, x) /\ x.pc # "idle"
    BY <1>4, <2>1, <2>2 DEF CallOK
  <2> QED
    BY <1>2, <1>4, <2>3, QuietStep
<1>5. CASE call' = [call EXCEPT ![c].pc = IF call[c].ok THEN "ok" ELSE "error",
                               ![c].pool = "none"]
  <2> DEFINE x == [call[c] EXCEPT !.pc = IF call[c].ok THEN "ok" ELSE "error",
                                  !.pool = "none"]
  <2>1. call' = [call EXCEPT ![c] = x]
    BY <1>1, <1>5
  <2>2. /\ DOMAIN x = DOMAIN Idle /\ x.pc \in {"ok", "error"} /\ x.in = call[c].in
        /\ x.sent = call[c].sent /\ x.tries = call[c].tries /\ x.pool = "none"
        /\ x.ok = call[c].ok /\ x.card = call[c].card /\ x.list = call[c].list
    BY <1>1 DEF TypedCall, Idle
  <2> HIDE DEF x
  <2> QED
    BY <1>4, <2>1, <2>2
<1>6. CASE call' = [call EXCEPT ![c].pc = "thrown", ![c].pool = "leaked"]
  <2> DEFINE x == [call[c] EXCEPT !.pc = "thrown", !.pool = "leaked"]
  <2>1. call' = [call EXCEPT ![c] = x]
    BY <1>1, <1>6
  <2>2. /\ DOMAIN x = DOMAIN Idle /\ x.pc = "thrown" /\ x.in = call[c].in
        /\ x.sent = call[c].sent /\ x.tries = call[c].tries /\ x.pool = "leaked"
        /\ x.ok = call[c].ok /\ x.card = call[c].card /\ x.list = call[c].list
    BY <1>1 DEF TypedCall, Idle
  <2> HIDE DEF x
  <2> QED
    BY <1>4, <2>1, <2>2
<1> QED
  BY <1>5, <1>6 DEF Destroy

LEMMA LateStep ==
    ASSUME Inv, NEW w \in late, Arrive(w) \/ GetLost(w)
    PROVE  Inv'
<1>1. TypeOK /\ ShapeInv /\ VisibleInv /\ WriteOK(w)
  BY DEF Inv, ShapeInv
<1>2. UNCHANGED <<conn, cfg, call>> /\ late' = late \ {w}
  BY DEF Arrive, GetLost
<1>3. \A d \in Call : CallOK(d, call[d])'
  BY <1>1, <1>2, CallStays
<1>4. \A v \in late' : WriteOK(v)'
  BY <1>1, <1>2 DEF ShapeInv, WriteOK, Holdable
<1>5. /\ store' \in [Entity -> Card] /\ fresh' \subseteq Call
      /\ \A e \in Entity : Holdable(store'[e])
  <2>1. CASE Arrive(w)
    BY <1>1, <2>1, WriteIsHoldable DEF Arrive, Undisturbed, TypeOK
  <2>2. CASE GetLost(w)
    BY <1>1, <2>2 DEF GetLost, TypeOK, ShapeInv
  <2> QED
    BY <2>1, <2>2
<1>6. ShapeInv'
  BY <1>1, <1>2, <1>3, <1>4, <1>5 DEF ShapeInv, Holdable
<1>7. TypeOK'
  <2>1. \A v \in late' : v.by \in Call
    BY <1>4 DEF WriteOK
  <2> QED
    BY <1>3, <1>5, <2>1 DEF TypeOK, CallOK, TypedCall
<1>8. VisibleInv'
  <2>1. SUFFICES ASSUME KeepsCards, NEW d \in fresh'
                 PROVE  call[d].pc = "ok" /\ Achieved(call[d].in, store')
    BY <1>2 DEF VisibleInv, Achieved, Usable, KeepsCards
  <2>2. CASE Arrive(w)
    <3>1. d \in Undisturbed(w) /\ Accepts(w, store) /\ store' = Applied(w, store)
      BY <2>1, <2>2 DEF Arrive
    <3>2. call[d].pc = "ok"
      BY <1>1, <2>1, <3>1 DEF Undisturbed, VisibleInv, KeepsCards
    <3> QED
      BY <1>1, <2>1, <3>1, <3>2, WriteVisible
  <2>3. CASE GetLost(w)
    BY <1>1, <2>1, <2>3 DEF GetLost, VisibleInv, KeepsCards
  <2> QED
    BY <2>2, <2>3
<1> QED
  BY <1>6, <1>7, <1>8 DEF Inv

LEMMA StutterStep ==
    ASSUME Inv, UNCHANGED vars
    PROVE  Inv'
<1>1. TypeOK'
  BY DEF Inv, TypeOK, vars
<1>2. ShapeInv'
  <2>1. \A d \in Call : CallOK(d, call[d])'
    BY CallStays DEF Inv, vars
  <2>2. \A v \in late' : WriteOK(v)'
    BY DEF Inv, ShapeInv, WriteOK, Holdable, vars
  <2> QED
    BY <2>1, <2>2 DEF Inv, ShapeInv, Holdable, vars
<1>3. VisibleInv'
  BY DEF Inv, VisibleInv, Achieved, Usable, vars
<1> QED
  BY <1>1, <1>2, <1>3 DEF Inv

LEMMA Inductive == Spec => []Inv
<1>1. Init => Inv
  BY InitOK
<1>2. Inv /\ [Next]_vars => Inv'
  <2>1. SUFFICES ASSUME Inv, [Next]_vars PROVE Inv'
    OBVIOUS
  <2>2. ASSUME NEW c \in Call,
               \/ Start(c) \/ Repeat(c)
               \/ LoggedIn(c) \/ Queried(c) \/ Read(c) \/ Written(c)
               \/ Rejected(c) \/ Timeout(c) \/ Destroy(c)
        PROVE  Inv'
    BY <2>1, <2>2, StartStep, LoggedInStep, ReadStep, WrittenStep, AnswerStep,
       DestroyStep
  <2>3. ASSUME NEW w \in late, Arrive(w) \/ GetLost(w) PROVE Inv'
    BY <2>1, <2>3, LateStep
  <2> QED
    BY <2>1, <2>2, <2>3, StutterStep DEF Next
<1> QED
  BY <1>1, <1>2, PTL DEF Spec

-----------------------------------------------------------------------------
(***************************************************************************)
(* Every card of the target, every call and every late request keeps its   *)
(* type; no call is executed more often than MaxTries allows.              *)
(***************************************************************************)
THEOREM Typing == Spec => []TypeOK
<1>1. Inv => TypeOK
  BY DEF Inv
<1> QED
  BY <1>1, Inductive, PTL

(***************************************************************************)
(* Every way out of DbConnector.execute closes the pool the call opened,   *)
(* for any number of overlapping calls and repetitions: a pool is left     *)
(* behind only by a call whose destroy() threw.                            *)
(***************************************************************************)
THEOREM PoolsAreClosed == Spec => []PoolsClosed
<1>1. Inv => PoolsClosed
  <2>1. SUFFICES ASSUME Inv, NEW c \in Call, call[c].pc \in Ended
                 PROVE  call[c].pool \in IF call[c].pc = "thrown" THEN {"none", "leaked"}
                                          ELSE {"none"}
    BY DEF PoolsClosed
  <2>2. PoolOK(call[c])
    BY <2>1 DEF Inv, ShapeInv, CallOK
  <2> QED
    BY <2>1, <2>2 DEF PoolOK, Ended, Waiting
<1> QED
  BY <1>1, Inductive, PTL

(***************************************************************************)
(* getCapabilities of Zabbix, CMDBuild, Passwork and fake is what their    *)
(* execute does: unsupported operations are refused before a request, all  *)
(* others are attempted when config and identifiers are complete.          *)
(***************************************************************************)
THEOREM CapabilitiesAreTrue == Spec => []DeclaredSupport
<1>1. Inv => DeclaredSupport
  <2>1. SUFFICES ASSUME Inv PROVE DeclaredSupport
    OBVIOUS
  <2>2. \A c \in Call : SupportOK(call[c])
    BY <2>1 DEF Inv, ShapeInv, CallOK
  <2> QED
    BY <2>2 DEF SupportOK, DeclaredSupport
<1> QED
  BY <1>1, Inductive, PTL

(***************************************************************************)
(* A call of Zabbix, CMDBuild or Passwork that was answered with success   *)
(* has done what its operation means, and it stays done unless a later     *)
(* request is about the same fields or writes over a stale read: late      *)
(* duplicates and repeated executions of the call itself do not undo it.   *)
(***************************************************************************)
THEOREM SuccessIsVisible == Spec => []AnsweredIsVisible
<1>1. Inv => AnsweredIsVisible
  BY DEF Inv, VisibleInv, AnsweredIsVisible
<1> QED
  BY <1>1, Inductive, PTL

(***************************************************************************)
(* A request that is based on what the target holds changes one card, and  *)
(* of it only the fields of its operation, although putMerged sends whole  *)
(* cards and the Zabbix connector whole member lists.                      *)
(***************************************************************************)
THEOREM WritesStayInScope == Spec => OnlyOwnFields
<1> DEFINE Writes == late \cup {WriteOf(c) : c \in {d \in Call : call[d].pc = "write"}}
           Step == store' # store =>
                      \E w \in Writes :
                          store' = Applied(w, store) /\ (Stale(w) \/ OnOwnCard(w))
<1>1. Inv /\ [Next]_vars => [Step]_vars
  <2>1. SUFFICES ASSUME Inv, [Next]_vars, store' # store
                 PROVE  \E w \in Writes :
                            store' = Applied(w, store) /\ (Stale(w) \/ OnOwnCard(w))
    OBVIOUS
  <2>2. TypeOK /\ ShapeInv
    BY <2>1 DEF Inv
  <2>3. ASSUME NEW w \in Writes, WriteOK(w), Accepts(w, store),
               store' = Applied(w, store)
        PROVE  \E v \in Writes :
                   store' = Applied(v, store) /\ (Stale(v) \/ OnOwnCard(v))
    <3>1. KeepsCards
      BY <2>1, <2>2, <2>3, ForeignWrite
    <3>2. ASSUME ~Stale(w) PROVE OnOwnCard(w)
      <4>1. /\ SameBut(store'[w.in.ent], store[w.in.ent], Scope(w.in))
            /\ \A e \in Entity \ {w.in.ent} : store'[e] = store[e]
        BY <2>2, <2>3, <3>1, <3>2, WriteStaysInScope
      <4> QED
        BY <4>1 DEF OnOwnCard, SameBut
    <3> QED
      BY <2>3, <3>2
  <2>4. ASSUME NEW c \in Call, Written(c)
        PROVE  \E w \in Writes :
                   store' = Applied(w, store) /\ (Stale(w) \/ OnOwnCard(w))
    <3>1. call[c].pc = "write" /\ Accepts(WriteOf(c), store) /\ store' = Applied(WriteOf(c), store)
      BY <2>1, <2>4 DEF Written
    <3>2. WriteOf(c) \in Writes /\ WriteOK(WriteOf(c))
      BY <2>2, <3>1, WriteOfOK
    <3> QED
      BY <2>3, <3>1, <3>2
  <2>5. ASSUME NEW w \in late, Arrive(w)
        PROVE  \E v \in Writes :
                   store' = Applied(v, store) /\ (Stale(v) \/ OnOwnCard(v))
    <3>1. WriteOK(w)
      BY <2>2 DEF ShapeInv
    <3> QED
      BY <2>3, <2>5, <3>1 DEF Arrive
  <2>6. ASSUME NEW c \in Call,
               \/ Start(c) \/ Repeat(c) \/ LoggedIn(c) \/ Queried(c) \/ Read(c)
               \/ Rejected(c) \/ Timeout(c) \/ Destroy(c)
        PROVE  store' = store
    BY <2>6 DEF Start, Repeat, Execute, LoggedIn, Queried, Read, Rejected,
       Timeout, Destroy
  <2>7. ASSUME NEW w \in late, GetLost(w) PROVE store' = store
    BY <2>7 DEF GetLost
  <2> HIDE DEF Writes
  <2> QED
    BY <2>1, <2>4, <2>5, <2>6, <2>7 DEF Next, vars
<1>2. Inv /\ [Next]_vars => [store' # store =>
          \E w \in late \cup {WriteOf(c) : c \in {d \in Call : call[d].pc = "write"}} :
              store' = Applied(w, store) /\ (Stale(w) \/ OnOwnCard(w))]_vars
  BY <1>1
<1> QED
  BY <1>2, Inductive, PTL DEF Spec, OnlyOwnFields
=============================================================================
