---------------------------- MODULE ConnectorCalls ----------------------------
(***************************************************************************)
(* Connector.execute and testConnection while they run: the requests of    *)
(* ConnectorOperations, one after the other, against a target system that  *)
(* may answer, refuse, or be too late.  Several calls run at once (events  *)
(* of different ids are not serialised), and an operator may have a failed *)
(* one repeated through the DLQ.                                           *)
(*                                                                         *)
(* The target is external: a card per user and group.  A request that      *)
(* timed out may still reach it, at any later time or never.               *)
(***************************************************************************)
EXTENDS ConnectorOperations, Integers

CONSTANTS
    Call,          \* calls that may overlap
    User,          \* users of the target
    Group,         \* its group
    Connectors,    \* the connectors to be looked at
    Inputs(_, _),  \* what a connector may be asked by a call
    Stores,        \* the cards a target may have at first
    PoolConfigs,   \* configs of the DB connector (input of BuildKnexConfig)
    MaxTries       \* bound: executions of each call

ASSUME TriesAssumption == MaxTries \in [Call -> Nat \ {0}]
ASSUME NamesAssumption == Group \notin User \cup {"on", "off", "default"}

Entity == User \cup {Group}

\* The connectors that know the vocabulary; REST and DB run what they are told.
Declared == {"zabbix", "cmdbuild", "passwork", "fake"}

ASSUME ConnectorsAssumption == Connectors \subseteq Declared \cup {"rest", "db"}

\* groups: "on" and "off" are Zabbix's enableGroupId and disableGroupId,
\* "default" is CMDBuild's defaultUserGroupId.
Card == [here : BOOLEAN, active : BOOLEAN, attr : {"old", "set", "clear"},
         groups : SUBSET {"on", "off", "default", Group}]
NoCard == [here |-> FALSE, active |-> FALSE, attr |-> "old", groups |-> {}]

ASSUME StoresAssumption == Stores \subseteq [Entity -> Card]

VARIABLES
    conn,    \* the connector the calls go to
    cfg,     \* its config: what of it is given
    store,   \* the cards of the target
    call,    \* the calls
    late,    \* writes their caller has stopped waiting for
    fresh    \* history: calls whose effect nobody had a reason to undo

vars == <<conn, cfg, store, call, late, fresh>>

NoOp == [op |-> "none", ent |-> Group, given |-> {}]
Idle == [pc |-> "idle", in |-> NoOp, card |-> NoCard, list |-> {},
         sent |-> FALSE, pool |-> "none", ok |-> FALSE, tries |-> 0]

Waiting == {"login", "query", "read", "write"}
Ended   == {"ok", "error", "thrown"}

\* A member of the group is a user.
ASSUME InputAssumption ==
    \A target \in Connectors, c \in Call : \A in \in Inputs(target, c) :
        /\ in.ent \in Entity /\ in.given \subseteq PayloadFields
        /\ target \in Declared =>
              /\ in.op \in AVANPOST_OPERATIONS \cup {"testConnection"}
              /\ in.op \in MemberOps => in.ent \in User

TypeOK ==
    /\ store \in [Entity -> Card]
    /\ \A c \in Call :
          /\ call[c].pc \in {"idle", "destroy"} \cup Waiting \cup Ended
          /\ call[c].in.ent \in Entity
          /\ call[c].card \in Card
          /\ call[c].list \subseteq User
          /\ call[c].pool \in {"none", "open", "leaked"}
          /\ call[c].tries \in 0..MaxTries[c]
    /\ \A w \in late : w.by \in Call
    /\ fresh \subseteq Call

\* Zabbix has no flag for a disabled user, the others have no group for it.
Holdable(card) == IF conn = "zabbix" THEN card.here => card.active
                  ELSE "off" \notin card.groups

Init ==
    /\ conn \in Connectors
    /\ cfg \in CASE conn = "db" -> PoolConfigs
                 [] conn = "zabbix" -> Configs \ {"noDefault", "noLimit"}
                 [] conn = "passwork" -> {"noUrl", "noAuth"} \cup Complete
                 [] conn = "cmdbuild" -> {"noUrl", "noDefault", "token"}
                 [] conn = "fake" -> {"noUrl"} \cup Complete
                 [] conn = "rest" -> {"noUrl", "token"}
    /\ store \in Stores /\ \A e \in Entity : Holdable(store[e])
    /\ conn \notin Declared \ {"fake"} => store = [e \in Entity |-> NoCard]
    /\ call = [c \in Call |-> Idle]
    /\ late = {} /\ fresh = {}

-----------------------------------------------------------------------------
(***************************************************************************)
(* The writing request of a call, and what it does to the cards.           *)
(***************************************************************************)
PlanOf(c) == LET in == call[c].in IN ConnectorPlan(conn, cfg, in.op, in.given)

WriteOf(c) == [by |-> c, plan |-> PlanOf(c), in |-> call[c].in,
               card |-> call[c].card, list |-> call[c].list]

MembersOf(st) == {u \in User : Group \in st[u].groups}

Changed(card, change) ==
    CASE change = "new" -> [NoCard EXCEPT !.here = TRUE, !.active = TRUE]
      [] change = "newDefault" ->
            [NoCard EXCEPT !.here = TRUE, !.active = TRUE, !.groups = {"default"}]
      [] change = "gone"  -> NoCard
      [] change = "set"   -> [card EXCEPT !.attr = "set"]
      [] change = "clear" -> [card EXCEPT !.attr = "clear"]
      [] change = "on"    -> [card EXCEPT !.active = TRUE]
      [] change = "off"   -> [card EXCEPT !.active = FALSE]
      [] change = "enableGroup"  -> [card EXCEPT !.groups = {"on"}]
      [] change = "disableGroup" -> [card EXCEPT !.groups = {"off"}]
      [] change = "join"  -> [card EXCEPT !.groups = card.groups \cup {Group}]
      [] change = "leave" -> [card EXCEPT !.groups = card.groups \ {Group}]
      [] OTHER -> card

\* Mutant: the PUT carries the patch without the card that was read.
PutMergedPatchOnly(w) ==
    Changed([here |-> TRUE, active |-> TRUE, attr |-> "old", groups |-> {}],
            w.plan.change)

\* putMerged and updateUserRoleMembership: the card as it was read.
PutMerged(w) == Changed(w.card, w.plan.change)

UpdatedUsers(w) == IF w.plan.change = "join" THEN w.list \cup {w.in.ent}
                   ELSE w.list \ {w.in.ent}

\* usergroup.update replaces the users of the group.
WithMembers(st, users) ==
    [e \in Entity |->
        IF e = Group \/ ~st[e].here THEN st[e]
        ELSE IF e \in users THEN Changed(st[e], "join")
        ELSE Changed(st[e], "leave")]

Applied(w, st) ==
    CASE w.plan.kind = "members" -> WithMembers(st, UpdatedUsers(w))
      [] w.plan.kind = "merge" -> [st EXCEPT ![w.in.ent] = PutMerged(w)]
      [] OTHER -> [st EXCEPT ![w.in.ent] = Changed(st[w.in.ent], w.plan.change)]

\* The target takes a new card once, and changes those it has.
Accepts(w, st) ==
    IF w.plan.kind = "members" THEN st[Group].here /\ st[w.in.ent].here
    ELSE CASE w.plan.change \in {"new", "newDefault"} -> ~st[w.in.ent].here
           [] w.plan.change \in {"echo", "insert", "touch"} -> TRUE
           [] OTHER -> "id" \in w.in.given /\ st[w.in.ent].here

\* What was read has changed since.
Stale(w) ==
    \/ w.plan.kind = "merge" /\ w.card # store[w.in.ent]
    \/ w.plan.kind = "members" /\ w.list # MembersOf(store)

(***************************************************************************)
(* What the operations mean, whichever connector runs them.  A new         *)
(* password that the payload does not hold is not asked for.               *)
(***************************************************************************)
Usable(card) == card.here /\ card.active /\ "off" \notin card.groups

Achieved(in, st) ==
    LET card == st[in.ent]
    IN  CASE in.op \in {"user.create", "group.create"} -> card.here
          [] in.op \in {"user.update", "user.addAttributes", "group.update"} ->
                card.attr = "set"
          [] in.op = "user.changePassword" ->
                "password" \in in.given => card.attr = "set"
          [] in.op = "user.removeAttributes" -> card.attr = "clear"
          [] in.op \in {"user.delete", "group.delete", "user.disable",
                        "user.lock"} -> ~Usable(card)
          [] in.op \in {"user.enable", "user.unlock"} -> Usable(card)
          [] in.op = "group.addMember" -> Group \in card.groups
          [] in.op = "group.removeMember" -> Group \notin card.groups
          [] OTHER -> TRUE

\* The fields an operation may change.  Zabbix has no flag for a disabled
\* user: being disabled is being in the disable group and in no other.
Scope(in) ==
    CASE in.op \in {"user.create", "user.delete", "group.create",
                    "group.delete"} -> {"here", "active", "attr", "groups"}
      [] in.op \in {"user.enable", "user.unlock", "user.disable", "user.lock"} ->
            IF conn = "zabbix" THEN {"groups"} ELSE {"active"}
      [] in.op \in MemberOps -> {"groups"}
      [] in.op \in {"user.update", "user.addAttributes", "user.removeAttributes",
                    "user.changePassword", "group.update"} -> {"attr"}
      [] OTHER -> {}

Conflict(a, b) ==
    /\ conn \in Declared
    /\ a.ent = b.ent
    /\ \/ Scope(a) \cap Scope(b) # {}
       \/ {a.op, b.op} \cap {"user.create", "user.delete"} # {}

\* The calls a write has no reason to undo; its own duplicates are among them.
Undisturbed(w) ==
    {d \in fresh : d = w.by \/ ~(Stale(w) \/ Conflict(call[d].in, w.in))}

-----------------------------------------------------------------------------
(***************************************************************************)
(* A call starts: config and payload are checked, the first request goes   *)
(* out.  The DB connector has its pool of connections open by then.        *)
(***************************************************************************)
PcAfter(plan) ==
    CASE plan.kind = "refuse" -> "error"
      [] plan.kind = "local" -> "ok"
      [] plan.kind = "query" -> "query"
      [] plan.kind \in {"merge", "members"} -> "read"
      [] plan.kind = "send" -> "write"

Begun(c, in) ==
    LET plan == ConnectorPlan(conn, cfg, in.op, in.given)
        pc   == IF conn = "zabbix" /\ ZabbixLogsIn(cfg, in.op)
                THEN "login" ELSE PcAfter(plan)
    IN  [Idle EXCEPT !.pc = pc, !.in = in, !.sent = (pc \in Waiting),
                     !.tries = call[c].tries + 1]

\* createDynamicKnex, and the pool of testConnection.
OwnsPool(in) == conn = "db" /\ (cfg.dynamic \/ in.op.kind = "test")

\* Mutant: a refused statement returns before the try block.
PooledBeforeTry(c, in) ==
    LET plan == SqlPlan(in.op)
    IN  [Idle EXCEPT !.pc = PcAfter(plan), !.in = in, !.pool = "open",
                     !.tries = call[c].tries + 1]

\* The runtime's own pool is opened at start and serves every call that
\* brings no config.
Pooled(c, in) ==
    LET plan == SqlPlan(in.op)
        own  == OwnsPool(in)
        pc   == IF plan.kind = "refuse" /\ own THEN "destroy" ELSE PcAfter(plan)
    IN  [Idle EXCEPT !.pc = pc, !.in = in, !.sent = (pc \in Waiting),
                     !.pool = IF own THEN "open" ELSE "none",
                     !.tries = call[c].tries + 1]

\* knex() is called before the try block of execute and inside that of
\* testConnection.
NoPool(c, in) ==
    [Idle EXCEPT !.pc = IF BuildKnexConfig(cfg) /\ in.op.kind # "test"
                        THEN "thrown" ELSE "error",
                 !.in = in, !.tries = call[c].tries + 1]

Execute(c, in) ==
    /\ call' = [call EXCEPT ![c] =
          IF conn # "db" THEN Begun(c, in)
          ELSE IF BuildKnexConfig(cfg) /\ KnexKnows(cfg.client)
          THEN Pooled(c, in) ELSE NoPool(c, in)]
    /\ UNCHANGED <<conn, cfg, store, late, fresh>>

Start(c) ==
    /\ call[c].pc = "idle"
    /\ \E in \in Inputs(conn, c) : Execute(c, in)

\* Mutant: one attempt too many.
RepeatOnceMore(c) ==
    /\ call[c].pc \in {"error", "thrown"}
    /\ call[c].sent
    /\ call[c].tries <= MaxTries[c]
    /\ Execute(c, call[c].in)

\* The DLQ item of a failed call is retried; RetryService repeats one that
\* threw.
Repeat(c) ==
    /\ call[c].pc \in {"error", "thrown"}
    /\ call[c].sent
    /\ call[c].tries < MaxTries[c]
    /\ Execute(c, call[c].in)

-----------------------------------------------------------------------------
(***************************************************************************)
(* Answers.  The DB connector closes its pool before it returns.           *)
(***************************************************************************)
Ends(c, ok) ==
    [call[c] EXCEPT !.pc = IF OwnsPool(call[c].in) THEN "destroy"
                           ELSE IF ok THEN "ok" ELSE "error",
                    !.ok = ok, !.card = NoCard, !.list = {}]

LoggedIn(c) ==
    /\ call[c].pc = "login"
    /\ call' = [call EXCEPT ![c].pc = PcAfter(PlanOf(c))]
    /\ UNCHANGED <<conn, cfg, store, late, fresh>>

Queried(c) ==
    /\ call[c].pc = "query"
    /\ call' = [call EXCEPT ![c] = Ends(c, TRUE)]
    /\ UNCHANGED <<conn, cfg, store, late, fresh>>

\* getEntity, getGroupUsers.
Read(c) ==
    /\ call[c].pc = "read"
    /\ LET ent == call[c].in.ent
       IN  call' = [call EXCEPT ![c] =
              IF PlanOf(c).kind = "members"
              THEN [call[c] EXCEPT !.pc = "write", !.list = MembersOf(store)]
              ELSE IF store[ent].here
              THEN [call[c] EXCEPT !.pc = "write", !.card = store[ent]]
              ELSE Ends(c, FALSE)]
    /\ UNCHANGED <<conn, cfg, store, late, fresh>>

Written(c) ==
    /\ call[c].pc = "write"
    /\ IF Accepts(WriteOf(c), store)
       THEN /\ store' = Applied(WriteOf(c), store)
            /\ fresh' = {c} \cup Undisturbed(WriteOf(c))
            /\ call' = [call EXCEPT ![c] = Ends(c, TRUE)]
       ELSE /\ call' = [call EXCEPT ![c] = Ends(c, FALSE)]
            /\ UNCHANGED <<store, fresh>>
    /\ UNCHANGED <<conn, cfg, late>>

\* An HTTP error, or a body that holds one.
Rejected(c) ==
    /\ call[c].pc \in Waiting
    /\ call' = [call EXCEPT ![c] = Ends(c, FALSE)]
    /\ UNCHANGED <<conn, cfg, store, late, fresh>>

\* Mutant: the login has no time limit of its own.
HasTimeoutButLogin(c) ==
    CASE conn = "db" -> FALSE
      [] conn = "rest" -> call[c].in.op.kind = "test"
      [] conn \in {"passwork", "fake"} -> cfg # "noLimit"
      [] OTHER -> call[c].pc # "login"

\* RestConnector.execute and knex wait as long as the other side lets them, and
\* so does axios with a configured timeout of 0.
HasTimeout(c) ==
    CASE conn = "db" -> FALSE
      [] conn = "rest" -> call[c].in.op.kind = "test"
      [] conn \in {"passwork", "fake"} -> cfg # "noLimit"
      [] OTHER -> TRUE

Timeout(c) ==
    /\ call[c].pc \in Waiting
    /\ HasTimeout(c)
    /\ call' = [call EXCEPT ![c] = Ends(c, FALSE)]
    /\ late' = IF call[c].pc = "write" THEN late \cup {WriteOf(c)} ELSE late
    /\ UNCHANGED <<conn, cfg, store, fresh>>

Arrive(w) ==
    /\ w \in late /\ Accepts(w, store)
    /\ store' = Applied(w, store)
    /\ fresh' = Undisturbed(w)
    /\ late' = late \ {w}
    /\ UNCHANGED <<conn, cfg, call>>

GetLost(w) ==
    /\ w \in late
    /\ late' = late \ {w}
    /\ UNCHANGED <<conn, cfg, store, call, fresh>>

\* finally: destroy() may throw in place of the result.
Destroy(c) ==
    /\ call[c].pc = "destroy"
    /\ call' \in {[call EXCEPT ![c].pc = IF call[c].ok THEN "ok" ELSE "error",
                               ![c].pool = "none"],
                  [call EXCEPT ![c].pc = "thrown", ![c].pool = "leaked"]}
    /\ UNCHANGED <<conn, cfg, store, late, fresh>>

Next ==
    \/ \E c \in Call :
          \/ Start(c) \/ Repeat(c)
          \/ LoggedIn(c) \/ Queried(c) \/ Read(c) \/ Written(c)
          \/ Rejected(c) \/ Timeout(c) \/ Destroy(c)
    \/ \E w \in late : Arrive(w) \/ GetLost(w)

\* axios ends a request after its timeout, whatever the target does; nothing
\* is expected of the target.
Fairness == \A c \in Call : WF_vars(Timeout(c))

Spec == Init /\ [][Next]_vars
FairSpec == Spec /\ Fairness

-----------------------------------------------------------------------------
(***************************************************************************)
(* A write that is based on what the target holds changes the card of its  *)
(* own user or group, and of it only what the operation is about, although *)
(* putMerged sends whole cards and addMember whole member lists.  A write  *)
(* based on a stale read does not: that is what overlapping events cost.   *)
(***************************************************************************)
OnOwnCard(w) ==
    \A e \in Entity : \A f \in DOMAIN NoCard :
        store'[e][f] # store[e][f] => e = w.in.ent /\ f \in Scope(w.in)

OnlyOwnFields ==
    [][store' # store =>
          \E w \in late \cup {WriteOf(c) : c \in {d \in Call : call[d].pc = "write"}} :
              store' = Applied(w, store) /\ (Stale(w) \/ OnOwnCard(w))]_vars

(***************************************************************************)
(* A call answered with success has done what its operation means, and     *)
(* stays done: through its own late duplicates, through repeated           *)
(* executions, and through other calls unless they are about the same      *)
(* fields or write over a stale read.                                      *)
(***************************************************************************)
AnsweredIsVisible ==
    conn \in Declared \ {"fake"} =>
        \A c \in fresh : call[c].pc = "ok" => Achieved(call[c].in, store)

(***************************************************************************)
(* getCapabilities is true: an operation declared unsupported is refused   *)
(* before anything is sent, and any other one is attempted when the config *)
(* is complete and the payload names its object and, for CMDBuild's change *)
(* of a password, the password.                                            *)
(***************************************************************************)
Sufficient(in) ==
    /\ "id" \in in.given
    /\ conn = "cmdbuild" /\ in.op = "user.changePassword" => "password" \in in.given

DeclaredSupport ==
    conn \in Declared =>
        \A c \in Call : LET in == call[c].in IN
            in.op \in AVANPOST_OPERATIONS =>
                IF OperationStatus(conn)[in.op] = "unsupported"
                THEN call[c].pc = "error" /\ ~call[c].sent
                ELSE call[c].pc = "error" /\ cfg \in Complete /\ Sufficient(in) =>
                        call[c].sent

(***************************************************************************)
(* A call of a connector that knows the vocabulary is answered even if the *)
(* target never answers: login, read and write are limited one by one.     *)
(* Passwork and fake are let off when their config turns the limit off;    *)
(* RestConnector.execute and the DB connector never have one.              *)
(***************************************************************************)
CallsEnd ==
    conn \in Declared /\ cfg # "noLimit" => \A c \in Call : call[c].pc \in Waiting ~> call[c].pc \in Ended

(***************************************************************************)
(* Every way out of DbConnector.execute closes the pool the call opened,   *)
(* the early returns and the failed statement too; only a destroy() that   *)
(* throws leaves one behind, and then the call has thrown.  The exception  *)
(* for an unknown client leaves nothing to close.                          *)
(***************************************************************************)
PoolsClosed ==
    \A c \in Call : call[c].pc \in Ended =>
        call[c].pool \in IF call[c].pc = "thrown" THEN {"none", "leaked"} ELSE {"none"}
=============================================================================
