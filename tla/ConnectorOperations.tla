-------------------------- MODULE ConnectorOperations --------------------------
(***************************************************************************)
(* What each connector makes of an operation of the webhook vocabulary:    *)
(* refuse it, answer it locally, or turn it into requests of the target's  *)
(* API.  A request that writes is the change it asks for; ids, names and   *)
(* attribute values are one value each.                                    *)
(***************************************************************************)
EXTENDS Sequences, SequencesExt

READ_OPERATIONS ==
    {"user.get", "user.search", "group.get", "group.search", "system.test",
     "schema.get", "sync.full", "sync.incremental", "user.resolve"}
WRITE_OPERATIONS ==
    {"user.create", "user.update", "user.delete", "user.enable",
     "user.disable", "user.lock", "user.unlock", "user.changePassword",
     "user.addAttributes", "user.removeAttributes", "group.create",
     "group.update", "group.delete", "group.addMember", "group.removeMember"}
AVANPOST_OPERATIONS == READ_OPERATIONS \cup WRITE_OPERATIONS

MemberOps == {"group.addMember", "group.removeMember"}
GroupOps  == {"group.create", "group.update", "group.delete"}

(***************************************************************************)
(* A plan is the requests an operation costs.                              *)
(*   refuse   success: false and no request   local   success, no request  *)
(*   query    requests that only read         send    one writing request  *)
(*   merge    GET the card, PUT it whole with the change merged in         *)
(*   members  get the group's users, put the whole list back               *)
(***************************************************************************)
Plan(kind, change) == [kind |-> kind, change |-> change]
Refuse  == Plan("refuse", "none")
Local   == Plan("local", "none")
Query   == Plan("query", "none")
Send(change)  == Plan("send", change)
Merge(change) == Plan("merge", change)
Members(change) == Plan("members", change)

\* What of the config is given; "token" is all of it, "noLimit" all of it with
\* timeout: 0.
Configs == {"noUrl", "noAuth", "password", "noDefault", "token", "noLimit"}
Complete == {"token", "noLimit"}

\* What a payload may lack: the ids of its object, the new password.
PayloadFields == {"id", "password"}

(***************************************************************************)
(* Zabbix: JSON-RPC.  An operation the switch does not know is sent under  *)
(* its own name, so it is the server that refuses it.                      *)
(***************************************************************************)
\* Mutant: the two groups are swapped.
BuildZabbixCallSwapped(op, given) ==
    CASE op \in {"user.enable", "user.unlock"} -> Send("disableGroup")
      [] op \in {"user.disable", "user.lock"} -> Send("enableGroup")
      [] op \in READ_OPERATIONS -> Query
      [] OTHER -> Send("set")

\* An absent password is left out of the request: nothing is set.
BuildZabbixCall(op, given) ==
    CASE op \in {"user.create", "group.create"} -> Send("new")
      [] op \in {"user.update", "user.addAttributes", "group.update"} -> Send("set")
      [] op = "user.changePassword" ->
            Send(IF "password" \in given THEN "set" ELSE "same")
      [] op = "user.removeAttributes" -> Send("clear")
      [] op \in {"user.delete", "group.delete"} -> Send("gone")
      [] op \in {"user.enable", "user.unlock"} -> Send("enableGroup")
      [] op \in {"user.disable", "user.lock"} -> Send("disableGroup")
      [] OTHER -> Query

ZabbixPlan(cfg, op, given) ==
    IF cfg = "noUrl" THEN Refuse
    ELSE IF op \in {"system.test", "schema.get"} THEN Query  \* apiinfo.version
    ELSE IF cfg = "noAuth" THEN Refuse                       \* resolveAuth throws
    ELSE IF op \in MemberOps /\ "id" \notin given THEN Refuse
    ELSE CASE op = "group.addMember" -> Members("join")
           [] op = "group.removeMember" -> Members("leave")
           [] OTHER -> BuildZabbixCall(op, given)

\* resolveAuth: a password costs a user.login before every call but these.
ZabbixLogsIn(cfg, op) ==
    cfg = "password" /\ op \notin {"system.test", "schema.get", "testConnection"}

(***************************************************************************)
(* CMDBuild: REST v3.  executeStatefulOperation comes first and shadows    *)
(* the writes of buildRequest; nothing is ever deleted.                    *)
(***************************************************************************)
PathSegment(given, plan) == IF "id" \in given THEN plan ELSE Refuse

\* defaultUserGroupId is set, and the event names no groups.
ApplyDefaultUserGroup(cfg) == IF cfg = "token" THEN "newDefault" ELSE "new"

SearchRoles == Query      \* what CMDBuild does not filter, the connector does

ExecuteStatefulOperation(cfg, op, given) ==
    LET Card(change) == PathSegment(given, Merge(change))
    IN  CASE op = "user.create" -> Send(ApplyDefaultUserGroup(cfg))
          [] op \in {"user.update", "user.addAttributes", "group.update"} -> Card("set")
          [] op = "user.changePassword" ->
                IF "password" \in given THEN Card("set") ELSE Refuse
          [] op = "user.removeAttributes" -> Card("clear")
          [] op \in {"user.enable", "user.unlock"} -> Card("on")
          [] op \in {"user.disable", "user.lock", "user.delete",
                     "group.delete"} -> Card("off")
          [] op = "group.search" -> SearchRoles
          [] OTHER -> Plan("undefined", "none")

CmdbuildRequest(op, given) ==
    CASE op = "group.create" -> Send("new")
      [] op \in {"user.get", "group.get"} -> PathSegment(given, Query)
      [] op \in READ_OPERATIONS \ {"user.get", "group.get"} -> Query
      [] OTHER -> Refuse             \* "Unsupported CMDBuild operation"

\* Basic auth is built from whatever the config holds.
CmdbuildPlan(cfg, op, given) ==
    LET special == ExecuteStatefulOperation(cfg, op, given)
    IN  IF cfg = "noUrl" \/ (op \in MemberOps /\ "id" \notin given) THEN Refuse
        ELSE IF op \in MemberOps
        THEN Merge(IF op = "group.addMember" THEN "join" ELSE "leave")
        ELSE IF special.kind # "undefined" THEN special
        ELSE CmdbuildRequest(op, given)

(***************************************************************************)
(* Passwork: one request per operation; four operations are refused.       *)
(***************************************************************************)
PASSWORK_UNSUPPORTED_OPERATIONS ==
    {"user.changePassword", "user.addAttributes", "user.removeAttributes",
     "sync.incremental"}

RequireId(given, plan) == IF "id" \in given THEN plan ELSE Refuse

PassworkRequest(op, given) ==
    LET Of(plan) == RequireId(given, plan)
    IN  CASE op \in {"user.create", "group.create"} -> Send("new")
          [] op \in {"user.update", "group.update"} -> Of(Send("set"))
          [] op \in {"user.delete", "group.delete"} -> Of(Send("gone"))
          [] op \in {"user.disable", "user.lock"} -> Of(Send("off"))
          [] op \in {"user.enable", "user.unlock"} -> Of(Send("on"))
          [] op = "group.addMember" -> Of(Send("join"))
          [] op = "group.removeMember" -> Of(Send("leave"))
          [] op \in {"user.get", "group.get"} -> Of(Query)
          [] op \in {"user.search", "user.resolve", "group.search",
                     "system.test"} -> Query
          [] OTHER -> Refuse

\* Mutant: the list of unsupported operations is not consulted.
PassworkPlanUnchecked(cfg, op, given) ==
    CASE cfg \in {"noUrl", "noAuth"} -> Refuse
      [] op = "schema.get" -> Local
      [] op = "sync.full" -> Query
      [] op \in PASSWORK_UNSUPPORTED_OPERATIONS -> Send("set")
      [] OTHER -> PassworkRequest(op, given)

\* Users and groups at once; both must answer.
PassworkSync(cfg, mode) ==
    IF mode = "incremental" \/ cfg \in {"noUrl", "noAuth"} THEN Refuse ELSE Query

LocalSchema == Local

PassworkPlan(cfg, op, given) ==
    IF cfg \in {"noUrl", "noAuth"} \/ op \in PASSWORK_UNSUPPORTED_OPERATIONS
    THEN Refuse
    ELSE CASE op = "schema.get" -> LocalSchema
           [] op = "sync.full" -> PassworkSync(cfg, "full")
           [] OTHER -> PassworkRequest(op, given)

(***************************************************************************)
(* The fake connector answers by itself or mirrors the operation.          *)
(***************************************************************************)
ExecuteLocalMock(op) == IF op \in AVANPOST_OPERATIONS THEN Local ELSE Refuse

FakePlan(cfg, op) ==
    IF cfg = "noUrl" THEN ExecuteLocalMock(op) ELSE Send("echo")

(***************************************************************************)
(* REST: a path of segments under the configured base URL.                 *)
(***************************************************************************)
\* A path is its segments; a trailing slash is an empty last segment.
IsPathAllowed(path, allowedPaths) ==
    \/ allowedPaths = {}
    \/ \E allowed \in allowedPaths :
          LET normalized == IF Last(allowed) = "" THEN Front(allowed) ELSE allowed
          IN  path = allowed \/ IsStrictPrefix(normalized, path)

\* Absent is "/"; anything not below the root is refused.
RelativePath(rest) == rest.relative

IsPrivateOrLocalAddress(host) == host = "private"

RestTestConnection(cfg) == IF cfg = "noUrl" THEN Refuse ELSE Query

\* rest.path is the path of the URL once it is resolved.
RestPlan(cfg, rest) ==
    IF rest.kind = "test" THEN RestTestConnection(cfg)
    ELSE IF \/ cfg = "noUrl"
            \/ ~RelativePath(rest)
            \/ IsPrivateOrLocalAddress(rest.host) /\ ~rest.allowPrivateNetwork
            \/ ~IsPathAllowed(rest.path, rest.allowedPaths)
    THEN Refuse ELSE Send("echo")

(***************************************************************************)
(* What the connectors declare (getCapabilities).                          *)
(***************************************************************************)
CreateConnectorCapabilities(partial, unsupported) ==
    [op \in AVANPOST_OPERATIONS |->
        IF op \in unsupported THEN "unsupported"
        ELSE IF op \in partial THEN "partial" ELSE "implemented"]

ZABBIX_PARTIAL_OPERATIONS ==
    {"user.enable", "user.disable", "user.lock", "user.unlock",
     "user.addAttributes", "user.removeAttributes", "schema.get",
     "sync.incremental"}
CMDBUILD_PARTIAL_OPERATIONS ==
    {"user.delete", "user.lock", "user.unlock", "user.changePassword",
     "user.addAttributes", "user.removeAttributes", "schema.get",
     "group.delete", "group.addMember", "group.removeMember", "group.search",
     "sync.incremental"}
PASSWORK_PARTIAL_OPERATIONS ==
    {"user.enable", "user.disable", "user.lock", "user.unlock", "schema.get",
     "sync.full"}

OperationStatus(conn) ==
    CASE conn = "zabbix" ->
            CreateConnectorCapabilities(ZABBIX_PARTIAL_OPERATIONS, {})
      [] conn = "cmdbuild" ->
            CreateConnectorCapabilities(CMDBUILD_PARTIAL_OPERATIONS, {})
      [] conn = "passwork" ->
            CreateConnectorCapabilities(PASSWORK_PARTIAL_OPERATIONS,
                                        PASSWORK_UNSUPPORTED_OPERATIONS)
      [] OTHER -> CreateConnectorCapabilities({}, {})

(***************************************************************************)
(* testConnection: the config check of execute, then one reading request.  *)
(***************************************************************************)
ZabbixTestConnection(cfg)   == IF cfg = "noUrl" THEN Refuse ELSE Query
CmdbuildTestConnection(cfg) == IF cfg = "noUrl" THEN Refuse ELSE Query
PassworkTestConnection(cfg) ==
    IF cfg \in {"noUrl", "noAuth"} THEN Refuse ELSE Query
FakeTestConnection(cfg)     == IF cfg = "noUrl" THEN Local ELSE Query

TestConnectionPlan(conn, cfg) ==
    CASE conn = "zabbix"   -> ZabbixTestConnection(cfg)
      [] conn = "cmdbuild" -> CmdbuildTestConnection(cfg)
      [] conn = "passwork" -> PassworkTestConnection(cfg)
      [] conn = "fake"     -> FakeTestConnection(cfg)

(***************************************************************************)
(* The DB connector: the settings of a pool, and the statement of a        *)
(* payload.  A statement without a table or a where clause is refused with *)
(* the pool already open.                                                  *)
(***************************************************************************)
BuildKnexConfig(in) ==
    /\ in.client # "none" /\ in.connection
    /\ in.client = "sqlite3" => ~in.ssl
    /\ in.client \notin {"sqlite3", "pg", "mysql2"} =>    \* taken for Oracle
          in.credentials /\ (in.ssl => in.tcps)

\* knex() throws for a client it does not know, or has no driver for.
KnexKnows(client) == client # "unknown"

DbTestConnection == Query      \* SELECT 1, in a pool of its own

SqlPlan(sql) ==
    IF sql.kind \notin {"raw", "test"} /\ ~sql.table THEN Refuse
    ELSE CASE sql.kind = "raw" -> Send("touch")
           [] sql.kind = "test" -> DbTestConnection
           [] sql.kind = "insert" -> Send("insert")
           [] sql.kind \in {"update", "delete"} ->
                 IF sql.where THEN Send("touch") ELSE Refuse
           [] sql.kind = "query" -> Query
           [] OTHER -> Refuse

ConnectorPlan(conn, cfg, op, given) ==
    IF conn = "rest" THEN RestPlan(cfg, op)
    ELSE IF conn = "db" THEN SqlPlan(op)
    ELSE IF op = "testConnection" THEN TestConnectionPlan(conn, cfg)
    ELSE CASE conn = "zabbix"   -> ZabbixPlan(cfg, op, given)
           [] conn = "cmdbuild" -> CmdbuildPlan(cfg, op, given)
           [] conn = "passwork" -> PassworkPlan(cfg, op, given)
           [] conn = "fake"     -> FakePlan(cfg, op)
=============================================================================
