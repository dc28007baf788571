-------------------------- MODULE MCConnectorCalls --------------------------
(***************************************************************************)
(* Two overlapping calls.  The first may be any operation of the           *)
(* vocabulary, the second one of those that meet it on a card.             *)
(***************************************************************************)
EXTENDS ConnectorCalls

CONSTANTS u1, u2, g, c1, c2

MCConnectors == {"zabbix", "cmdbuild", "passwork", "fake", "rest", "db"}

Meeting == {"user.update", "user.enable", "user.disable", "user.delete",
            "group.addMember", "group.removeMember"}

RestInput(path) ==
    [kind |-> "execute", relative |-> TRUE, host |-> "public",
     allowPrivateNetwork |-> FALSE, path |-> path,
     allowedPaths |-> {<<"api">>, <<"v2", "">>}]

RestInputs ==
    {RestInput(path) : path \in {<<"api">>, <<"api", "x">>, <<"apix">>,
                                 <<"v2">>, <<"v2", "">>}}
    \cup {[RestInput(<<"api">>) EXCEPT !.host = "private"],
          [RestInput(<<"api">>) EXCEPT !.relative = FALSE],
          [RestInput(<<"api">>) EXCEPT !.kind = "test"]}

SqlInputs ==
    [kind : {"raw", "test", "insert", "update", "query", "merge"},
     table : BOOLEAN, where : BOOLEAN]

\* The first call is about u1, the second about either user.
EntityOf(op, u) == IF op \in GroupOps THEN g ELSE u

MCInputs(target, c) ==
    CASE target = "rest" -> [op : RestInputs, given : {PayloadFields}, ent : {g}]
      [] target = "db" -> [op : SqlInputs, given : {PayloadFields}, ent : {g}]
      [] c = c1 -> {[op |-> op, given |-> given, ent |-> EntityOf(op, u1)] :
                       op \in AVANPOST_OPERATIONS \cup {"testConnection"},
                       given \in {{}, {"id"}}}
                   \cup {[op |-> "user.changePassword", given |-> given, ent |-> u1] :
                       given \in {{"password"}, PayloadFields}}
      [] OTHER -> [op : Meeting, given : {{"id"}}, ent : User]

Present(groups) == [here |-> TRUE, active |-> TRUE, attr |-> "old", groups |-> groups]

MCStores ==
    {[e \in Entity |-> NoCard]}
    \cup {[e \in Entity |-> CASE e = u1 -> card [] e = u2 -> Present({g})
                                [] OTHER -> Present({})] :
            card \in {NoCard, Present({}), Present({g}), Present({"off"}),
                     [Present({}) EXCEPT !.active = FALSE]}}

MCMaxTries == [c \in Call |-> IF c = c1 THEN 2 ELSE 1]

\* With an unknown client of its own the process does not start.
MCPoolConfigs ==
    {p \in [dynamic : BOOLEAN, client : {"none", "pg", "oracledb", "unknown"},
            connection : {TRUE}, ssl : BOOLEAN, credentials : {TRUE},
            tcps : {FALSE}] : p.client = "unknown" => p.dynamic}
=============================================================================
