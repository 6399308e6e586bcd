------------------------------ MODULE MCParts ------------------------------
(***************************************************************************)
(* The components that share no variable with any other: the alert ring,   *)
(* the back-off of the reconnection, the store of the diagnose state, the  *)
(* notifiers, the limited queue, the record files, the identity of the     *)
(* agent and of its host, the settings, the manager of the MCP servers, the *)
(* running of commands, the alert engine, the tools of a diagnosis and the *)
(* filters.                                                                *)
(* A behaviour of the whole breaks a property of one of them only if a     *)
(* behaviour of that one does, so that here the steps of one are taken     *)
(* while the others rest in their initial state.                           *)
(***************************************************************************)
EXTENDS AlertRing, Reconnect, StateStore, Notifiers, LimitedQueue,
        RecordFiles, AgentIdentity, Settings, Commands, McpManager,
        HostIdentity, AlertEngine, ToolUse, Filters

CONSTANTS m1, m2, h1, linux, darwin, t1, t2

VARIABLE part

(***************************************************************************)
(* Settings: models and gateway in all combinations, then the numbers and  *)
(* the texts of gateway and server around one model.                       *)
(***************************************************************************)
OpenAI == [provider |-> NoText, baseURL |-> "text", key |-> "text", model |-> "text",
           region |-> NoText, window |-> 8000]

ModelSettings == {OpenAI, [OpenAI EXCEPT !.key = "ref"], [OpenAI EXCEPT !.baseURL = NoText],
                  [ZeroModel EXCEPT !.provider = "bedrock", !.model = "text", !.region = "ref"], Absent}

AnySettings ==
    [enabled |-> TRUE, priority |-> <<m1>>, models |-> [n \in ModelName |-> OpenAI],
     gateway |-> [enabled |-> FALSE, fallback |-> FALSE, baseURL |-> NoText, token |-> NoText, retries |-> 0],
     server |-> [enabled |-> FALSE, address |-> NoText, token |-> NoText],
     labels |-> {"from_hostname", "from_hostip"}, policy |-> NoText, retries |-> 0, concurrent |-> 0]

ModelGroup ==
    {[AnySettings EXCEPT !.models = ms, !.priority = p, !.gateway.enabled = on,
                         !.gateway.fallback = back, !.gateway.baseURL = url, !.server.address = a] :
        ms \in [ModelName -> ModelSettings], p \in {<<>>, <<m1>>, <<m1, m2>>},
        on \in BOOLEAN, back \in BOOLEAN, url \in {NoText, "text"}, a \in {NoText, "text"}}

NumberGroup ==
    {[AnySettings EXCEPT !.enabled = e, !.gateway.enabled = on, !.gateway.baseURL = "text",
                         !.gateway.retries = g, !.retries = r, !.policy = q, !.concurrent = c] :
        e \in BOOLEAN, on \in BOOLEAN, g \in {-1, 0, 2, 3}, r \in {-1, 0, 1},
        q \in {NoText, "wait", "other"}, c \in {-1, 0, 2}}

ServerGroup ==
    {[AnySettings EXCEPT !.gateway.enabled = TRUE, !.gateway.baseURL = url, !.gateway.token = t,
                         !.server = [enabled |-> on, address |-> a, token |-> u], !.labels = l] :
        url \in {NoText, "text"}, t \in {NoText, "text", "ref"}, on \in BOOLEAN,
        a \in {NoText, "text", "ref", "bad"}, u \in {NoText, "text", "ref"},
        l \in {{"from_hostname"}, {"from_hostname", "from_hostip"}}}

SettingsGroups == ModelGroup \cup NumberGroup \cup ServerGroup

partVars == <<part, ringVars, paceVars, storeVars, notifyVars, queueVars, recordVars, identityVars,
              settingsVars, commandVars, managerVars, hostVars, engineVars, useVars, filterVars>>

(***************************************************************************)
(* Alerts: each gate is switched on and off.                               *)
(***************************************************************************)
AlertConfig(for, interval, number, noRecovery) ==
    [for |-> for, interval |-> interval, number |-> number, noRecovery |-> noRecovery]

AlertConfigs == {AlertConfig(0, 0, 2, FALSE), AlertConfig(2, 0, 1, FALSE), AlertConfig(0, 2, 0, TRUE),
                 AlertConfig(2, 2, 2, FALSE)}

\* Commands that are run: none, one that cannot be split, and one of two words.
SomeInputs == {<<>>, <<"'">>, <<"a", " ", "a">>}

(***************************************************************************)
(* Filters: words, globs and a regular expression, with braces, commas and *)
(* backslashes in both kinds of patterns and in the texts.                 *)
(***************************************************************************)
SomeCharacters == {"a", "b", "{", "}", ",", "*", "?", "/", "\\"}

Words == {<<"a">>, <<"a", "b">>, <<"{", "a", "}">>, <<"a", "\\">>, <<"a", ",", "b">>}
Globs == {<<"a", "*">>, <<"?", "b">>, <<"{", "a", ",", "b", "}", "*">>, <<"\\", "*", "}">>}

SomePatterns == Words \cup Globs \cup {<<"/", "b", "/">>}

SomeTexts == {<<>>, <<"a">>, <<"b">>, <<"a", "b">>, <<"b", "a">>, <<"{", "a", "}">>, <<"a", "\\">>,
              <<"a", ",", "b">>, <<"*", "}">>}

(***************************************************************************)
(* Tools of both kinds that take each other's names.                       *)
(***************************************************************************)
OneTool(n, supported, scope) == [name |-> n, supported |-> supported, scope |-> scope]

SomeTools ==
    {OneTool(t1, {}, "remote"), OneTool(t1, {linux}, "remote"), OneTool(t1, {darwin}, "local"),
     OneTool(t2, {}, "local"), OneTool(t2, {linux}, "local"), OneTool(t2, {darwin}, "remote")}

\* The unused configurations of a part that rests are not told apart.
Configured ==
    /\ part # "files" => maxCount = 0 /\ retention = 0
    /\ part # "settings" => settings = AnySettings /\ env = NoText /\ identity = TRUE
    /\ part # "shell" => command = <<>>
    /\ part # "manager" => serverName = [s \in Server |-> Unnamed] /\ allowed = [s \in Server |-> {}]
    /\ part # "host" => raw = "fixed" /\ envSet = FALSE /\ host = h1
    /\ part # "tools" => goos = linux /\ factories = {}
    /\ exclude \in UNION {[1..n -> SomePatterns] : n \in 0..1}
    /\ part # "filter" => include = <<>> /\ exclude = <<>> /\ text = <<>>
                           /\ includeDefault = TRUE /\ excludeDefault = FALSE
    /\ part # "engine" => alerting = [k \in Key |-> AlertConfig(0, 0, 2, FALSE)]

Init ==
    /\ part \in {"ring", "pace", "store", "notify", "queue", "files", "identity",
                "settings", "shell", "manager", "host", "engine", "tools",
                "filter"}
    /\ Configured
    /\ RingInit /\ PaceInit /\ StoreInit /\ NotifyInit /\ LimitInit /\ FilesInit /\ IdentityInit
    /\ SettingsInit /\ CommandInit /\ ManagerInit /\ HostInit /\ EngineInit /\ UseInit /\ FilterInit

\* One part takes its steps,
PartStep ==
    \/ part = "ring"     /\ RingNext
    \/ part = "pace"     /\ PaceNext
    \/ part = "store"    /\ StoreNext
    \/ part = "notify"   /\ NotifyNext
    \/ part = "queue"    /\ LimitNext
    \/ part = "files"    /\ FilesNext
    \/ part = "identity" /\ IdentityNext
    \/ part = "settings" /\ SettingsNext
    \/ part = "shell"    /\ CommandNext
    \/ part = "manager"  /\ ManagerNext
    \/ part = "host"     /\ HostNext
    \/ part = "engine"   /\ EngineNext
    \/ part = "tools"    /\ UseNext
    \/ part = "filter"   /\ FilterNext

Keep(name, variables) == IF part = name THEN TRUE ELSE UNCHANGED variables

\* ... and the others keep their variables.
OthersRest ==
    /\ Keep("ring", ringVars)         /\ Keep("pace", paceVars)
    /\ Keep("store", storeVars)       /\ Keep("notify", notifyVars)
    /\ Keep("queue", queueVars)       /\ Keep("files", recordVars)
    /\ Keep("identity", identityVars) /\ Keep("settings", settingsVars)
    /\ Keep("shell", commandVars)     /\ Keep("manager", managerVars)
    /\ Keep("host", hostVars)         /\ Keep("engine", engineVars)
    /\ Keep("tools", useVars)         /\ Keep("filter", filterVars)

Next == UNCHANGED part /\ PartStep /\ OthersRest

Spec == Init /\ [][Next]_partVars

\* The type invariants of the parts.
PartsTypeOK ==
    /\ RingTypeOK /\ PaceTypeOK /\ StoreTypeOK /\ NotifyTypeOK /\ LimitTypeOK
    /\ FilesTypeOK /\ SettingsTypeOK /\ ManagerTypeOK /\ EngineTypeOK /\ UseTypeOK
=============================================================================
