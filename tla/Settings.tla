------------------------------ MODULE Settings ------------------------------
(***************************************************************************)
(* How the settings of the program are resolved and accepted, and what the *)
(* client of the AI models is built from: InitConfig and Validate of       *)
(* config/config.go, resolve of config/server_config.go, and               *)
(* NewFailoverClientForScene of diagnose/aiclient/failover.go.             *)
(*                                                                         *)
(* A text is NoText or "text", a reference to an environment variable is   *)
(* "ref", and an address that cannot be parsed is "bad".  All references   *)
(* are to one variable.  Between InitConfig and the client stands the      *)
(* program that uses the repository and calls Validate.                    *)
(***************************************************************************)
EXTENDS Integers, Sequences, SequencesExt

CONSTANTS
    ModelName,
    Absent,        \* a model that is not configured
    RawSettings    \* bound: the settings that the files may hold

Gateway == "server:diagnose"

DefaultWindow == 128000

\* The empty text, and all texts
NoText == "none"

SomeText == {NoText, "text", "ref", "bad"}

Policies == {NoText, "drop", "wait", "other"}

\* ModelConfig, and what of config.Config matters here; numbers may be anything.
Model == [provider : {NoText, "bedrock"}, baseURL : SomeText, key : SomeText, model : SomeText,
          region : SomeText, window : Int]

Config ==
    [enabled : BOOLEAN, priority : Seq(ModelName), models : [ModelName -> Model \cup {Absent}],
     gateway : [enabled : BOOLEAN, fallback : BOOLEAN, baseURL : SomeText, token : SomeText,
                retries : Int],
     server : [enabled : BOOLEAN, address : SomeText, token : SomeText],
     labels : SUBSET {"from_hostname", "from_hostip"}, policy : Policies, retries : Int,
     concurrent : Int]

\* No model bears the name of the gateway's client.
ASSUME SettingsAssumption == RawSettings \subseteq Config /\ Gateway \notin ModelName

VARIABLES
    settings,      \* config.Config
    env,           \* the value of the variable that is referred to
    identity,      \* the identity of the agent can be read or written
    settingsPc,    \* the next step of InitConfig, or "validate", "build", "built", "refused"
    chain          \* the clients in the order in which they are tried

settingsVars == <<settings, env, identity, settingsPc, chain>>

\* The zero value of a model, which the map gives for an unknown name.
ZeroModel == [provider |-> NoText, baseURL |-> NoText, key |-> NoText, model |-> NoText,
              region |-> NoText, window |-> 0]

ModelOf(name) == IF settings.models[name] = Absent THEN ZeroModel ELSE settings.models[name]

HasLocalModels == \E n \in ModelName : settings.models[n] # Absent

SettingsInit ==
    /\ settings \in RawSettings /\ env \in {NoText, "text"} /\ identity \in BOOLEAN
    /\ settingsPc = "load" /\ chain = <<>>

GoTo(to) == settingsPc' = to /\ UNCHANGED <<env, identity, chain>>

Refuse == GoTo("refused") /\ UNCHANGED settings

resolveEnvRef(text) == IF text = "ref" THEN env ELSE text

\* applyDefaults and resolveAPIKeys
Defaulted(value, least, default) == IF value < least THEN default ELSE value

ResolvedModel(m) ==
    IF m = Absent THEN Absent
    ELSE [m EXCEPT !.key = resolveEnvRef(@), !.region = resolveEnvRef(@),
                   !.window = Defaulted(@, 1, DefaultWindow)]

ResolveAI ==
    /\ settingsPc = "load" /\ GoTo("server")
    /\ settings' =
         [settings EXCEPT
             !.gateway.retries = IF settings.gateway.enabled /\ @ = 0 THEN 1 ELSE @,
             !.gateway.token   = resolveEnvRef(@),
             !.retries         = IF settings.enabled /\ @ = 0 THEN 2 ELSE @,
             !.concurrent      = Defaulted(@, 1, 3),
             !.policy          = IF @ = NoText THEN "drop" ELSE @,
             !.models          = [n \in ModelName |-> ResolvedModel(@[n])]]

\* ServerConfig.resolve and the test of its address
ResolveServer ==
    LET address == resolveEnvRef(settings.server.address)
    IN  /\ settingsPc = "server"
        /\ IF settings.server.enabled /\ address = NoText THEN Refuse
           ELSE /\ GoTo("gateway")
                /\ settings' = [settings EXCEPT !.server.address = address,
                                                !.server.token = resolveEnvRef(@)]

\* resolveGatewayConfig: what the gateway lacks is taken from the server.
ResolveGateway ==
    LET gateway == settings.gateway
        server  == settings.server
        token   == IF gateway.token = NoText THEN server.token ELSE gateway.token
        derived == gateway.baseURL = NoText /\ server.address # NoText
    IN  /\ settingsPc = "gateway"
        /\ IF ~gateway.enabled THEN GoTo("labels") /\ UNCHANGED settings
           ELSE IF derived /\ server.address = "bad" THEN Refuse
           ELSE /\ GoTo("labels")
                /\ settings' = [settings EXCEPT !.gateway.token = token,
                                   !.gateway.baseURL = IF derived THEN server.address ELSE @]

\* validateRequiredLabels
Labelled ==
    /\ settingsPc = "labels"
    /\ IF settings.server.enabled /\ ~({"from_hostname", "from_hostip"} \subseteq settings.labels)
       THEN Refuse
       ELSE GoTo("validate") /\ UNCHANGED settings

-----------------------------------------------------------------------------
\* Validate
Complete(m) ==
    IF m.provider = "bedrock" THEN m.model # NoText /\ m.region # NoText
    ELSE m.baseURL # NoText /\ m.key # NoText

\* Fault: local models are not needed beside the gateway.
RequiredWithoutFallback == ~settings.gateway.enabled \/ HasLocalModels

requireLocalModels ==
    ~settings.gateway.enabled \/ settings.gateway.fallback \/ HasLocalModels

LocalModelsValid ==
    /\ settings.priority # <<>> /\ HasLocalModels
    /\ \A i \in DOMAIN settings.priority :
          settings.models[settings.priority[i]] # Absent /\ Complete(ModelOf(settings.priority[i]))

Valid ==
    settings.enabled =>
        /\ settings.gateway.enabled =>
              settings.gateway.baseURL # NoText /\ settings.gateway.retries \in 0..2
        /\ requireLocalModels => LocalModelsValid
        /\ settings.policy \in {"drop", "wait"}

Validate ==
    /\ settingsPc = "validate" /\ UNCHANGED settings
    /\ GoTo(IF Valid THEN "build" ELSE "refused")

\* NewFailoverClientForScene: the gateway has a client only with an identity.
Build ==
    /\ settingsPc = "build" /\ settings.enabled /\ settingsPc' = "built"
    /\ chain' = IF ~settings.gateway.enabled THEN settings.priority
                ELSE (IF identity THEN <<Gateway>> ELSE <<>>)
                     \o (IF settings.gateway.fallback THEN settings.priority ELSE <<>>)
    /\ UNCHANGED <<settings, env, identity>>

\* The attempts that retryCfg of the client allows for each of them (ChatWithRetry).
Attempts == 1 + (IF settings.gateway.enabled THEN settings.gateway.retries ELSE settings.retries)

\* ContextWindowLimit
ContextWindowLimit ==
    IF settings.priority = <<>> \/ ~HasLocalModels THEN 0
    ELSE (Defaulted(ModelOf(Head(settings.priority)).window, 1, DefaultWindow) * 80) \div 100

SettingsNext ==
    ResolveAI \/ ResolveServer \/ ResolveGateway \/ Labelled \/ Validate \/ Build

SettingsSpec == SettingsInit /\ [][SettingsNext]_settingsVars

-----------------------------------------------------------------------------
(***************************************************************************)
(* Properties.                                                             *)
(***************************************************************************)

\* Type invariant.
SettingsTypeOK ==
    /\ settings \in Config /\ env \in {NoText, "text"} /\ identity \in BOOLEAN
    /\ settingsPc \in {"load", "server", "gateway", "labels", "validate", "build", "built", "refused"}
    /\ chain \in Seq(ModelName \cup {Gateway})

\* Settings that are accepted make a client that can work, for every way in which gateway,
\* server, models and environment are combined: each client has what Validate asks of it,
\* the gateway has an address and every token there is, some client exists unless the
\* gateway is alone and has no identity, each is asked at least once, and diagnoses are
\* compacted and admitted (config.go:506-553, failover.go:33-88).  Two cases are left out: a
\* negative max_retries of [ai] passes Validate and makes no attempt, and of a window of one
\* token the 80 percent are none, which turns compaction off.
AcceptedIsUsable ==
    settingsPc = "built" =>
        /\ \A i \in DOMAIN chain : chain[i] # Gateway =>
              settings.models[chain[i]] # Absent /\ Complete(ModelOf(chain[i]))
        /\ Contains(chain, Gateway) =>
              /\ settings.gateway.baseURL # NoText
              /\ settings.gateway.token = NoText => settings.server.token = NoText
        /\ chain = <<>> => settings.gateway.enabled /\ ~settings.gateway.fallback /\ ~identity
        /\ settings.gateway.enabled \/ settings.retries >= 0 => Attempts >= 1
        /\ HasLocalModels /\ ModelOf(Head(settings.priority)).window # 1 => ContextWindowLimit > 0
        /\ settings.concurrent >= 1
        /\ settings.server.enabled =>
              /\ settings.server.address # NoText
              /\ {"from_hostname", "from_hostip"} \subseteq settings.labels
=============================================================================
