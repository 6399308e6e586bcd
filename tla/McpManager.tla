----------------------------- MODULE McpManager -----------------------------
(***************************************************************************)
(* The manager of the MCP servers (mcp/manager.go): it starts the          *)
(* configured servers one after the other, registers the tools it is       *)
(* allowed to, and closes what it has started.  StartAll and Close may     *)
(* overlap.                                                                *)
(*                                                                         *)
(* A server is its place in the configuration; nothing keeps two from      *)
(* having one name.  The tool t of a server of name n is <<n, t>>.         *)
(***************************************************************************)
EXTENDS Integers, FiniteSets

CONSTANTS
    ServerName, McpTool,
    Unnamed,       \* a name or a command that is empty
    Servers        \* bound: configured servers

ASSUME ManagerAssumption == Unnamed \notin ServerName /\ Servers \in Nat

Server == 1..Servers

VARIABLES
    serverName,    \* Server -> its name in the configuration, or Unnamed
    allowed,       \* Server -> tools_allow, empty for all
    next,          \* the server StartAll is at
    startPc,       \* "idle", "initializing", "listing" or "registering" the tools
    found,         \* the tools to be registered
    processes,     \* the servers whose process runs with its input open
    clients,       \* name -> server, 0 for none
    executors      \* <<name, tool>> -> the server that runs the registered tool, or 0

managerVars == <<serverName, allowed, next, startPc, found, processes, clients, executors>>

ManagerInit ==
    /\ serverName \in [Server -> ServerName \cup {Unnamed}]
    /\ allowed \in [Server -> SUBSET McpTool]
    /\ next = 1 /\ startPc = "idle" /\ found = {} /\ processes = {}
    /\ clients = [n \in ServerName |-> 0]
    /\ executors = [t \in ServerName \X McpTool |-> 0]

Starting == next \in Server

\* A server without a name or a command is passed over, and one whose process
\* cannot be started.
SkipServer ==
    /\ Starting /\ startPc = "idle" /\ next' = next + 1
    /\ UNCHANGED <<serverName, allowed, startPc, found, processes, clients, executors>>

\* NewClient
StartProcess ==
    /\ Starting /\ startPc = "idle" /\ serverName[next] # Unnamed
    /\ processes' = processes \cup {next} /\ startPc' = "initializing"
    /\ UNCHANGED <<serverName, allowed, next, found, clients, executors>>

Initialize ==
    /\ startPc = "initializing" /\ startPc' = "listing"
    /\ UNCHANGED <<serverName, allowed, next, found, processes, clients, executors>>

\* Fault: the client of a server that does not answer is dropped as it is.
ForgetFailed ==
    /\ startPc \in {"initializing", "listing"}
    /\ startPc' = "idle" /\ next' = next + 1
    /\ UNCHANGED <<serverName, allowed, found, processes, clients, executors>>

\* initialize or tools/list fails: the client is closed.
StartFails ==
    /\ startPc \in {"initializing", "listing"}
    /\ processes' = processes \ {next}
    /\ startPc' = "idle" /\ next' = next + 1
    /\ UNCHANGED <<serverName, allowed, found, clients, executors>>

IsToolAllowed(s, t) == allowed[s] = {} \/ t \in allowed[s]

\* The server has these tools; the registry skips those whose name is taken.
registerTools(s, tools) ==
    [q \in DOMAIN executors |->
        IF /\ q[1] = serverName[s] /\ q[2] \in tools /\ IsToolAllowed(s, q[2])
           /\ executors[q] = 0
        THEN s ELSE executors[q]]

\* The list of tools comes: the client is entered.
ListTools ==
    /\ startPc = "listing" /\ startPc' = "registering"
    /\ clients' = [clients EXCEPT ![serverName[next]] = next]
    /\ found' \in SUBSET McpTool
    /\ UNCHANGED <<serverName, allowed, next, processes, executors>>

\* The tools are registered after the mutex is given up, by then maybe those of a client
\* that Close has closed.
RegisterTools ==
    /\ startPc = "registering"
    /\ executors' = registerTools(next, found)
    /\ found' = {} /\ startPc' = "idle" /\ next' = next + 1
    /\ UNCHANGED <<serverName, allowed, processes, clients>>

Entered == {clients[n] : n \in ServerName} \ {0}

CloseAll ==
    /\ Entered # {}
    /\ processes' = processes \ Entered
    /\ clients' = [n \in ServerName |-> 0]
    /\ UNCHANGED <<serverName, allowed, next, startPc, found, executors>>

ManagerNext ==
    \/ SkipServer \/ StartProcess \/ Initialize \/ StartFails \/ ListTools \/ RegisterTools
    \/ CloseAll

ManagerSpec == ManagerInit /\ [][ManagerNext]_managerVars

-----------------------------------------------------------------------------
(***************************************************************************)
(* Properties.                                                             *)
(***************************************************************************)

\* Type invariant.
ManagerTypeOK ==
    /\ serverName \in [Server -> ServerName \cup {Unnamed}]
    /\ next \in 1..(Servers + 1) /\ startPc \in {"idle", "initializing", "listing", "registering"}
    /\ found \subseteq McpTool /\ processes \subseteq Server /\ clients \in [ServerName -> 0..Servers]
    /\ executors \in [ServerName \X McpTool -> 0..Servers]

\* Servers whose place in the map a later server of the same name has taken.
Displaced == {s \in Server : \E l \in Server : s < l /\ serverName[s] = serverName[l]}

\* A process that runs is one that Close will close, or is being started, unless a later
\* server has its name: no failure of a start and no Close in between leaves one behind
\* (manager.go:56-89, 134-144).
NoneLeftBehind ==
    processes \subseteq Entered \cup Displaced \cup (IF startPc \in {"initializing", "listing"} THEN {next} ELSE {})
=============================================================================
