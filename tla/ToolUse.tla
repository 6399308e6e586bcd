------------------------------ MODULE ToolUse ------------------------------
(***************************************************************************)
(* The tools in a diagnosis: initSessionAccessor (diagnose/engine.go) opens *)
(* a connection to the target, the tools that the AI calls run with it     *)
(* (executor.go), and Close of the session gives it back (types.go).       *)
(* Plugins register at startup, before the first diagnosis.                *)
(***************************************************************************)
EXTENDS ToolRegistry

VARIABLES
    goos,        \* the system the program runs on
    factories,   \* the plugins that have registered a factory of accessors
    request,     \* the plugin diagnosed, and whether the request has its instance; or Nothing
    usePc,       \* "startup", "opening", "using", "closing" or "ended"
    accessor,    \* session.Accessor: "none", "open" or "closed"
    ran          \* the tool that has run last, and the accessor it was given, or Nothing

useVars == <<registryVars, goos, factories, request, usePc, accessor, ran>>

UseInit ==
    /\ RegistryInit
    /\ goos \in OS /\ factories \in SUBSET (Category \ McpCategory)
    /\ request = Nothing /\ usePc = "startup" /\ accessor = "none" /\ ran = Nothing

Startup ==
    /\ usePc = "startup" /\ RegistryNext
    /\ UNCHANGED <<goos, factories, request, usePc, accessor, ran>>

\* An alert's request has the instance, a remote session's has not.
BeginDiagnosis(plugin, instance) ==
    /\ usePc = "startup" /\ usePc' = "opening"
    /\ request' = [plugin |-> plugin, instance |-> instance]
    /\ UNCHANGED <<registryVars, goos, factories, accessor, ran>>

NeedsAccessor == request.instance /\ request.plugin \in factories

\* initSessionAccessor, with a factory that succeeds or has nothing to do
OpenAccessor ==
    /\ usePc = "opening" /\ usePc' = "using"
    /\ accessor' = IF NeedsAccessor THEN "open" ELSE accessor
    /\ UNCHANGED <<registryVars, goos, factories, request, ran>>

\* The factory fails or panics.
NoAccessor ==
    /\ usePc = "opening" /\ NeedsAccessor /\ usePc' = "closing"
    /\ UNCHANGED <<registryVars, goos, factories, request, accessor, ran>>

\* executeToolImpl: a remote tool, of whatever plugin, is given the session as it is.
RunTool(n) ==
    /\ usePc = "using"
    /\ \E t \in Executed(n, goos) :
         ran' = [tool |-> t, accessor |-> IF t.scope = "remote" THEN accessor ELSE "unused"]
    /\ UNCHANGED <<registryVars, goos, factories, request, usePc, accessor>>

\* The diagnosis returns, or a tool panics.
LeaveDiagnosis ==
    /\ usePc = "using" /\ usePc' = "closing"
    /\ UNCHANGED <<registryVars, goos, factories, request, accessor, ran>>

\* The deferred Close of the session
CloseSession ==
    /\ usePc = "closing" /\ usePc' = "ended"
    /\ accessor' = IF accessor = "open" THEN "closed" ELSE accessor
    /\ UNCHANGED <<registryVars, goos, factories, request, ran>>

UseNext ==
    \/ Startup \/ OpenAccessor \/ NoAccessor \/ LeaveDiagnosis \/ CloseSession
    \/ \E plugin \in Category \ McpCategory, instance \in BOOLEAN : BeginDiagnosis(plugin, instance)
    \/ \E n \in ToolName : RunTool(n)

UseSpec == UseInit /\ [][UseNext]_useVars

-----------------------------------------------------------------------------
(***************************************************************************)
(* Properties.                                                             *)
(***************************************************************************)

\* Type invariant.
UseTypeOK ==
    /\ RegistryTypeOK
    /\ usePc \in {"startup", "opening", "using", "closing", "ended"}
    /\ accessor \in {"none", "open", "closed"}
    /\ usePc # "startup" => request.plugin \in Category

\* A remote tool of the diagnosed plugin runs on the connection of this diagnosis while it
\* is open, and the connection is given back however the diagnosis ends (types.go:139-156).
\* Without an instance, or for a tool of another plugin, it runs without or with a strange
\* accessor (executor.go:67-74).
RemoteConnected ==
    /\ ran # Nothing /\ ran.tool.scope = "remote" /\ NeedsAccessor
         /\ ran.tool \in ByPluginForOS(request.plugin, goos)
       => ran.accessor = "open"
    /\ usePc = "ended" => accessor # "open"

\* What the AI is shown is what runs, on an open connection where it needs one.
ToolsSound == ShownIsExecuted /\ RemoteConnected
=============================================================================
