---------------------------- MODULE ToolRegistry ----------------------------
(***************************************************************************)
(* The registry of diagnostic tools (diagnose/registry.go), what of it is  *)
(* shown to the AI (toolconv.go) and what executeTool then accepts         *)
(* (executor.go).                                                          *)
(*                                                                         *)
(* Plugins and MCP servers register at startup, in any order; two of them  *)
(* may choose one name for their tools.  Of a category's description only  *)
(* the operating system it restricts the category to is kept.              *)
(***************************************************************************)
EXTENDS FiniteSets

CONSTANTS
    Category, ToolName, OS, Nothing, AnyOS,
    McpCategory,   \* those with the prefix "mcp:"
    Tool           \* bound: the tools that may be registered

\* SupportedOS is empty for all systems.  A local tool has Execute, a remote RemoteExecute.
ToolType == [name : ToolName, supported : SUBSET OS, scope : {"local", "remote"}]

TypedCategory == [only : OS \cup {AnyOS}, tools : SUBSET Tool]

ASSUME RegistryAssumption ==
    /\ AnyOS \notin OS /\ McpCategory \subseteq Category /\ Tool \subseteq ToolType
    /\ Nothing \notin Tool /\ Nothing \notin TypedCategory

VARIABLES
    categories,  \* Category -> its restriction and tools, or Nothing
    toolIndex    \* ToolName -> tool, or Nothing

registryVars == <<categories, toolIndex>>

RegistryInit ==
    /\ categories = [c \in Category |-> Nothing]
    /\ toolIndex = [n \in ToolName |-> Nothing]

\* A category that is new has no restriction and no tools.
Entry(c) == IF categories[c] = Nothing THEN [only |-> AnyOS, tools |-> {}] ELSE categories[c]

\* A tool whose name is taken is skipped.
Register(c, t) ==
    /\ toolIndex[t.name] = Nothing
    /\ toolIndex' = [toolIndex EXCEPT ![t.name] = t]
    /\ categories' =
          [categories EXCEPT ![c] = [only |-> Entry(c).only, tools |-> Entry(c).tools \cup {t}]]

\* The description may come before the tools or after them.
RegisterCategory(c, os) ==
    /\ categories' = [categories EXCEPT ![c] = [only |-> os, tools |-> Entry(c).tools]]
    /\ UNCHANGED toolIndex

RegistryNext ==
    \E c \in Category : \/ \E t \in Tool : Register(c, t)
                        \/ \E os \in OS \cup {AnyOS} : RegisterCategory(c, os)

RegistrySpec == RegistryInit /\ [][RegistryNext]_registryVars

Known == {c \in Category : categories[c] # Nothing}

SupportsOS(t, os) == t.supported = {} \/ os \in t.supported

categorySupportsOS(c, os) == categories[c].only \in {AnyOS, os}

\* The tools that list_tools tells of a category.
ListToolsForOS(c, os) ==
    IF c \in Known /\ categorySupportsOS(c, os)
    THEN {t \in categories[c].tools : SupportsOS(t, os)} ELSE {}

\* The tools of the plugin whose check is diagnosed, which the AI may call by name.
ByPluginForOS(c, os) == ListToolsForOS(c, os)

\* The categories that list_tool_categories tells of.
ListCategoriesForOS(os) ==
    {c \in Known : categorySupportsOS(c, os) /\ \E t \in categories[c].tools : SupportsOS(t, os)}

\* ListToolCatalogSmartForOS, in the prompt: the tools of the program itself, and the
\* categories of MCP servers, whose tools have to be listed.
CatalogTools(os) == UNION {ListToolsForOS(c, os) : c \in Known \ McpCategory}

Announced(os) == {c \in McpCategory : ListToolsForOS(c, os) # {}}

\* Fault: the restriction of the category is not looked up.
SupportedByTool(n, os) == toolIndex[n] # Nothing /\ SupportsOS(toolIndex[n], os)

ToolSupportedOn(n, os) ==
    /\ toolIndex[n] # Nothing /\ SupportsOS(toolIndex[n], os)
    /\ \A c \in Known : (\E t \in categories[c].tools : t.name = n) => categorySupportsOS(c, os)

\* The tool that executeTool runs for a name, by call_tool or directly.
Executed(n, os) == IF ToolSupportedOn(n, os) THEN {toolIndex[n]} ELSE {}

\* The tool that the executeTool of the chat runs: it does not ask for the system.
ChatExecuted(n) ==
    IF toolIndex[n] # Nothing /\ toolIndex[n].scope = "local" THEN {toolIndex[n]} ELSE {}

-----------------------------------------------------------------------------
(***************************************************************************)
(* Properties.                                                             *)
(***************************************************************************)

\* Type invariant; what a category lists is what the index knows by that name.
RegistryTypeOK ==
    /\ categories \in [Category -> TypedCategory \cup {Nothing}]
    /\ toolIndex \in [ToolName -> Tool \cup {Nothing}]
    /\ \A n \in ToolName : toolIndex[n] # Nothing => toolIndex[n].name = n
    /\ \A c \in Category : categories[c] # Nothing =>
          \A t \in categories[c].tools : toolIndex[t.name] = t

\* On every system the AI finds exactly the tools that executeTool runs, by the catalog of
\* the prompt as by the list of categories, each in one category, in whatever order plugins
\* and MCP servers have registered: what it calls is not refused, and nothing runs that
\* it was not shown (registry.go:112-187, 212-244, 322-340, 398-446, executor.go:34-57).  A
\* chat runs what is local of it, and may also run what is for another system.
ShownIsExecuted ==
    \A os \in OS :
        LET executed == UNION {Executed(n, os) : n \in ToolName}
            listed(cs) == UNION {ListToolsForOS(c, os) : c \in cs}
        IN  /\ listed(ListCategoriesForOS(os)) = executed
            /\ CatalogTools(os) \cup listed(Announced(os)) = executed
            /\ {t \in executed : t.scope = "local"} \subseteq UNION {ChatExecuted(n) : n \in ToolName}
            /\ \A c, d \in Category : c # d => ByPluginForOS(c, os) \cap ListToolsForOS(d, os) = {}
=============================================================================
