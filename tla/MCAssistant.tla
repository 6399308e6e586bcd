---------------------------- MODULE MCAssistant ----------------------------
(***************************************************************************)
(* The parts of the AI assistant, no two of which share a variable: the    *)
(* chat, the diagnosis, the client of the models, the client of an MCP     *)
(* server and a remote chat session.  As in MCParts, the steps of one are  *)
(* taken while the others rest in their initial state; there, fairness     *)
(* asks nothing of them.                                                   *)
(***************************************************************************)
EXTENDS ChatStream, DiagnoseLoop, AIClient, McpClient, ChatSession

VARIABLE part

assistantVars == <<part, chatVars, loopVars, clientVars, mcpVars, talkVars>>

\* The unused configurations of a part that rests are not told apart.
Configured ==
    /\ part # "chat" => limit = 0
    /\ part # "loop" => window = 0 /\ countsLess = FALSE
    /\ part # "client" => viaGateway = FALSE
    /\ part # "talk" => opened = FALSE

Init ==
    /\ part \in {"chat", "loop", "client", "mcp", "talk"}
    /\ Configured
    /\ ChatInit /\ LoopInit /\ ClientInit /\ McpInit /\ TalkInit

\* One part takes its steps,
PartStep ==
    \/ part = "chat"   /\ ChatNext
    \/ part = "loop"   /\ LoopNext
    \/ part = "client" /\ ClientNext
    \/ part = "mcp"    /\ McpNext
    \/ part = "talk"   /\ TalkNext

Keep(name, variables) == IF part = name THEN TRUE ELSE UNCHANGED variables

\* ... and the others keep their variables.
OthersRest ==
    /\ Keep("chat", chatVars)     /\ Keep("loop", loopVars)
    /\ Keep("client", clientVars) /\ Keep("mcp", mcpVars)
    /\ Keep("talk", talkVars)

Next == UNCHANGED part /\ PartStep /\ OthersRest

Fairness == McpFairness /\ WF_talkVars(part = "talk" /\ TalkStep)

Spec == Init /\ [][Next]_assistantVars /\ Fairness

\* Calls of MCP servers and turns of a chat session end.
AssistantEnds == CallsEnd /\ TalkEnds

\* The type invariants of the parts.
AssistantTypeOK ==
    /\ ChatTypeOK /\ LoopTypeOK /\ ClientTypeOK /\ McpTypeOK /\ TalkTypeOK
=============================================================================
