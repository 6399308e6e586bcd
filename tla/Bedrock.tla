------------------------------ MODULE Bedrock ------------------------------
(***************************************************************************)
(* The conversion of a conversation to the Converse API of Bedrock         *)
(* (diagnose/aiclient/bedrock.go): the system prompt goes to a field of    *)
(* its own, results of tools become user messages, and consecutive         *)
(* messages of one role are merged.  A block of content is the message it  *)
(* comes from; a call stands for the blocks of its text and tool uses.     *)
(***************************************************************************)
EXTENDS MessageHistory

\* convertMessage
BedrockRole(m) == IF m.role \in {"text", "call"} THEN "assistant" ELSE "user"

Converted(m) == [role |-> BedrockRole(m), content |-> <<m>>]

\* mergeConsecutiveMessages, for one more message.
Merge(merged, m) ==
    IF merged # <<>> /\ Last(merged).role = m.role
    THEN [merged EXCEPT ![Len(merged)].content = @ \o m.content]
    ELSE Append(merged, m)

\* buildConverseRequest, for one more message and for all.
AddMessage(turns, m) == IF m.role = "system" THEN turns ELSE Merge(turns, Converted(m))

Converse(ms) == FoldLeft(AddMessage, <<>>, ms)

-----------------------------------------------------------------------------
\* A turn begins with the results of n calls, and these are all it has.
BeginsWithResults(turn, n) ==
    /\ n <= Len(turn.content)
    /\ \A k \in DOMAIN turn.content : turn.content[k].role = "tool" <=> k <= n

\* A call is the last of its turn, and the results come first in the next turn; results
\* come only there.
CallsAnswered(turns) ==
    \A i \in DOMAIN turns : \A k \in DOMAIN turns[i].content :
        LET m == turns[i].content[k]
        IN  /\ m.role = "call" => /\ k = Len(turns[i].content) /\ i < Len(turns)
                                  /\ BeginsWithResults(turns[i + 1], m.calls)
            /\ m.role = "tool" => i > 1 /\ Last(turns[i - 1].content).role = "call"

\* Nothing but the system prompt is left out, the roles alternate, and the results that are
\* asked for in a turn of the assistant are all in the turn of the user that follows, before
\* any text.
ConverseWhole(ms) ==
    LET turns == Converse(ms)
    IN  /\ FlattenSeq([i \in DOMAIN turns |-> turns[i].content]) = Tail(ms)
        /\ \A i \in 1..(Len(turns) - 1) : turns[i].role # turns[i + 1].role
        /\ CallsAnswered(turns)
=============================================================================
