--------------------------- MODULE MessageHistory ---------------------------
(***************************************************************************)
(* Conversations with an AI model as sequences of messages, and what keeps *)
(* them short: CompactMessages (diagnose/aiclient/compact.go) and          *)
(* trimHistory (diagnose/streaming.go).                                    *)
(*                                                                         *)
(* Of a message only its role, its number of tool calls and its estimated  *)
(* tokens remain.  An assistant message is a "text" or, with tool calls,   *)
(* a "call".                                                               *)
(***************************************************************************)
EXTENDS Integers, Sequences, SequencesExt

Message(role, calls, tokens) == [role |-> role, calls |-> calls, tokens |-> tokens]

\* EstimateMessagesTokens
Tokens(ms) == FoldLeft(LAMBDA sum, m : sum + m.tokens, 0, ms)

From(ms, i) == SubSeq(ms, i, Len(ms))

\* Message i answers a call: there are only answers between the two.
Answers(ms, i) ==
    /\ ms[i].role = "tool"
    /\ \E c \in 2..(i - 1) : /\ ms[c].role = "call"
                             /\ \A j \in (c + 1)..(i - 1) : ms[j].role = "tool"

\* parseMessageGroups: the messages that begin a group.
GroupStarts(ms) == {i \in 2..Len(ms) : ~Answers(ms, i)}

\* Where the kept groups may begin: the latest ones, as many as fit beside the
\* system prompt.
Kept(ms, limit) == {i \in GroupStarts(ms) : Tokens(From(ms, i)) <= limit - ms[1].tokens}

\* CompactMessages
Compact(ms, limit) ==
    IF Len(ms) <= 1 \/ limit <= 0 \/ Tokens(ms) <= limit THEN ms
    ELSE IF limit <= ms[1].tokens \/ Kept(ms, limit) = {} THEN <<ms[1]>>
    ELSE <<ms[1]>> \o From(ms, Min(Kept(ms, limit)))

\* Fault: the cut is made wherever the limit falls.
CutAnywhere(ms, max) == {i \in (Len(ms) - max + 1)..Len(ms) : TRUE}

\* From the limit on, where no tool call is cut off from its answers.
SafeCuts(ms, max) ==
    {i \in (Len(ms) - max + 1)..Len(ms) : ms[i].role \notin {"call", "tool"}}

\* trimHistory: the system prompt and about max messages.
Trim(ms, max) ==
    IF Len(ms) <= max + 1 THEN ms
    ELSE IF SafeCuts(ms, max) # {} THEN <<ms[1]>> \o From(ms, Min(SafeCuts(ms, max)))
    ELSE IF Len(ms) > 2 * max THEN <<ms[1]>> \o From(ms, Len(ms) - max + 1)
    ELSE ms

-----------------------------------------------------------------------------
\* No tool call is without its answers and no answer without its call.
Whole(ms) ==
    /\ \A i \in 2..Len(ms) : ms[i].role = "tool" => Answers(ms, i)
    /\ \A c \in DOMAIN ms : ms[c].role = "call" =>
          /\ c + ms[c].calls <= Len(ms)
          /\ \A j \in (c + 1)..(c + ms[c].calls) : ms[j].role = "tool"
          /\ c + ms[c].calls < Len(ms) => ms[c + ms[c].calls + 1].role # "tool"

\* The messages fit, or nothing is left but the system prompt.
Fits(ms, limit) == limit > 0 => Tokens(ms) <= limit \/ Len(ms) = 1
=============================================================================
