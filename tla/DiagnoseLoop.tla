---------------------------- MODULE DiagnoseLoop ----------------------------
(***************************************************************************)
(* DiagnoseEngine.diagnose (diagnose/engine.go): one diagnosis from its    *)
(* system prompt over rounds of requests and tool calls to a report.       *)
(*                                                                         *)
(* It compacts by an estimate that follows what the AI says it has used,   *)
(* and instructs the AI to stop when the context or the rounds run out.    *)
(* Texts are left out, tokens are kept.                                    *)
(***************************************************************************)
EXTENDS MessageHistory

CONSTANTS
    MaxRounds,      \* e.maxRounds
    WindowLimits,   \* values of e.contextWindowLimit; 0 is none
    LoopCalls,      \* bound: tool calls in one answer
    LoopTokens      \* tokens of a tool's truncated result

ASSUME LoopAssumption ==
    /\ {MaxRounds, LoopCalls} \subseteq Nat \ {0}
    /\ WindowLimits \subseteq Nat /\ LoopTokens \subseteq Nat \ {0}

VARIABLES
    window,      \* contextWindowLimit
    countsLess,  \* the AI counts fewer tokens than the estimate
    messages,
    estimate,    \* estimatedTokens
    loopRound,
    loopPc,      \* "start", "round", "asking" or "end"
    warned,      \* contextWarned
    result,      \* "none", "report", "incomplete" or "error"
    records,     \* session.Record.Rounds, by the number of its tool calls
    totalRounds  \* session.Record.AI.TotalRounds

loopVars == <<window, countsLess, messages, estimate, loopRound, loopPc, warned, result, records, totalRounds>>

Prompt    == Message("system", 0, 1)
Stop      == Message("user", 0, 1)
Asked(n)  == Message("call", n, 1)
Results   == {Message("tool", 0, t) : t \in LoopTokens}

LoopInit ==
    /\ window \in WindowLimits /\ countsLess \in BOOLEAN
    /\ messages = <<Prompt>> /\ estimate = 1
    /\ loopRound = 0 /\ loopPc = "start" /\ warned = FALSE
    /\ result = "none" /\ records = <<>> /\ totalRounds = 0

End(r, rounds) ==
    /\ loopPc' = "end" /\ result' = r /\ totalRounds' = rounds
    /\ UNCHANGED <<window, countsLess, messages, estimate, loopRound, warned, records>>

\* initSessionAccessor fails, or succeeds or has nothing to do.
AccessorFails == loopPc = "start" /\ End("error", totalRounds)

Begin ==
    /\ loopPc = "start" /\ loopPc' = "round"
    /\ UNCHANGED <<window, countsLess, messages, estimate, loopRound, warned, result, records, totalRounds>>

RoundsLeft == loopRound < MaxRounds

LoopCancelled == loopPc = "round" /\ RoundsLeft /\ End("error", totalRounds)

NearlyFull(est) == window > 0 /\ ~warned /\ est > (window * 90) \div 100

\* Fault: the counter of the rounds starts at one.
LastRoundPast == loopRound = MaxRounds

LastRound == loopRound = MaxRounds - 1

TooLong == window > 0 /\ estimate > window

\* A round begins: compaction by the estimate, then an instruction to stop when the
\* context is nearly full or this is the last round.  It is not added to the estimate.
Request ==
    /\ loopPc = "round" /\ RoundsLeft
    /\ LET ms  == IF TooLong THEN Compact(messages, window) ELSE messages
           est == IF TooLong THEN Tokens(ms) ELSE estimate
       IN  /\ estimate' = est
           /\ messages' = IF NearlyFull(est) \/ LastRound THEN Append(ms, Stop) ELSE ms
           /\ warned' = (warned \/ NearlyFull(est))
    /\ loopPc' = "asking"
    /\ UNCHANGED <<window, countsLess, loopRound, result, records, totalRounds>>

\* The AI fails, or has not answered when the context is done.
RequestFails == loopPc = "asking" /\ End("error", totalRounds)

\* An answer without tool calls is the report, an empty response too.
Report == loopPc = "asking" /\ End("report", loopRound + 1)

\* The total for this request and its answer, or nothing.
Usages == {0, IF countsLess THEN 1 ELSE Tokens(messages) + 1}

Used(u) == IF u > 0 THEN u ELSE estimate

RecordRound(n) == records' = Append(records, n)

\* Each call has its result, an error one too.
ResultsOf(n) == [1..n -> Results]

UseTools ==
    /\ loopPc = "asking" /\ loopPc' = "round"
    /\ \E n \in 1..LoopCalls, u \in Usages : \E rs \in ResultsOf(n) :
         /\ messages' = messages \o <<Asked(n)>> \o rs
         /\ estimate' = Used(u) + Tokens(<<Asked(n)>> \o rs)
         /\ RecordRound(n)
    /\ loopRound' = loopRound + 1
    /\ UNCHANGED <<window, countsLess, warned, result, totalRounds>>

Incomplete == loopPc = "round" /\ loopRound = MaxRounds /\ End("incomplete", MaxRounds)

LoopNext ==
    \/ AccessorFails \/ Begin \/ LoopCancelled \/ Request \/ RequestFails \/ Report
    \/ UseTools \/ Incomplete

LoopSpec == LoopInit /\ [][LoopNext]_loopVars

-----------------------------------------------------------------------------
(***************************************************************************)
(* Properties.                                                             *)
(***************************************************************************)

\* Type invariant.
LoopTypeOK ==
    /\ window \in WindowLimits /\ countsLess \in BOOLEAN /\ estimate \in Nat
    /\ messages \in Seq({Prompt, Stop} \cup {Asked(n) : n \in 1..LoopCalls} \cup Results)
    /\ loopRound \in 0..MaxRounds /\ loopPc \in {"start", "round", "asking", "end"}
    /\ warned \in BOOLEAN /\ result \in {"none", "report", "incomplete", "error"}
    /\ records \in Seq(1..LoopCalls) /\ totalRounds \in 0..MaxRounds

\* What is sent to the AI pairs every tool call with its results, however often the
\* history was compacted and instructions were put in between (engine.go:264-297).
LoopWhole == loopPc = "asking" => Whole(messages)

\* Whatever was said before and dropped by compaction, a diagnosis ends as incomplete
\* only after its last request ended with the instruction to report (engine.go:269-281).
ToldToStop ==
    [][loopRound # loopRound' /\ loopRound' = MaxRounds => Last(messages) = Stop]_loopVars

\* The record tells of every round: each round that was counted either used tools and
\* is recorded with all its calls, or gave the report (engine.go:317, 377, 380).
RoundsRecorded ==
    /\ result = "report" => Len(records) = totalRounds - 1
    /\ result = "incomplete" => Len(records) = totalRounds
    /\ result \in {"none", "error"} => Len(records) = loopRound

\* The messages, of which the instructions to stop count nothing.
Unprompted(ms) == [i \in DOMAIN ms |-> IF ms[i] = Stop THEN Message("user", 0, 0) ELSE ms[i]]

\* A request is larger than the window only by instructions to stop, unless the AI
\* counts fewer tokens than the estimate (engine.go:264-267, 297).
LoopFits ==
    loopPc = "asking" /\ window > 0 /\ ~countsLess => Tokens(Unprompted(messages)) <= window

\* Requests pair calls and results and fit the window, the record tells of every round
\* that led to them, and the last one asks for the report (engine.go:266-391).
LoopSound == [](LoopWhole /\ LoopFits /\ RoundsRecorded) /\ ToldToStop
=============================================================================
