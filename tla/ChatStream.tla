----------------------------- MODULE ChatStream -----------------------------
(***************************************************************************)
(* ChatStream of diagnose/streaming.go: a conversation over many user      *)
(* messages, each answered by rounds of requests to the AI model and tool  *)
(* calls, trimmed and compacted on the way, and rolled back on errors.     *)
(*                                                                         *)
(* The history is a Go slice: its capacity decides what a slice            *)
(* expression beyond its length does, and the messages such an expression  *)
(* brings back are Stale.  Growing doubles the capacity; the rounding up   *)
(* of the allocator is left out.                                           *)
(***************************************************************************)
EXTENDS Bedrock, FiniteSets

CONSTANTS
    MaxHistory,     \* maxHistoryMessages, 40 in the code
    ChatRounds,     \* chatMaxRounds, 20 in the code
    ContextLimits,  \* configured values of contextWindowLimit; 0 is none
    MaxCalls,       \* bound: tool calls in one answer
    ResultTokens    \* tokens of a tool's truncated result

ASSUME ChatAssumption ==
    /\ {MaxHistory, ChatRounds, MaxCalls} \subseteq Nat \ {0}
    /\ ContextLimits \subseteq Nat /\ ResultTokens \subseteq Nat \ {0}

VARIABLES
    limit,     \* contextWindowLimit
    history,   \* messages
    capacity,  \* of the slice
    chatPc,    \* "idle", "round" (the head of the loop) or "asking" the AI
    round,
    msgCount,
    kept,      \* the history as an error should leave it
    shrunk,    \* messages have been dropped since msgCount was taken
    spoiled,   \* a rollback has gone wrong since the last Reset
    failed     \* the last HandleMessage has returned an error, or panicked

chatVars == <<limit, history, capacity, chatPc, round, msgCount, kept, shrunk, spoiled, failed>>

System == Message("system", 0, 1)
User   == Message("user", 0, 1)
Text   == Message("text", 0, 1)
Stale  == Message("stale", 0, 1)
Call(n) == Message("call", n, 1)
Result == {Message("tool", 0, t) : t \in ResultTokens}

ChatInit ==
    /\ limit \in ContextLimits
    /\ history = <<System>> /\ capacity = 1
    /\ chatPc = "idle" /\ round = 0 /\ msgCount = 0
    /\ kept = <<System>> /\ shrunk = FALSE /\ spoiled = FALSE /\ failed = FALSE

\* append: what does not fit goes to an array of twice the capacity.
Grown(cap, len) == IF len <= cap THEN cap ELSE IF len <= 2 * cap THEN 2 * cap ELSE len

Appended(ms) ==
    /\ history' = history \o ms
    /\ capacity' = FoldLeft(LAMBDA cap, i : Grown(cap, Len(history) + i), capacity,
                            [i \in DOMAIN ms |-> i])

\* HandleMessage, up to the loop.
HandleMessage ==
    /\ chatPc = "idle"
    /\ LET asked == Append(history, User)
       IN  /\ history' = Trim(asked, MaxHistory)
           /\ capacity' = IF history' = asked THEN Grown(capacity, Len(asked)) ELSE Len(history')
    /\ msgCount' = Len(history')
    /\ kept' = Front(history') /\ shrunk' = FALSE
    /\ chatPc' = "round" /\ round' = 0 /\ failed' = FALSE
    /\ UNCHANGED <<limit, spoiled>>

\* Fault: the user message stays in the history.
RollbackNothing == UNCHANGED <<history, capacity>>

\* s.messages[:msgCount-1]: a shorter slice is extended within its capacity; beyond
\* it the expression panics, and runChat of the server recovers.
Rollback ==
    /\ UNCHANGED capacity
    /\ history' = IF msgCount - 1 <= Len(history) THEN SubSeq(history, 1, msgCount - 1)
                  ELSE IF msgCount - 1 > capacity THEN history
                  ELSE history \o [i \in 1..(msgCount - 1 - Len(history)) |-> Stale]

Fail ==
    /\ Rollback
    /\ spoiled' = (spoiled \/ history' # kept)
    /\ chatPc' = "idle" /\ failed' = TRUE
    /\ UNCHANGED <<limit, round, msgCount, kept, shrunk>>

\* The context is done at the head of a round.
ChatCancelled == chatPc = "round" /\ round < ChatRounds /\ Fail

\* A round begins: the history is compacted and sent.  messages[:1] keeps its array,
\* a copy has just the capacity it needs.
Ask ==
    /\ chatPc = "round" /\ round < ChatRounds
    /\ history' = Compact(history, limit)
    /\ capacity' = IF history' = history \/ Len(history') = 1 THEN capacity ELSE Len(history')
    /\ shrunk' = (shrunk \/ history' # history)
    /\ chatPc' = "asking"
    /\ UNCHANGED <<limit, round, msgCount, kept, spoiled, failed>>

\* The AI fails, or its response is empty.
AskFails == chatPc = "asking" /\ Fail

\* A text ends the turn.
Answer ==
    /\ chatPc = "asking" /\ chatPc' = "idle"
    /\ Appended(<<Text>>)
    /\ UNCHANGED <<limit, round, msgCount, kept, shrunk, spoiled, failed>>

\* Tool calls: each has its result, an error one too, and the next round begins.
CallTools ==
    /\ chatPc = "asking" /\ chatPc' = "round" /\ round' = round + 1
    /\ \E n \in 1..MaxCalls : \E rs \in [1..n -> Result] : Appended(<<Call(n)>> \o rs)
    /\ UNCHANGED <<limit, msgCount, kept, shrunk, spoiled, failed>>

\* The last round was used up: the turn ends without an error.
RoundsUsedUp ==
    /\ chatPc = "round" /\ round = ChatRounds
    /\ chatPc' = "idle"
    /\ UNCHANGED <<limit, history, capacity, round, msgCount, kept, shrunk, spoiled, failed>>

Reset ==
    /\ chatPc = "idle"
    /\ history' = <<System>> /\ capacity' = 1 /\ spoiled' = FALSE /\ failed' = FALSE
    /\ UNCHANGED <<limit, chatPc, round, msgCount, kept, shrunk>>

ChatNext ==
    \/ HandleMessage \/ ChatCancelled \/ Ask \/ AskFails \/ Answer \/ CallTools
    \/ RoundsUsedUp \/ Reset

ChatSpec == ChatInit /\ [][ChatNext]_chatVars

-----------------------------------------------------------------------------
(***************************************************************************)
(* Properties.                                                             *)
(***************************************************************************)

\* Type invariant: the history stays between the system prompt and what the last
\* trimming and the rounds of a turn allow.
ChatTypeOK ==
    /\ limit \in ContextLimits
    /\ history \in Seq({System, User, Text, Stale} \cup {Call(n) : n \in 1..MaxCalls} \cup Result)
    /\ history[1] = System
    /\ Len(history) <= MaxHistory + 2 + ChatRounds * (1 + MaxCalls)
    /\ capacity \in Nat /\ Len(history) <= capacity
    /\ chatPc \in {"idle", "round", "asking"} /\ round \in 0..ChatRounds
    /\ msgCount \in 0..(MaxHistory + 2) 
    /\ {shrunk, spoiled, failed} \subseteq BOOLEAN

\* No request asks the AI to go on from a tool call without its answers or from
\* answers without their call, whatever was trimmed, compacted and rolled back
\* before (streaming.go:322-325, compact.go:3-6), unless a rollback went wrong.
RequestsWhole == chatPc = "asking" /\ ~spoiled => Whole(history)

\* Every request fits the context window, with all results of the rounds before
\* (streaming.go:99-101).
RequestsFit == chatPc = "asking" => Fits(history, limit)

\* A request to Bedrock is as whole as the history it is made from: the turns of user and
\* assistant alternate, also where texts and results were cut or merged
\* (bedrock.go:167-185, 247-264).
RequestsAlternate == chatPc = "asking" /\ ~spoiled => ConverseWhole(history)

\* Every request is one that the models accept, after any number of turns, of which some
\* failed: calls with their answers, within the window, alternating (streaming.go:71-190).
RequestsSound == RequestsWhole /\ RequestsFit /\ RequestsAlternate

\* A failed turn leaves the history as it was before the turn, however many rounds it
\* took, as long as it was not compacted in the turn (streaming.go:82-86).
RolledBackUnlessShrunk == failed /\ ~shrunk => history = kept

\* The comment at streaming.go:72: on an error the user message is rolled back.
RolledBack == failed => history = kept
=============================================================================
