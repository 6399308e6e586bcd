---------------------------- MODULE ChatSession ----------------------------
(***************************************************************************)
(* A remote chat session (server/session_handler.go): the reader of the    *)
(* connection puts the user's messages into a bounded channel, and runChat *)
(* takes them out, one turn for each, until the session is cancelled.      *)
(*                                                                         *)
(* Messages are numbered.  What HandleMessage of the chat runner does is   *)
(* its result: an answer, an error or a panic.                             *)
(***************************************************************************)
EXTENDS Integers, Sequences, SequencesExt

CONSTANTS
    InputSize,    \* capacity of inputCh, 8 in the code
    MaxInputs     \* bound: messages of the user

ASSUME ChatSessionAssumption == InputSize \in Nat \ {0} /\ MaxInputs \in Nat

VARIABLES
    opened,       \* the session starts with a message
    inputs,       \* inputCh
    userSent,     \* messages the user has sent
    delivered,    \* those that were given to the session
    sessionPc,    \* "starting", "turn", "select", "ending" or "ended"
    turn,         \* the message of the turn
    replies,      \* the messages with a turn_done
    over          \* the context of the session is done

talkVars == <<opened, inputs, userSent, delivered, sessionPc, turn, replies, over>>

TalkInit ==
    /\ opened \in BOOLEAN
    /\ inputs = <<>> /\ delivered = (IF opened THEN <<1>> ELSE <<>>)
    /\ userSent = Len(delivered) /\ sessionPc = "starting" /\ turn = 0
    /\ replies = <<>> /\ over = FALSE

InputRoom == Len(inputs) < InputSize

\* handleSessionInput: a message for a session that is gone or whose channel is full is
\* dropped.
SessionInput ==
    /\ userSent < MaxInputs /\ userSent' = userSent + 1
    /\ \/ /\ InputRoom /\ sessionPc # "ended"
          /\ inputs' = Append(inputs, userSent') /\ delivered' = Append(delivered, userSent')
       \/ /\ ~InputRoom \/ over \/ sessionPc = "ended"
          /\ UNCHANGED <<inputs, delivered>>
    /\ UNCHANGED <<opened, sessionPc, turn, replies, over>>

\* A cancel, a disconnect, the end of the agent.
CancelSession ==
    /\ ~over /\ over' = TRUE
    /\ UNCHANGED <<opened, inputs, userSent, delivered, sessionPc, turn, replies>>

\* runRemoteSession and runChat up to the first message or the loop.
BeginChat ==
    /\ sessionPc = "starting" /\ ~over
    /\ IF opened THEN sessionPc' = "turn" /\ turn' = 1 ELSE sessionPc' = "select" /\ UNCHANGED turn
    /\ UNCHANGED <<opened, inputs, userSent, delivered, replies, over>>

\* The context is done, or NewSession fails.
ChatFails ==
    /\ sessionPc = "starting" /\ sessionPc' = "ending"
    /\ UNCHANGED <<opened, inputs, userSent, delivered, turn, replies, over>>

\* The select takes either, when both are ready.
TakeInput ==
    /\ sessionPc = "select" /\ inputs # <<>>
    /\ sessionPc' = "turn" /\ turn' = Head(inputs) /\ inputs' = Tail(inputs)
    /\ UNCHANGED <<opened, userSent, delivered, replies, over>>

SelectDone ==
    /\ sessionPc = "select" /\ over /\ sessionPc' = "ending"
    /\ UNCHANGED <<opened, inputs, userSent, delivered, turn, replies, over>>

EndTurn(to, ids) ==
    /\ sessionPc' = to /\ turn' = 0 /\ replies' = replies \o ids
    /\ UNCHANGED <<opened, inputs, userSent, delivered, over>>

TurnAnswers == sessionPc = "turn" /\ EndTurn("select", <<turn>>)

\* An error: of a context that is done, or of this turn alone.
TurnFails ==
    sessionPc = "turn" /\ (IF over THEN EndTurn("ending", <<>>) ELSE EndTurn("select", <<turn>>))

\* Fault: nobody is told of a panic.
RecoverOnly == sessionPc = "turn" /\ EndTurn("select", <<>>)

\* The deferred recover: the turn is done, the chat goes on.
TurnPanics == sessionPc = "turn" /\ EndTurn("select", <<turn>>)

\* The final output, and the session is removed.
ChatEnds ==
    /\ sessionPc = "ending" /\ sessionPc' = "ended"
    /\ UNCHANGED <<opened, inputs, userSent, delivered, turn, replies, over>>

TurnStep == TurnAnswers \/ TurnFails \/ TurnPanics

TalkStep == BeginChat \/ ChatFails \/ TakeInput \/ SelectDone \/ TurnStep \/ ChatEnds

TalkNext == SessionInput \/ CancelSession \/ TalkStep

\* The goroutine of the session goes on when it can, a turn included: requests and tools
\* have timeouts (all but a write to an MCP server that has stopped reading, see McpClient).
TalkFairness == WF_talkVars(TalkStep)

TalkSpec == TalkInit /\ [][TalkNext]_talkVars /\ TalkFairness

-----------------------------------------------------------------------------
(***************************************************************************)
(* Properties.                                                             *)
(***************************************************************************)

\* Type invariant.
TalkTypeOK ==
    /\ {opened, over} \subseteq BOOLEAN /\ userSent \in 0..(MaxInputs + 1)
    /\ inputs \in Seq(1..userSent) /\ Len(inputs) <= InputSize
    /\ delivered \in Seq(1..userSent) /\ replies \in Seq(1..userSent)
    /\ sessionPc \in {"starting", "turn", "select", "ending", "ended"} /\ turn \in 0..userSent

\* The user is told once of every message, in the order they were given to the session:
\* those that have no turn_done yet are the ones of the turn and the channel; only a
\* session that ends leaves the message of its last turn without one
\* (session_handler.go:89-118, 293-317).
ToldInOrder ==
    /\ IsPrefix(replies, delivered)
    /\ sessionPc \in {"turn", "select"} =>
          replies \o (IF sessionPc = "turn" THEN <<turn>> ELSE <<>>) \o inputs = delivered

\* A message that was given to a running session is told of, or the session was
\* cancelled (session_handler.go:331-340).
EachTold ==
    \A k \in 1..MaxInputs :
        (sessionPc = "select" /\ k \in Range(inputs)) ~> (k \in Range(replies) \/ over)

\* A cancelled session comes to its end (session_handler.go:183-188, 333-334).
CancelledEnds == over ~> sessionPc = "ended"

\* What is waited for comes: the answer to a message, the end of a session
\* (session_handler.go:170-188, 331-340).
TalkEnds == EachTold /\ CancelledEnds
=============================================================================
