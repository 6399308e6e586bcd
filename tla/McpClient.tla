------------------------------ MODULE McpClient ------------------------------
(***************************************************************************)
(* Client of mcp/client.go: calls to one MCP server over the pipes to its  *)
(* process.  A call holds the mutex from its request to its end; the line  *)
(* that ends it is read by a goroutine of its own, which goes on reading   *)
(* when the call has timed out and may so take the line of a later call.   *)
(*                                                                         *)
(* The server reads its input or not, answers in any order or never, and   *)
(* may say what nobody asked for: a request of its own, whose id may be    *)
(* that of a call, or a line that does not parse.  Lines the reader skips  *)
(* (text, notifications) are left out.  A pipe to the server that is full  *)
(* holds up the next write, which knows no context.                        *)
(*                                                                         *)
(* Two readers in one bufio.Reader are a data race: a line goes to either, *)
(* or is overwritten in the buffer and lost.  A line that is spoiled and   *)
(* yet parses is left out, and so is a child of the server that keeps its  *)
(* pipes open.                                                             *)
(***************************************************************************)
EXTENDS Integers, Sequences, FiniteSets

CONSTANTS
    Caller,     \* goroutines that call tools
    NoCaller,
    PipeSize,   \* requests the pipe to the server holds (64 KB in the code)
    ForeignId,  \* ids in what the server says unasked (0: none, or not a number)
    MaxIds,     \* bound: calls
    MaxForeign  \* bound: lines of the server that answer no request

ASSUME McpAssumption ==
    /\ NoCaller \notin Caller
    /\ PipeSize \in Nat \ {0} /\ MaxIds \in Nat /\ MaxForeign \in Nat
    /\ ForeignId \subseteq 0..MaxIds

VARIABLES
    mu,          \* the caller that holds the mutex
    nextID,
    callerPc,    \* "idle", "locking", "checked", "writing" or "receiving"
    callID,      \* the id of a caller's request
    outcome,     \* "none", "ok" (a line with its id), "error", "mismatch" or "timeout"
    inPipe,      \* ids of the requests in the pipe to the server
    inServer,    \* ids of the requests the server has read and not answered
    toClient,    \* lines in the pipe from the server
    readers,     \* the goroutines that read, by the id they were started for
    inbox,       \* what a reader has put into its channel
    closed, stdinOpen, alive,
    expired,     \* history: the ids of the calls that have timed out
    strays       \* history: number of foreign lines taken for responses

callVars    == <<callID, outcome>>
pipeVars    == <<inPipe, inServer, toClient>>
procVars    == <<closed, stdinOpen, alive>>
historyVars == <<expired, strays>>
mcpVars == <<mu, nextID, callerPc, callVars, pipeVars, readers, inbox, procVars, historyVars>>

Ids  == 1..MaxIds
Line == [id : 0..MaxIds, reply : BOOLEAN]

Reply(id)   == [id |-> id, reply |-> TRUE]
Foreign(id) == [id |-> id, reply |-> FALSE]
NoLine      == Foreign(0)                    \* a read error, like a line that does not parse

McpInit ==
    /\ mu = NoCaller /\ nextID = 0
    /\ callerPc = [c \in Caller |-> "idle"] /\ callID = [c \in Caller |-> 0]
    /\ outcome = [c \in Caller |-> "none"]
    /\ inPipe = {} /\ inServer = {} /\ toClient = <<>>
    /\ readers = {} /\ inbox = {} /\ expired = {} /\ strays = 0
    /\ closed = FALSE /\ stdinOpen = TRUE /\ alive = TRUE

StartCall(c) ==
    /\ callerPc[c] = "idle"
    /\ nextID + Cardinality({d \in Caller : callerPc[d] = "locking"}) < MaxIds
    /\ callerPc' = [callerPc EXCEPT ![c] = "locking"]
    /\ outcome' = [outcome EXCEPT ![c] = "none"]
    /\ UNCHANGED <<mu, nextID, callID, pipeVars, readers, inbox, procVars, historyVars>>

EndCall(c, o) ==
    /\ callerPc' = [callerPc EXCEPT ![c] = "idle"]
    /\ outcome' = [outcome EXCEPT ![c] = o]
    /\ mu' = NoCaller

\* The mutex, the check of closed, and an id.
LockAndCheck(c) ==
    /\ callerPc[c] = "locking" /\ mu = NoCaller
    /\ IF closed
       THEN EndCall(c, "error") /\ UNCHANGED <<nextID, callID>>
       ELSE /\ mu' = c /\ nextID' = nextID + 1
            /\ callID' = [callID EXCEPT ![c] = nextID + 1]
            /\ callerPc' = [callerPc EXCEPT ![c] = "checked"] /\ UNCHANGED outcome
    /\ UNCHANGED <<pipeVars, readers, inbox, procVars, historyVars>>

\* send: the request is marshalled and stdin.Write called.
Send(c) ==
    /\ callerPc[c] = "checked"
    /\ callerPc' = [callerPc EXCEPT ![c] = "writing"]
    /\ UNCHANGED <<mu, nextID, callVars, pipeVars, readers, inbox, procVars, historyVars>>

\* Fault: the write looks at the context when the request has gone, and nobody reads the
\* response.
WrittenOrLate(c) ==
    /\ callerPc[c] = "writing" /\ stdinOpen /\ alive
    /\ Cardinality(inPipe) < PipeSize
    /\ inPipe' = inPipe \cup {callID[c]}
    /\ \/ EndCall(c, "timeout") /\ UNCHANGED readers
       \/ /\ readers' = readers \cup {callID[c]}
          /\ callerPc' = [callerPc EXCEPT ![c] = "receiving"]
          /\ UNCHANGED <<mu, outcome>>
    /\ UNCHANGED <<nextID, callID, inServer, toClient, inbox, procVars, historyVars>>

\* The write returns once the pipe has had room for the request; and recv starts the reader.
Written(c) ==
    /\ callerPc[c] = "writing" /\ stdinOpen /\ alive
    /\ Cardinality(inPipe) < PipeSize
    /\ inPipe' = inPipe \cup {callID[c]} /\ readers' = readers \cup {callID[c]}
    /\ callerPc' = [callerPc EXCEPT ![c] = "receiving"]
    /\ UNCHANGED <<mu, nextID, callVars, inServer, toClient, inbox, procVars, historyVars>>

\* It fails when the pipe has been closed, by Close or at the other end.
WriteFails(c) ==
    /\ callerPc[c] = "writing" /\ ~(stdinOpen /\ alive)
    /\ EndCall(c, "error")
    /\ UNCHANGED <<nextID, callID, pipeVars, readers, inbox, procVars, historyVars>>

-----------------------------------------------------------------------------
(***************************************************************************)
(* The server.                                                             *)
(***************************************************************************)
ServerReads(id) ==
    /\ alive /\ id \in inPipe
    /\ inPipe' = inPipe \ {id} /\ inServer' = inServer \cup {id}
    /\ UNCHANGED <<mu, nextID, callerPc, callVars, toClient, readers, inbox, procVars, historyVars>>

ServerResponds(id) ==
    /\ alive /\ id \in inServer
    /\ inServer' = inServer \ {id} /\ toClient' = Append(toClient, Reply(id))
    /\ UNCHANGED <<mu, nextID, callerPc, callVars, inPipe, readers, inbox, procVars, historyVars>>

\* A request of the server, or a line that begins like one and does not parse.
ServerSpeaks(id) ==
    /\ alive
    /\ strays + Cardinality({k \in DOMAIN toClient : ~toClient[k].reply}) < MaxForeign
    /\ toClient' = Append(toClient, Foreign(id))
    /\ UNCHANGED <<mu, nextID, callerPc, callVars, inPipe, inServer, readers, inbox, procVars,
                   historyVars>>

\* The process ends, at the end of its input or by itself.
ServerExits ==
    /\ alive /\ alive' = FALSE /\ inPipe' = {} /\ inServer' = {}
    /\ UNCHANGED <<mu, nextID, callerPc, callVars, toClient, readers, inbox, closed, stdinOpen,
                   historyVars>>

-----------------------------------------------------------------------------
(***************************************************************************)
(* The readers, and the end of a call.                                     *)
(***************************************************************************)

\* One of the readers takes the next line, whatever request it belongs to.
Read(r) ==
    /\ r \in readers /\ toClient # <<>>
    /\ toClient' = Tail(toClient)
    /\ readers' = readers \ {r}
    /\ inbox' = inbox \cup {<<r, Head(toClient)>>}
    /\ strays' = strays + (IF Head(toClient).reply THEN 0 ELSE 1)
    /\ UNCHANGED <<mu, nextID, callerPc, callVars, inPipe, inServer, procVars, expired>>

\* Two readers overwrite each other's line.
LoseLine ==
    /\ Cardinality(readers) > 1 /\ toClient # <<>>
    /\ toClient' = Tail(toClient)
    /\ UNCHANGED <<mu, nextID, callerPc, callVars, inPipe, inServer, readers, inbox, procVars,
                   historyVars>>

\* The pipe has ended; Wait closes it without regard to what is left in it.
ReadEnds(r) ==
    /\ r \in readers /\ ~alive /\ (toClient = <<>> \/ closed)
    /\ readers' = readers \ {r}
    /\ inbox' = inbox \cup {<<r, NoLine>>}
    /\ UNCHANGED <<mu, nextID, callerPc, callVars, pipeVars, procVars, historyVars>>

\* The ids are compared; what kind of message the line is, is not.
Verdict(c, line) ==
    IF line = NoLine THEN "error" ELSE IF line.id = callID[c] THEN "ok" ELSE "mismatch"

\* The line that its reader has taken ends the call.
Receive(c) ==
    /\ callerPc[c] = "receiving"
    /\ \E line \in Line : <<callID[c], line>> \in inbox /\ EndCall(c, Verdict(c, line))
    /\ UNCHANGED <<nextID, callID, pipeVars, readers, inbox, procVars, historyVars>>

\* Fault: the call waits for its reader.
TimeoutAfterReader(c) ==
    /\ callerPc[c] = "receiving" /\ callID[c] \notin readers
    /\ EndCall(c, "timeout")
    /\ expired' = expired \cup {callID[c]}
    /\ UNCHANGED <<nextID, callID, pipeVars, readers, inbox, procVars, strays>>

\* The context of the call is done: the reader stays behind.
Timeout(c) ==
    /\ callerPc[c] = "receiving"
    /\ EndCall(c, "timeout")
    /\ expired' = expired \cup {callID[c]}
    /\ UNCHANGED <<nextID, callID, pipeVars, readers, inbox, procVars, strays>>

\* Close does not take the mutex; it then waits for the process.
Close ==
    /\ ~closed /\ closed' = TRUE /\ stdinOpen' = FALSE
    /\ UNCHANGED <<mu, nextID, callerPc, callVars, pipeVars, readers, inbox, alive, historyVars>>

-----------------------------------------------------------------------------
CallerStep(c) ==
    \/ StartCall(c) \/ LockAndCheck(c) \/ Send(c) \/ Written(c) \/ WriteFails(c)
    \/ Receive(c) \/ Timeout(c)

ReaderStep(r) == Read(r) \/ ReadEnds(r)

ServerStep ==
    \/ \E id \in Ids : ServerReads(id) \/ ServerResponds(id)
    \/ \E id \in ForeignId : ServerSpeaks(id)
    \/ ServerExits

McpNext ==
    \/ \E c \in Caller : CallerStep(c)
    \/ \E r \in Ids : ReaderStep(r)
    \/ ServerStep \/ LoseLine \/ Close

\* A goroutine that can go on does, the mutex is given to each that waits for it, and the
\* context of a call is done at its timeout.  Nothing is asked of the server: it may stop
\* reading, never answer and never end.
McpFairness ==
    /\ \A c \in Caller : /\ SF_mcpVars(LockAndCheck(c)) /\ WF_mcpVars(Send(c))
                         /\ WF_mcpVars(Written(c)) /\ WF_mcpVars(WriteFails(c))
                         /\ WF_mcpVars(Timeout(c))
    /\ \A r \in Ids : WF_mcpVars(ReaderStep(r))

McpSpec == McpInit /\ [][McpNext]_mcpVars /\ McpFairness

-----------------------------------------------------------------------------
(***************************************************************************)
(* Properties.                                                             *)
(***************************************************************************)

\* Type invariant; the mutex is held from the id to the end of a call.
McpTypeOK ==
    /\ \A c \in Caller : mu = c <=> callerPc[c] \in {"checked", "writing", "receiving"}
    /\ mu \in Caller \cup {NoCaller} /\ nextID \in 0..MaxIds
    /\ callerPc \in [Caller -> {"idle", "locking", "checked", "writing", "receiving"}]
    /\ callID \in [Caller -> 0..MaxIds]
    /\ outcome \in [Caller -> {"none", "ok", "error", "mismatch", "timeout"}]
    /\ inPipe \subseteq Ids /\ inServer \subseteq Ids /\ toClient \in Seq(Line)
    /\ Cardinality(inPipe) <= PipeSize
    /\ readers \subseteq Ids /\ inbox \subseteq Ids \X Line
    /\ {closed, stdinOpen, alive} \subseteq BOOLEAN
    /\ expired \subseteq Ids /\ strays \in 0..MaxForeign

\* The requests that lines answer, and those that are on their way, there or back.
AnsweredBy(lines) == {lines[k].id : k \in {k \in 1..Len(lines) : lines[k].reply}}
OnTheWay          == inPipe \cup inServer \cup AnsweredBy(toClient)

\* The one a call waits for with its reader, and those that a later call stumbles over.
Awaited  == {id \in readers : \E c \in Caller : callerPc[c] = "receiving" /\ callID[c] = id}
Leftover == OnTheWay \ Awaited

\* Each call that times out and each foreign line that is taken for a response puts the
\* client out of step by one response at most, whatever the readers left behind take from
\* later calls, and nothing else does (client.go:24, 204-257).
OutOfStepBounded == alive => Cardinality(Leftover) <= Cardinality(expired) + strays

\* As long as no call has timed out and no foreign line was taken for a response, none is
\* given the response to another one, also when the server answers out of order, ends or is
\* closed in between.  The comments promise it without the two conditions: "reads from
\* stdout until a matching response arrives" (client.go:204), but any line that begins with
\* a brace and is no notification ends the call (client.go:221-231).
PairsKept == expired = {} /\ strays = 0 => \A c \in Caller : outcome[c] # "mismatch"

\* How far client and server get out of step (client.go:24, 204-257).
InStep == OutOfStepBounded /\ PairsKept

\* A write that waits for room in a pipe that is open at both ends.
Stuck(c) ==
    callerPc[c] = "writing" /\ stdinOpen /\ alive /\ Cardinality(inPipe) >= PipeSize

\* Every call comes back: when the server is silent, when it dies, when Close is called in
\* between, and when calls that time out hold the mutex before it.  There is one exception:
\* the write of some call, which does not know its context, waits for ever for a server that
\* has stopped reading (client.go:130-132, 193, 240-242).
CallsReturn ==
    (\A c \in Caller : callerPc[c] = "locking" ~> callerPc[c] = "idle")
        \/ \E c \in Caller : <>[]Stuck(c)

\* A reader left behind ends once Close has been called and the process has ended, which
\* Close waits for and does not see to: the comment says it kills it (client.go:114-115,
\* 205-206).
ReadersEndWithServer == closed /\ ~alive ~> readers = {}

\* Calls and their readers come to an end (client.go:130-257).
CallsEnd == CallsReturn /\ ReadersEndWithServer
=============================================================================
