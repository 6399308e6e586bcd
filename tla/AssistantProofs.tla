--------------------------- MODULE AssistantProofs ---------------------------
(***************************************************************************)
(* Proofs about the parts of the AI assistant: the client of the models    *)
(* (AIClient), the client of an MCP server (McpClient) and a remote chat   *)
(* session (ChatSession).                                                  *)
(***************************************************************************)
EXTENDS AIClient, McpClient, ChatSession, SequenceLemmas, FiniteSetTheorems

(***************************************************************************)
(* The client of the models, for any number of models and retries.         *)
(***************************************************************************)
CallTyped ==
    /\ pinned \in Model \cup {0} /\ only \in Model \cup {0} /\ model \in Model \cup {0}
    /\ context \in {"alive", "cancelled", "expired"}
    /\ callPc \in {"idle", "attempt", "asking", "waiting", "end"}
    /\ attempt \in 0..MaxRetries
    /\ asked \in [Model -> Nat] /\ lateAsks \in Nat
    /\ overdue \in BOOLEAN /\ viaGateway \in BOOLEAN
    /\ refusal \in Model \cup {0}
    /\ answer \in {"none", "ok"} \cup Errors

\* Which models have been asked, and how often the current one: what priority and
\* perseverance rest on.
Progress ==
    /\ callPc = "idle" => /\ only = 0 /\ model = 0 /\ context = "alive"
                          /\ asked = [m \in Model |-> 0]
    /\ callPc # "idle" => model \in Model
    /\ callPc # "end" => answer = "none"
    /\ only # 0 /\ callPc # "idle" => model = only
    /\ \A m \in Model : m # model /\ (only # 0 \/ m > model) => asked[m] = 0
    /\ \A m \in Model : m < model /\ only = 0 => asked[m] > 0
    /\ callPc \in {"attempt", "waiting"} => asked[model] = attempt
    /\ callPc = "waiting" => attempt > 0
    /\ callPc = "asking" => asked[model] = attempt + 1
    /\ callPc = "end" => asked[model] > 0

\* Requests sent without a context: one for each model left, and one that overtakes a
\* cancellation.
Lateness ==
    /\ context = "alive" => lateAsks = 0
    /\ callPc \in {"asking", "waiting"} /\ ~overdue => lateAsks = 0
    /\ context = "cancelled" /\ lateAsks # 0 => lateAsks = 1 /\ callPc \in {"asking", "end"}
    /\ callPc = "attempt" => lateAsks <= model - 1
    /\ lateAsks <= model

\* A refusal that the gateway has hidden is the only one that does not end the call.
Refused ==
    /\ callPc = "idle" => refusal = 0
    /\ callPc # "end" /\ refusal # 0 => IsGateway(refusal)
    /\ RefusalFinal

CallInv == CallTyped /\ Progress /\ Lateness /\ NotGivenUpEarly /\ Refused

LEMMA CallInvInit == ClientInit => CallInv
<1>. SUFFICES ASSUME ClientInit PROVE CallInv
  OBVIOUS
<1>. USE ClientAssumption DEF ClientInit, Model
<1>1. CallTyped
  <2>1. asked \in [Model -> Nat]
    OBVIOUS
  <2>2. MaxRetries \in Nat
    OBVIOUS
  <2>3. overdue \in BOOLEAN /\ viaGateway \in BOOLEAN
    OBVIOUS
  <2>4. answer \in {"none", "ok"} \cup Errors
    OBVIOUS
  <2>. QED BY <2>1, <2>2, <2>3, <2>4 DEF CallTyped
<1>2. Progress
  BY DEF Progress
<1>3. Lateness /\ NotGivenUpEarly /\ Refused
  BY DEF Lateness, NotGivenUpEarly, Refused, RefusalFinal
<1>. QED BY <1>1, <1>2, <1>3 DEF CallInv

\* What a response is read as, and that only the gateway reads a refusal as something else
\* (server_client.go:90-100).
LEMMA ReadValues ==
  ASSUME NEW m, NEW r \in Responses
  PROVE  /\ ReadResponse(m, r) \in {"ok", "busy", "broken", "refused", "network"}
         /\ ReadResponse(m, r) = "refused" => r.status = "refused"
         /\ r.status = "refused" /\ ~IsGateway(m) => ReadResponse(m, r) = "refused"
<1>1. r.status \in {"ok", "busy", "broken", "refused", "none"} /\ (r.status = "none" => r.body = "other")
  BY DEF Responses
<1>2. CASE IsGateway(m)
  <2>1. CASE r.body = "other"
    BY <1>2, <2>1 DEF ReadResponse, ReadGateway
  <2>2. CASE r.body # "other" /\ r.status # "ok"
    BY <1>1, <1>2, <2>2 DEF ReadResponse, ReadGateway
  <2>3. CASE r.body # "other" /\ r.status = "ok"
    BY <1>2, <2>3 DEF ReadResponse, ReadGateway
  <2>. QED BY <2>1, <2>2, <2>3
<1>3. CASE ~IsGateway(m)
  <2>1. CASE r.status = "none"
    BY <1>3, <2>1 DEF ReadResponse, ReadDirect
  <2>2. CASE r.status \in {"busy", "broken", "refused"}
    BY <1>3, <2>2 DEF ReadResponse, ReadDirect
  <2>3. CASE r.status = "ok" /\ r.body = "other"
    BY <1>3, <2>3 DEF ReadResponse, ReadDirect
  <2>4. CASE r.status = "ok" /\ r.body # "other"
    BY <1>3, <2>4 DEF ReadResponse, ReadDirect
  <2>. QED BY <1>1, <2>1, <2>2, <2>3, <2>4
<1>. QED BY <1>2, <1>3

\* What is so when a call fails at its model with e: the status that a refusal has left,
\* and why the context does not contradict e.
FailsWith(e) ==
    /\ e \in Errors /\ callPc \in {"asking", "waiting"}
    /\ UNCHANGED <<pinned, context, only, asked, viaGateway, lateAsks>>
    /\ e \in {"cancelled", "expired"} => context = e
    /\ callPc = "waiting" => e = context
    /\ context = "cancelled" /\ e # "cancelled" => lateAsks = 0
    /\ refusal' \in Model \cup {0}
    /\ refusal' # 0 /\ (~IsGateway(refusal') \/ e = "refused") => e = "refused" /\ refusal' = model

\* The call goes on with the next model, or ends with the error.
LEMMA GiveUpStep ==
  ASSUME CallInv, NEW e, FailsWith(e), GiveUp(e),
         e \in {"busy", "network"} => asked[model] = MaxRetries + 1
  PROVE  CallInv'
<1>. USE ClientAssumption DEF CallInv, CallTyped, FailsWith, Model, IsGateway
<1>1. CASE /\ only = 0 /\ e \notin {"refused", "cancelled"} /\ model < Models
           /\ callPc' = "attempt" /\ model' = model + 1 /\ attempt' = 0
           /\ answer' = answer /\ overdue' = overdue
  <2>1. CallTyped'
    BY <1>1 DEF Progress
  <2>2. asked[model] > 0
    BY DEF Progress
  <2>3. Progress'
    BY <1>1, <2>2 DEF Progress
  <2>4. Lateness'
    BY <1>1 DEF Lateness, Progress
  <2>5. NotGivenUpEarly' /\ Refused'
    BY <1>1 DEF NotGivenUpEarly, Refused, RefusalFinal, Progress
  <2>. QED BY <2>1, <2>3, <2>4, <2>5
<1>2. CASE /\ ~(only = 0 /\ e \notin {"refused", "cancelled"} /\ model < Models)
           /\ callPc' = "end" /\ answer' = e /\ UNCHANGED <<model, attempt, overdue>>
  <2>1. CallTyped'
    BY <1>2
  <2>2. Progress'
    BY <1>2 DEF Progress
  <2>3. Lateness'
    BY <1>2 DEF Lateness
  <2>4. NotGivenUpEarly'
    BY <1>2 DEF NotGivenUpEarly, Progress, Errors
  <2>5. Refused'
    BY <1>2 DEF Refused, RefusalFinal, Progress
  <2>. QED BY <2>1, <2>2, <2>3, <2>4, <2>5
<1>. QED BY <1>1, <1>2 DEF GiveUp, shouldFailover

\* Another attempt, or the model is given up.
LEMMA FailsStep ==
  ASSUME CallInv, NEW e, FailsWith(e), Fails(e), callPc = "asking"
  PROVE  CallInv'
<1>1. CASE /\ IsRetryable(e) /\ attempt < MaxRetries
           /\ callPc' = "waiting" /\ attempt' = attempt + 1
           /\ overdue' = (context # "alive") /\ UNCHANGED <<model, answer>>
  <2>. USE ClientAssumption DEF CallInv, CallTyped, FailsWith, Model, IsGateway
  <2>1. CallTyped'
    BY <1>1
  <2>2. Progress'
    BY <1>1 DEF Progress
  <2>3. e # "refused" /\ e # "cancelled"
    BY <1>1 DEF IsRetryable
  <2>4. Lateness'
    BY <1>1, <2>3 DEF Lateness
  <2>5. NotGivenUpEarly' /\ Refused'
    BY <1>1, <2>3 DEF NotGivenUpEarly, Refused, RefusalFinal, Progress
  <2>. QED BY <2>1, <2>2, <2>4, <2>5
<1>2. CASE ~(IsRetryable(e) /\ attempt < MaxRetries) /\ GiveUp(e)
  <2>1. e \in {"busy", "network"} => asked[model] = MaxRetries + 1
    BY <1>2, ClientAssumption DEF CallInv, CallTyped, Progress, IsRetryable
  <2>. QED BY <1>2, <2>1, GiveUpStep
<1>. QED BY <1>1, <1>2 DEF Fails

\* A response goes on to the next attempt, the next model or the end (retry.go:35-42).
LEMMA RespondsStep ==
  ASSUME CallInv, NEW r \in Responses, Responds(r)
  PROVE  CallInv'
<1>. DEFINE a == ReadResponse(model, r)
<1>1. /\ a \in {"ok", "busy", "broken", "refused", "network"}
      /\ a = "refused" => r.status = "refused"
      /\ r.status = "refused" /\ ~IsGateway(model) => a = "refused"
  BY ReadValues
<1>. HIDE DEF a
<1>. USE DEF CallInv, CallTyped, Model, IsGateway
<1>2. /\ callPc = "asking" /\ ~overdue /\ model \in Model
      /\ refusal' = IF r.status = "refused" THEN model ELSE refusal
      /\ UNCHANGED <<pinned, context, only, asked, viaGateway, lateAsks>>
  BY DEF Responds, Progress
<1>3. lateAsks = 0
  BY <1>2 DEF Lateness
<1>4. CASE a = "ok"
  <2>1. callPc' = "end" /\ answer' = "ok" /\ UNCHANGED <<model, attempt, overdue>>
    BY <1>4 DEF Responds, a
  <2>2. CallTyped'
    BY <1>2, <2>1
  <2>3. Progress'
    BY <1>2, <2>1 DEF Progress
  <2>4. Lateness'
    BY <1>2, <1>3, <2>1 DEF Lateness
  <2>5. NotGivenUpEarly' /\ Refused'
    BY <1>1, <1>2, <1>4, <2>1 DEF NotGivenUpEarly, Refused, RefusalFinal
  <2>. QED BY <2>2, <2>3, <2>4, <2>5
<1>5. CASE a # "ok"
  <2>1. Fails(a)
    BY <1>5 DEF Responds, a
  <2>2. FailsWith(a)
    BY <1>1, <1>2, <1>3, <1>5 DEF FailsWith, Errors, Refused, RefusalFinal
  <2>. QED BY <1>2, <2>1, <2>2, FailsStep
<1>. QED BY <1>4, <1>5

LEMMA CallStep == CallInv /\ [ClientNext]_clientVars => CallInv'
<1>. SUFFICES ASSUME CallInv, [ClientNext]_clientVars PROVE CallInv'
  OBVIOUS
<1>. USE ClientAssumption DEF CallInv, CallTyped, Model
<1>. USE DEF Progress, Lateness, NotGivenUpEarly, Refused, RefusalFinal, IsGateway
<1>1. ASSUME NEW m \in Model \cup {0}, PinModel(m) PROVE CallInv'
  BY <1>1 DEF PinModel
<1>2. ASSUME NEW how \in {"cancelled", "expired"}, ContextEnds(how) PROVE CallInv'
  BY <1>2 DEF ContextEnds
<1>3. CASE Chat
  <2>1. CallTyped'
    BY <1>3 DEF Chat
  <2>2. Progress'
    BY <1>3 DEF Chat
  <2>3. Lateness' /\ NotGivenUpEarly' /\ Refused'
    BY <1>3 DEF Chat
  <2>. QED BY <2>1, <2>2, <2>3
<1>4. CASE SendRequest
  <2>1. CallTyped'
    BY <1>4 DEF SendRequest
  <2>2. Progress'
    BY <1>4 DEF SendRequest
  <2>3. Lateness'
    <3>1. CASE context = "alive"
      BY <1>4, <3>1 DEF SendRequest
    <3>2. CASE context # "alive"
      <4>1. lateAsks' = lateAsks + 1 /\ overdue' /\ context' = context /\ model' = model
            /\ callPc' = "asking" /\ callPc = "attempt"
        BY <1>4, <3>2 DEF SendRequest
      <4>. QED BY <3>2, <4>1
    <3>. QED BY <3>1, <3>2
  <2>4. NotGivenUpEarly' /\ Refused'
    BY <1>4 DEF SendRequest
  <2>. QED BY <2>1, <2>2, <2>3, <2>4
<1>5. ASSUME NEW r \in Responses, Responds(r) PROVE CallInv'
  BY <1>5, RespondsStep
<1>6. CASE Interrupted
  <2>1. FailsWith(context)
    BY <1>6 DEF Interrupted, FailsWith, Errors
  <2>. QED BY <1>6, <2>1, FailsStep DEF Interrupted
<1>7. CASE TimerFired
  BY <1>7 DEF TimerFired
<1>8. CASE WaitInterrupted
  <2>1. FailsWith(context)
    BY <1>8 DEF WaitInterrupted, FailsWith, Errors
  <2>. QED BY <1>8, <2>1, GiveUpStep DEF WaitInterrupted
<1>9. CASE Return
  <2>1. CallTyped'
    <3>1. asked' \in [Model -> Nat]
      BY <1>9 DEF Return
    <3>2. overdue' \in BOOLEAN /\ viaGateway' \in BOOLEAN
      BY <1>9 DEF Return
    <3>3. answer' \in {"none", "ok"} \cup Errors
      BY <1>9 DEF Return
    <3>4. pinned' \in Model \cup {0} /\ only' = 0 /\ model' = 0 /\ refusal' = 0
          /\ attempt' \in 0..MaxRetries /\ lateAsks' \in Nat
      BY <1>9 DEF Return
    <3>5. context' = "alive" /\ callPc' = "idle"
      BY <1>9 DEF Return
    <3>. QED BY <3>1, <3>2, <3>3, <3>4, <3>5
  <2>2. Progress'
    BY <1>9 DEF Return
  <2>3. Lateness' /\ NotGivenUpEarly' /\ Refused'
    BY <1>9 DEF Return
  <2>. QED BY <2>1, <2>2, <2>3
<1>10. CASE UNCHANGED clientVars
  BY <1>10 DEF clientVars
<1>. QED BY <1>1, <1>2, <1>3, <1>4, <1>5, <1>6, <1>7, <1>8, <1>9, <1>10 DEF ClientNext

\* A call goes through the models in their order, gives none up before its attempts are
\* used, and stops when its context ends or a model refuses it (failover.go:116-150,
\* retry.go:20-65).
THEOREM FailoverIsSound == ClientSpec => []FailoverSound
<1>1. CallInv => FailoverSound
  BY ClientAssumption
     DEF CallInv, CallTyped, Progress, Lateness, Refused, FailoverSound, CancelStops, ExpiryEnds,
         PriorityKept, Model
<1>. QED BY <1>1, CallInvInit, CallStep, PTL DEF ClientSpec

(***************************************************************************)
(* The client of an MCP server, for any number of callers.                 *)
(***************************************************************************)
PipeTyped ==
    /\ mu \in Caller \cup {NoCaller} /\ nextID \in Nat
    /\ callerPc \in [Caller -> {"idle", "locking", "checked", "writing", "receiving"}]
    /\ callID \in [Caller -> Nat]
    /\ toClient \in Seq(Line) /\ strays \in Nat
    /\ inbox \subseteq Nat \X Line

\* The mutex is held from the id to the end of a call (client.go:130-131).
OneCall == \A c \in Caller : mu = c <=> callerPc[c] \in {"checked", "writing", "receiving"}

Unsent(c) == callerPc[c] \in {"checked", "writing"}

\* An id is used once: for one request, and one reader that puts one line into its channel.
FreshIds ==
    /\ inPipe \cup inServer \cup AnsweredBy(toClient) \subseteq 1..nextID
    /\ readers \cup expired \subseteq 1..nextID
    /\ \A e \in inbox : e[1] <= nextID /\ e[1] \notin readers
    /\ \A c \in Caller : callID[c] <= nextID
    /\ \A c \in Caller : Unsent(c) =>
          callID[c] \notin readers /\ \A e \in inbox : e[1] # callID[c]
    /\ \A c \in Caller : Unsent(c) \/ callerPc[c] = "receiving" =>
          callID[c] > 0 /\ callID[c] \notin expired

\* No two lines answer the same request.
Single(q) ==
    \A k, l \in 1..Len(q) : q[k].reply /\ q[l].reply /\ q[k].id = q[l].id => k = l

\* A request is in the pipe, in the server, or answered by one line.
Once ==
    /\ inPipe \cap inServer = {}
    /\ AnsweredBy(toClient) \cap (inPipe \cup inServer) = {}
    /\ Single(toClient)
    /\ \A c \in Caller : Unsent(c) => callID[c] \notin OnTheWay

PipeInv == PipeTyped /\ OneCall /\ FreshIds /\ Once /\ OutOfStepBounded

\* What the steps do to the lines.
LEMMA LineAppend ==
  ASSUME NEW q \in Seq(Line), NEW line \in Line
  PROVE  /\ line.reply => AnsweredBy(Append(q, line)) = AnsweredBy(q) \cup {line.id}
         /\ ~line.reply => AnsweredBy(Append(q, line)) = AnsweredBy(q)
         /\ Single(q) /\ (line.reply => line.id \notin AnsweredBy(q)) => Single(Append(q, line))
<1>1. /\ Len(q) \in Nat /\ Len(Append(q, line)) = Len(q) + 1
      /\ Append(q, line)[Len(q) + 1] = line /\ \A k \in 1..Len(q) : Append(q, line)[k] = q[k]
  BY AppendProperties, LenProperties
<1>. QED BY <1>1 DEF AnsweredBy, Single

LEMMA LineTail ==
  ASSUME NEW q \in Seq(Line), q # <<>>
  PROVE  /\ Tail(q) \in Seq(Line) /\ Head(q) \in Line
         /\ AnsweredBy(Tail(q)) \subseteq AnsweredBy(q)
         /\ Single(q) => Single(Tail(q))
         /\ Head(q).reply => Head(q).id \in AnsweredBy(q)
         /\ Single(q) /\ Head(q).reply => Head(q).id \notin AnsweredBy(Tail(q))
<1>1. Len(q) \in Nat \ {0} /\ Head(q) = q[1]
  BY EmptySeq
<1>2. /\ Tail(q) \in Seq(Line) /\ Head(q) \in Line /\ Len(Tail(q)) = Len(q) - 1
      /\ \A k \in 1..Len(Tail(q)) : Tail(q)[k] = q[k + 1]
  BY HeadTailProperties
<1>3. \A k \in 1..Len(Tail(q)) : k + 1 \in 1..Len(q) /\ k + 1 # 1
  BY <1>1, <1>2
<1>4. 1 \in 1..Len(q)
  BY <1>1
<1>5. AnsweredBy(Tail(q)) \subseteq AnsweredBy(q)
  BY <1>2, <1>3 DEF AnsweredBy
<1>6. ASSUME Single(q) PROVE Single(Tail(q))
  BY <1>2, <1>3, <1>6 DEF Single
<1>7. Head(q).reply => Head(q).id \in AnsweredBy(q)
  BY <1>1, <1>4 DEF AnsweredBy
<1>8. ASSUME Single(q), Head(q).reply PROVE Head(q).id \notin AnsweredBy(Tail(q))
  BY <1>1, <1>2, <1>3, <1>4, <1>8 DEF AnsweredBy, Single
<1>. QED BY <1>2, <1>5, <1>6, <1>7, <1>8

LEMMA PipeInit == McpInit => PipeInv
<1>. SUFFICES ASSUME McpInit PROVE PipeInv
  OBVIOUS
<1>1. \A S : <<>> \in Seq(S) /\ Len(<<>>) = 0
  BY EmptySeq
<1>2. PipeTyped
  BY <1>1 DEF McpInit, PipeTyped
<1>3. AnsweredBy(toClient) = {} /\ Single(toClient)
  BY <1>1 DEF McpInit, AnsweredBy, Single
<1>4. OneCall /\ FreshIds /\ Once
  BY <1>3, McpAssumption DEF McpInit, OneCall, FreshIds, Once, Unsent
<1>5. Leftover = {} /\ expired = {} /\ strays = 0
  BY <1>3 DEF McpInit, Leftover, OnTheWay
<1>6. OutOfStepBounded
  BY <1>5, FS_EmptySet DEF OutOfStepBounded
<1>. QED BY <1>2, <1>4, <1>6 DEF PipeInv

\* Both outcomes of the step that a closed client cuts short (client.go:134-138).
Refuses(c) ==
    /\ callerPc[c] = "locking" /\ callerPc' = [callerPc EXCEPT ![c] = "idle"]
    /\ mu = NoCaller /\ mu' = NoCaller
    /\ UNCHANGED <<nextID, callID, pipeVars, readers, inbox, procVars, historyVars>>

Enters(c) ==
    /\ callerPc[c] = "locking" /\ callerPc' = [callerPc EXCEPT ![c] = "checked"]
    /\ mu = NoCaller /\ mu' = c /\ nextID' = nextID + 1
    /\ callID' = [callID EXCEPT ![c] = nextID + 1]
    /\ UNCHANGED <<pipeVars, readers, inbox, procVars, historyVars>>

LEMMA CutShort == \A c \in Caller : LockAndCheck(c) => Refuses(c) \/ Enters(c)
<1>. SUFFICES ASSUME NEW c \in Caller, LockAndCheck(c) PROVE Refuses(c) \/ Enters(c)
  OBVIOUS
<1>1. CASE closed
  BY <1>1, Zenon DEF LockAndCheck, EndCall, Refuses
<1>2. CASE ~closed
  BY <1>2, Zenon DEF LockAndCheck, Enters
<1>. QED BY <1>1, <1>2

\* A call ends: with a failed write, a line or its context (client.go:156, 236-257).
Ends(c) ==
    /\ callerPc' = [callerPc EXCEPT ![c] = "idle"] /\ mu' = NoCaller
    /\ UNCHANGED <<nextID, callID, pipeVars, readers, inbox, procVars, strays>>

LEMMA EndsAre ==
  ASSUME NEW c \in Caller
  PROVE  /\ WriteFails(c) => Ends(c) /\ callerPc[c] = "writing" /\ expired' = expired
         /\ Receive(c) => Ends(c) /\ callerPc[c] = "receiving" /\ expired' = expired
                          /\ \E line \in Line : <<callID[c], line>> \in inbox
         /\ Timeout(c) => Ends(c) /\ callerPc[c] = "receiving"
                          /\ expired' = expired \cup {callID[c]}
BY DEF WriteFails, Receive, Timeout, EndCall, Ends, historyVars


LEMMA PipeTypedStep == PipeTyped /\ [McpNext]_mcpVars => PipeTyped'
<1>. SUFFICES ASSUME PipeTyped, [McpNext]_mcpVars PROVE PipeTyped'
  OBVIOUS
<1>. USE McpAssumption DEF PipeTyped, callVars, pipeVars, procVars, historyVars
<1>1. ASSUME NEW c \in Caller, StartCall(c) \/ Send(c) \/ Written(c) PROVE PipeTyped'
  BY <1>1 DEF StartCall, Send, Written
<1>2. ASSUME NEW c \in Caller, LockAndCheck(c) PROVE PipeTyped'
  <2>1. CASE Refuses(c)
    BY <2>1 DEF Refuses
  <2>2. CASE Enters(c)
    BY <2>2 DEF Enters
  <2>. QED BY <1>2, <2>1, <2>2, CutShort
<1>3. ASSUME NEW c \in Caller, WriteFails(c) \/ Receive(c) \/ Timeout(c) PROVE PipeTyped'
  BY <1>3, EndsAre DEF Ends
<1>4. ASSUME NEW id \in Ids, ServerReads(id) PROVE PipeTyped'
  BY <1>4 DEF ServerReads
<1>5. ASSUME NEW id \in Ids, ServerResponds(id) PROVE PipeTyped'
  <2>1. Append(toClient, Reply(id)) \in Seq(Line)
    BY AppendProperties DEF Reply, Line, Ids
  <2>. QED BY <1>5, <2>1 DEF ServerResponds
<1>6. ASSUME NEW id \in ForeignId, ServerSpeaks(id) PROVE PipeTyped'
  <2>1. Append(toClient, Foreign(id)) \in Seq(Line)
    BY AppendProperties DEF Foreign, Line
  <2>. QED BY <1>6, <2>1 DEF ServerSpeaks
<1>7. ASSUME NEW r \in Ids, Read(r) PROVE PipeTyped'
  <2>1. Tail(toClient) \in Seq(Line) /\ Head(toClient) \in Line
    BY <1>7, LineTail DEF Read
  <2>2. r \in Nat
    BY DEF Ids
  <2>. QED BY <1>7, <2>1, <2>2 DEF Read
<1>8. CASE LoseLine
  BY <1>8, LineTail DEF LoseLine
<1>9. ASSUME NEW r \in Ids, ReadEnds(r) PROVE PipeTyped'
  <2>1. NoLine \in Line /\ r \in Nat
    BY DEF NoLine, Foreign, Line, Ids
  <2>. QED BY <1>9, <2>1 DEF ReadEnds
<1>10. CASE Close \/ ServerExits
  BY <1>10 DEF Close, ServerExits
<1>11. CASE UNCHANGED mcpVars
  BY <1>11 DEF mcpVars
<1>. QED
  BY <1>1, <1>2, <1>3, <1>4, <1>5, <1>6, <1>7, <1>8, <1>9, <1>10, <1>11
     DEF McpNext, CallerStep, ReaderStep, ServerStep

\* Calls have ids of their own, and every request takes one way, there and back.
LEMMA CallsStep ==
  ASSUME PipeTyped, OneCall, FreshIds, Once, [McpNext]_mcpVars
  PROVE  OneCall' /\ FreshIds' /\ Once'
<1>. DEFINE Goal == OneCall' /\ FreshIds' /\ Once'
<1>. USE McpAssumption
     DEF PipeTyped, callVars, pipeVars, procVars, historyVars, OneCall, FreshIds, Once, Unsent, OnTheWay
<1>1. ASSUME NEW c \in Caller, StartCall(c) \/ Send(c) PROVE Goal
  <2>1. /\ UNCHANGED <<mu, nextID, callID, pipeVars, readers, inbox, historyVars>>
        /\ \/ callerPc[c] = "idle" /\ callerPc' = [callerPc EXCEPT ![c] = "locking"]
           \/ callerPc[c] = "checked" /\ callerPc' = [callerPc EXCEPT ![c] = "writing"]
    BY <1>1 DEF StartCall, Send
  <2>2. OneCall'
    BY <2>1
  <2>3. FreshIds'
    BY <2>1
  <2>4. Once'
    BY <2>1
  <2>. QED BY <2>2, <2>3, <2>4
<1>2. ASSUME NEW c \in Caller, LockAndCheck(c) PROVE Goal
  <2>1. CASE Refuses(c)
    BY <2>1 DEF Refuses
  <2>2. CASE Enters(c)
    <3>1. OneCall'
      BY <2>2 DEF Enters
    <3>2. \A e \in inbox : e[1] \in Nat
      OBVIOUS
    <3>3. FreshIds'
      BY <2>2, <3>2 DEF Enters
    <3>4. Once'
      BY <2>2 DEF Enters
    <3>. QED BY <3>1, <3>3, <3>4
  <2>. QED BY <1>2, <2>1, <2>2, CutShort
<1>3. ASSUME NEW c \in Caller, Written(c) PROVE Goal
  <2>1. OneCall'
    BY <1>3 DEF Written
  <2>2. callID[c] \in 1..nextID
    BY <1>3 DEF Written
  <2>3. FreshIds'
    BY <1>3, <2>2 DEF Written
  <2>4. Once'
    BY <1>3 DEF Written
  <2>. QED BY <2>1, <2>3, <2>4
<1>4. ASSUME NEW c \in Caller, WriteFails(c) \/ Receive(c) PROVE Goal
  <2>1. Ends(c) /\ callerPc[c] \in {"writing", "receiving"} /\ expired' = expired
    BY <1>4, EndsAre
  <2>2. OneCall'
    BY <2>1 DEF Ends
  <2>3. FreshIds'
    BY <2>1 DEF Ends
  <2>4. Once'
    BY <2>1 DEF Ends
  <2>. QED BY <2>2, <2>3, <2>4
<1>5. ASSUME NEW c \in Caller, Timeout(c) PROVE Goal
  <2>1. Ends(c) /\ callerPc[c] = "receiving" /\ expired' = expired \cup {callID[c]}
    BY <1>5, EndsAre
  <2>2. callID[c] \in 1..nextID
    BY <2>1
  <2>3. OneCall'
    BY <2>1 DEF Ends
  <2>4. FreshIds'
    BY <2>1, <2>2 DEF Ends
  <2>5. Once'
    BY <2>1 DEF Ends
  <2>. QED BY <2>3, <2>4, <2>5
<1>6. ASSUME NEW id \in Ids, ServerReads(id) PROVE Goal
  BY <1>6 DEF ServerReads
<1>7. ASSUME NEW id \in Ids, ServerResponds(id) PROVE Goal
  <2>1. Reply(id) \in Line /\ Reply(id).reply /\ Reply(id).id = id
    BY DEF Reply, Line, Ids
  <2>2. id \notin AnsweredBy(toClient)
    BY <1>7 DEF ServerResponds
  <2>3. AnsweredBy(toClient') = AnsweredBy(toClient) \cup {id} /\ Single(toClient')
    BY <1>7, <2>1, <2>2, LineAppend DEF ServerResponds
  <2>. QED BY <1>7, <2>3 DEF ServerResponds
<1>8. ASSUME NEW id \in ForeignId, ServerSpeaks(id) PROVE Goal
  <2>1. Foreign(id) \in Line /\ ~Foreign(id).reply
    BY DEF Foreign, Line
  <2>2. AnsweredBy(toClient') = AnsweredBy(toClient) /\ Single(toClient')
    BY <1>8, <2>1, LineAppend DEF ServerSpeaks
  <2>. QED BY <1>8, <2>2 DEF ServerSpeaks
<1>9. ASSUME NEW r \in Ids, Read(r) PROVE Goal
  <2>1. AnsweredBy(toClient') \subseteq AnsweredBy(toClient) /\ Single(toClient')
    BY <1>9, LineTail DEF Read
  <2>2. OneCall' /\ Once'
    BY <1>9, <2>1 DEF Read
  <2>3. FreshIds'
    BY <1>9, <2>1 DEF Read
  <2>. QED BY <2>2, <2>3
<1>10. CASE LoseLine
  <2>1. AnsweredBy(toClient') \subseteq AnsweredBy(toClient) /\ Single(toClient')
    BY <1>10, LineTail DEF LoseLine
  <2>. QED BY <1>10, <2>1 DEF LoseLine
<1>11. ASSUME NEW r \in Ids, ReadEnds(r) PROVE Goal
  BY <1>11 DEF ReadEnds
<1>12. CASE Close \/ ServerExits
  BY <1>12 DEF Close, ServerExits
<1>13. CASE UNCHANGED mcpVars
  BY <1>13 DEF mcpVars
<1>. QED
  BY <1>1, <1>2, <1>3, <1>4, <1>5, <1>6, <1>7, <1>8, <1>9, <1>10, <1>11, <1>12, <1>13
     DEF McpNext, CallerStep, ReaderStep, ServerStep

\* There are finitely many ids yet.
LEMMA FewIds == PipeInv => IsFiniteSet(Leftover) /\ IsFiniteSet(expired)
<1>. SUFFICES ASSUME PipeInv PROVE IsFiniteSet(Leftover) /\ IsFiniteSet(expired)
  OBVIOUS
<1>1. nextID \in Nat
  BY DEF PipeInv, PipeTyped
<1>2. IsFiniteSet(1..nextID)
  BY <1>1, FS_Interval
<1>3. Leftover \in SUBSET (1..nextID) /\ expired \in SUBSET (1..nextID)
  BY DEF PipeInv, FreshIds, Leftover, OnTheWay
<1>. QED BY <1>2, <1>3, FS_Subset

\* An element more or less.
LEMMA Grown ==
  ASSUME NEW S, IsFiniteSet(S), NEW x
  PROVE  /\ IsFiniteSet(S \cup {x}) /\ Cardinality(S) \in Nat /\ Cardinality(S \cup {x}) \in Nat
         /\ Cardinality(S \cup {x}) <= Cardinality(S) + 1
         /\ x \notin S => Cardinality(S \cup {x}) = Cardinality(S) + 1
<1>1. Cardinality(S) \in Nat
  BY FS_CardinalityType
<1>2. /\ IsFiniteSet(S \cup {x})
      /\ Cardinality(S \cup {x}) = IF x \in S THEN Cardinality(S) ELSE Cardinality(S) + 1
  BY FS_AddElement
<1>. QED BY <1>1, <1>2

\* How many responses are left over: none more,
LEMMA NoneMore ==
  ASSUME PipeInv, alive, Leftover' \subseteq Leftover, expired' = expired,
         strays' \in Nat, strays' >= strays
  PROVE  OutOfStepBounded'
<1>1. IsFiniteSet(Leftover) /\ IsFiniteSet(expired)
  BY FewIds
<1>2. Cardinality(Leftover') <= Cardinality(Leftover) /\ Cardinality(Leftover') \in Nat
      /\ Cardinality(Leftover) \in Nat /\ Cardinality(expired) \in Nat
  BY <1>1, FS_Subset, FS_CardinalityType
<1>. QED BY <1>2 DEF PipeInv, PipeTyped, OutOfStepBounded

\* one more for a call that has timed out or a foreign line,
LEMMA OneMore ==
  ASSUME PipeInv, alive, NEW x \in Nat, Leftover' \subseteq Leftover \cup {x},
         \/ expired' = expired /\ strays' = strays + 1
         \/ x \notin expired /\ expired' = expired \cup {x} /\ strays' = strays
  PROVE  OutOfStepBounded'
<1>1. IsFiniteSet(Leftover) /\ IsFiniteSet(expired)
  BY FewIds
<1>2. IsFiniteSet(Leftover \cup {x}) /\ Cardinality(Leftover \cup {x}) <= Cardinality(Leftover) + 1
      /\ Cardinality(Leftover \cup {x}) \in Nat /\ Cardinality(Leftover) \in Nat
  BY <1>1, Grown
<1>3. Cardinality(Leftover') <= Cardinality(Leftover \cup {x}) /\ Cardinality(Leftover') \in Nat
  BY <1>2, FS_Subset, FS_CardinalityType
<1>4. Cardinality(expired) \in Nat
      /\ (x \notin expired => Cardinality(expired \cup {x}) = Cardinality(expired) + 1)
  BY <1>1, Grown
<1>5. CASE expired' = expired /\ strays' = strays + 1
  BY <1>2, <1>3, <1>4, <1>5 DEF PipeInv, PipeTyped, OutOfStepBounded
<1>6. CASE x \notin expired /\ expired' = expired \cup {x} /\ strays' = strays
  <2>1. Cardinality(expired') = Cardinality(expired) + 1
    BY <1>4, <1>6
  <2>. QED BY <1>2, <1>3, <1>4, <1>6, <2>1 DEF PipeInv, PipeTyped, OutOfStepBounded
<1>. QED BY <1>5, <1>6

\* or another one for the one that has been taken.
LEMMA AsMany ==
  ASSUME PipeInv, alive, NEW x \in Nat, NEW y \in Leftover,
         Leftover' \subseteq (Leftover \ {y}) \cup {x}, UNCHANGED historyVars
  PROVE  OutOfStepBounded'
<1>1. IsFiniteSet(Leftover) /\ IsFiniteSet(expired)
  BY FewIds
<1>2. IsFiniteSet(Leftover \ {y}) /\ Cardinality(Leftover \ {y}) = Cardinality(Leftover) - 1
      /\ Cardinality(Leftover \ {y}) \in Nat
  BY <1>1, FS_RemoveElement, FS_CardinalityType
<1>3. DEFINE L == (Leftover \ {y}) \cup {x}
<1>4. IsFiniteSet(L) /\ Cardinality(L) <= Cardinality(Leftover \ {y}) + 1 /\ Cardinality(L) \in Nat
  BY <1>2, Grown
<1>5. Cardinality(Leftover') <= Cardinality(L) /\ Cardinality(Leftover') \in Nat
  BY <1>4, FS_Subset, FS_CardinalityType
<1>6. Cardinality(expired) \in Nat /\ Cardinality(Leftover) \in Nat
  BY <1>1, FS_CardinalityType
<1>. QED BY <1>2, <1>4, <1>5, <1>6 DEF PipeInv, PipeTyped, OutOfStepBounded, historyVars

LEMMA BoundedStep == PipeInv /\ [McpNext]_mcpVars => OutOfStepBounded'
<1>. SUFFICES ASSUME PipeInv, [McpNext]_mcpVars PROVE OutOfStepBounded'
  OBVIOUS
<1>. USE DEF callVars, pipeVars, procVars, historyVars
<1>1. ASSUME ~alive' PROVE OutOfStepBounded'
  BY <1>1 DEF OutOfStepBounded
<1>2. ASSUME UNCHANGED <<callID, pipeVars, readers, alive, historyVars>>,
             \A c \in Caller : callerPc[c] = "receiving" /\ callID[c] \in readers =>
                                 callerPc'[c] = "receiving"
      PROVE  OutOfStepBounded'
  <2>1. Leftover' \subseteq Leftover
    BY <1>2 DEF Leftover, OnTheWay, Awaited
  <2>. QED BY <1>1, <1>2, <2>1, NoneMore DEF PipeInv, PipeTyped
<1>3. ASSUME NEW c \in Caller, StartCall(c) \/ Send(c) PROVE OutOfStepBounded'
  BY <1>2, <1>3 DEF StartCall, Send, PipeInv, PipeTyped
<1>4. ASSUME NEW c \in Caller, LockAndCheck(c) PROVE OutOfStepBounded'
  <2>1. CASE Refuses(c)
    BY <1>2, <2>1 DEF Refuses, PipeInv, PipeTyped
  <2>2. CASE Enters(c)
    <3>1. Leftover' \subseteq Leftover
      BY <2>2 DEF Enters, Leftover, OnTheWay, Awaited, PipeInv, PipeTyped
    <3>. QED BY <1>1, <2>2, <3>1, NoneMore DEF Enters, PipeInv, PipeTyped
  <2>. QED BY <1>4, <2>1, <2>2, CutShort
<1>5. ASSUME NEW c \in Caller, Written(c) PROVE OutOfStepBounded'
  <2>1. Leftover' \subseteq Leftover
    BY <1>5 DEF Written, Leftover, OnTheWay, Awaited, PipeInv, PipeTyped
  <2>. QED BY <1>1, <1>5, <2>1, NoneMore DEF Written, PipeInv, PipeTyped
<1>6. ASSUME NEW c \in Caller, WriteFails(c) PROVE OutOfStepBounded'
  <2>1. Ends(c) /\ callerPc[c] = "writing" /\ expired' = expired
    BY <1>6, EndsAre
  <2>. QED BY <1>2, <2>1 DEF Ends, PipeInv, PipeTyped
<1>7. ASSUME NEW c \in Caller, Receive(c) PROVE OutOfStepBounded'
  <2>1. Ends(c) /\ expired' = expired /\ \E line \in Line : <<callID[c], line>> \in inbox
    BY <1>7, EndsAre
  <2>2. callID[c] \notin readers
    BY <2>1 DEF PipeInv, FreshIds
  <2>. QED BY <1>2, <2>1, <2>2 DEF Ends, PipeInv, PipeTyped
<1>8. ASSUME NEW c \in Caller, Timeout(c) PROVE OutOfStepBounded'
  <2>1. Ends(c) /\ callerPc[c] = "receiving" /\ expired' = expired \cup {callID[c]}
    BY <1>8, EndsAre
  <2>2. callID[c] \in Nat /\ callID[c] \notin expired
    BY <2>1 DEF PipeInv, PipeTyped, FreshIds
  <2>3. Leftover' \subseteq Leftover \cup {callID[c]}
    BY <2>1 DEF Ends, Leftover, OnTheWay, Awaited, PipeInv, PipeTyped
  <2>. QED BY <1>1, <2>1, <2>2, <2>3, OneMore DEF Ends
<1>9. ASSUME OnTheWay' \subseteq OnTheWay,
             UNCHANGED <<callerPc, callID, readers, alive, historyVars>>
      PROVE  OutOfStepBounded'
  <2>1. Leftover' \subseteq Leftover
    BY <1>9 DEF Leftover, Awaited
  <2>. QED BY <1>1, <1>9, <2>1, NoneMore DEF PipeInv, PipeTyped
<1>10. ASSUME NEW id \in Ids, ServerReads(id) PROVE OutOfStepBounded'
  BY <1>9, <1>10 DEF ServerReads, OnTheWay
<1>11. ASSUME NEW id \in Ids, ServerResponds(id) PROVE OutOfStepBounded'
  <2>1. Reply(id) \in Line /\ Reply(id).reply /\ Reply(id).id = id
    BY McpAssumption DEF Reply, Line, Ids
  <2>2. AnsweredBy(toClient') = AnsweredBy(toClient) \cup {id}
    BY <1>11, <2>1, LineAppend DEF ServerResponds, PipeInv, PipeTyped
  <2>3. OnTheWay' \subseteq OnTheWay
    BY <1>11, <2>2 DEF ServerResponds, OnTheWay
  <2>. QED BY <1>9, <1>11, <2>3 DEF ServerResponds
<1>12. ASSUME NEW id \in ForeignId, ServerSpeaks(id) PROVE OutOfStepBounded'
  <2>1. Foreign(id) \in Line /\ ~Foreign(id).reply
    BY McpAssumption DEF Foreign, Line
  <2>2. AnsweredBy(toClient') = AnsweredBy(toClient)
    BY <1>12, <2>1, LineAppend DEF ServerSpeaks, PipeInv, PipeTyped
  <2>3. OnTheWay' \subseteq OnTheWay
    BY <1>12, <2>2 DEF ServerSpeaks, OnTheWay
  <2>. QED BY <1>9, <1>12, <2>3 DEF ServerSpeaks
<1>13. CASE LoseLine
  <2>1. AnsweredBy(toClient') \subseteq AnsweredBy(toClient)
    BY <1>13, LineTail DEF LoseLine, PipeInv, PipeTyped
  <2>2. OnTheWay' \subseteq OnTheWay
    BY <1>13, <2>1 DEF LoseLine, OnTheWay
  <2>. QED BY <1>9, <1>13, <2>2 DEF LoseLine
<1>14. ASSUME NEW r \in Ids, Read(r) PROVE OutOfStepBounded'
  <2>. DEFINE line == Head(toClient)
  <2>1. /\ r \in readers /\ toClient # <<>> /\ toClient' = Tail(toClient) /\ readers' = readers \ {r}
        /\ UNCHANGED <<callerPc, callID, inPipe, inServer, alive, expired>>
        /\ strays' = strays + (IF line.reply THEN 0 ELSE 1)
    BY <1>14 DEF Read
  <2>2. /\ AnsweredBy(toClient') \subseteq AnsweredBy(toClient)
        /\ line.reply => /\ line.id \in AnsweredBy(toClient)
                         /\ line.id \notin AnsweredBy(toClient')
        /\ line \in Line
    BY <2>1, LineTail DEF PipeInv, PipeTyped, Once
  <2>3. OnTheWay' \subseteq OnTheWay /\ Leftover' \subseteq Leftover \cup {r} /\ r \in Nat
    BY <2>1, <2>2 DEF OnTheWay, Leftover, Awaited, Ids
  <2>4. CASE ~line.reply
    <3>1. strays' = strays + 1
      BY <2>1, <2>4
    <3>. QED BY <1>1, <2>1, <2>3, <3>1, OneMore
  <2>5. CASE line.reply
    <3>1. strays' = strays
      BY <2>1, <2>5 DEF PipeInv, PipeTyped
    <3>2. line.id \in OnTheWay /\ line.id \notin OnTheWay'
      BY <2>1, <2>2, <2>5 DEF OnTheWay, PipeInv, Once
    <3>3. CASE r \notin Awaited \/ line.id = r
      <4>1. Leftover' \subseteq Leftover
        BY <2>1, <2>3, <3>2, <3>3 DEF Leftover, Awaited
      <4>. QED BY <1>1, <2>1, <3>1, <4>1, NoneMore DEF PipeInv, PipeTyped
    <3>4. CASE r \in Awaited /\ line.id # r
      <4>1. line.id \notin Awaited
        BY <3>4 DEF Awaited, PipeInv, OneCall
      <4>2. line.id \in Leftover /\ Leftover' \subseteq (Leftover \ {line.id}) \cup {r}
        BY <2>3, <3>2, <4>1 DEF Leftover
      <4>. QED BY <1>1, <2>1, <2>3, <3>1, <4>2, AsMany
    <3>. QED BY <3>3, <3>4
  <2>. QED BY <2>4, <2>5
<1>15. ASSUME NEW r \in Ids, ReadEnds(r) PROVE OutOfStepBounded'
  BY <1>1, <1>15 DEF ReadEnds
<1>16. CASE Close
  BY <1>2, <1>16 DEF Close
<1>17. CASE ServerExits
  BY <1>1, <1>17 DEF ServerExits
<1>18. CASE UNCHANGED mcpVars
  BY <1>2, <1>18 DEF mcpVars
<1>. QED
  BY <1>3, <1>4, <1>5, <1>6, <1>7, <1>8, <1>10, <1>11, <1>12, <1>13, <1>14, <1>15, <1>16, <1>17, <1>18
     DEF McpNext, CallerStep, ReaderStep, ServerStep

(***************************************************************************)
(* As long as no call has timed out and no foreign line was taken for a    *)
(* response, the call that holds the mutex has the only reader, and what   *)
(* is on its way is its own request, or was given up with its pipe.        *)
(***************************************************************************)
Quiet == expired = {} /\ strays = 0

Paired ==
    /\ \A r \in readers : \E c \in Caller : callerPc[c] = "receiving" /\ callID[c] = r
    /\ stdinOpen \/ readers # {} => OnTheWay \subseteq readers
    /\ \A e \in inbox : e[2] = NoLine \/ e[2].id = e[1]
    /\ \A c \in Caller : outcome[c] # "mismatch"

\* The ends of the pipe to the server (client.go:114-127).
PipeEnds == (closed <=> ~stdinOpen) /\ (~alive => inPipe = {} /\ inServer = {})

PairInv ==
    /\ PipeEnds /\ outcome \in [Caller -> {"none", "ok", "error", "mismatch", "timeout"}]
    /\ Quiet => Paired

LEMMA PairInit == McpInit => PairInv
<1>. SUFFICES ASSUME McpInit PROVE PairInv
  OBVIOUS
<1>1. OnTheWay = {}
  BY EmptySeq DEF McpInit, OnTheWay, AnsweredBy
<1>. QED BY <1>1 DEF McpInit, PairInv, PipeEnds, Paired

\* Whoever reads, reads for the call that holds the mutex.
LEMMA OneReader ==
  ASSUME PipeInv, Paired, NEW c \in Caller, Unsent(c) \/ callerPc[c] = "receiving"
  PROVE  readers \subseteq IF Unsent(c) THEN {} ELSE {callID[c]}
BY DEF PipeInv, OneCall, Paired, Unsent

\* A step changes the outcome of a call to one that is no mismatch.
Outcome(c, o) ==
    /\ o \in {"none", "ok", "error", "timeout"} /\ outcome' = [outcome EXCEPT ![c] = o]

LEMMA CallerPaired ==
  ASSUME PipeInv, PairInv, NEW c \in Caller, CallerStep(c), Quiet'
  PROVE  Paired'
<1>. USE DEF callVars, pipeVars, procVars, historyVars
<1>1. expired = {} /\ expired' = {} /\ strays = 0 /\ strays' = 0
  BY DEF Quiet, CallerStep, StartCall, LockAndCheck, EndCall, Send, Written, WriteFails, Receive, Timeout
<1>2. Paired
  BY <1>1 DEF PairInv, Quiet
<1>3. ASSUME UNCHANGED <<callID, pipeVars, readers, inbox, stdinOpen>>,
             \A d \in Caller : callerPc[d] = "receiving" => callerPc'[d] = "receiving",
             UNCHANGED outcome \/ \E o \in {"none", "error"} : Outcome(c, o)
      PROVE  Paired'
  BY <1>2, <1>3 DEF Paired, PairInv, Outcome, OnTheWay
<1>4. CASE StartCall(c) \/ Send(c)
  BY <1>3, <1>4 DEF StartCall, Send, Outcome, PipeInv, PipeTyped
<1>5. CASE LockAndCheck(c)
  <2>1. CASE closed
    BY <1>3, <1>5, <2>1 DEF LockAndCheck, EndCall, Outcome, PipeInv, PipeTyped
  <2>2. CASE ~closed
    <3>1. /\ \A d \in Caller : callerPc[d] = "receiving" => d # c
          /\ UNCHANGED <<outcome, pipeVars, readers, inbox, stdinOpen>>
          /\ callID' = [callID EXCEPT ![c] = nextID + 1]
          /\ callerPc' = [callerPc EXCEPT ![c] = "checked"]
      BY <1>5, <2>2 DEF LockAndCheck
    <3>. QED BY <1>2, <3>1 DEF Paired, OnTheWay, PipeInv, PipeTyped
  <2>. QED BY <2>1, <2>2
<1>6. CASE Written(c)
  <2>1. readers = {} /\ stdinOpen
    BY <1>2, <1>6, OneReader DEF Written, Unsent
  <2>2. OnTheWay = {}
    BY <1>2, <2>1 DEF Paired
  <2>3. OnTheWay' = {callID[c]} /\ readers' = {callID[c]}
    BY <1>6, <2>1, <2>2 DEF Written, OnTheWay
  <2>4. callerPc'[c] = "receiving" /\ callID'[c] = callID[c] /\ UNCHANGED <<outcome, inbox>>
    BY <1>6 DEF Written, PipeInv, PipeTyped
  <2>. QED BY <1>2, <2>3, <2>4 DEF Paired
<1>7. CASE WriteFails(c)
  BY <1>3, <1>7 DEF WriteFails, EndCall, Outcome, PipeInv, PipeTyped
<1>8. CASE Receive(c)
  <2>1. PICK line \in Line : <<callID[c], line>> \in inbox /\ EndCall(c, Verdict(c, line))
    BY <1>8 DEF Receive
  <2>2. line = NoLine \/ line.id = callID[c]
    BY <1>2, <2>1 DEF Paired
  <2>3. Verdict(c, line) \in {"error", "ok"}
    BY <2>2 DEF Verdict
  <2>4. callID[c] \notin readers
    BY <2>1 DEF PipeInv, FreshIds
  <2>5. readers = {}
    BY <1>2, <1>8, <2>4, OneReader DEF Receive, Unsent
  <2>6. \A d \in Caller : outcome'[d] # "mismatch"
    BY <1>2, <2>1, <2>3 DEF EndCall, PairInv, Paired
  <2>7. UNCHANGED <<pipeVars, readers, inbox, stdinOpen>>
    BY <1>8 DEF Receive
  <2>. QED BY <1>2, <2>5, <2>6, <2>7 DEF Paired, OnTheWay
<1>9. CASE Timeout(c)
  BY <1>1, <1>9 DEF Timeout
<1>. QED BY <1>4, <1>5, <1>6, <1>7, <1>8, <1>9 DEF CallerStep

LEMMA ReaderPaired ==
  ASSUME PipeInv, PairInv, NEW r \in Ids, ReaderStep(r), Quiet'
  PROVE  Paired'
<1>. USE DEF callVars, pipeVars, procVars, historyVars
<1>1. expired = {} /\ strays = 0 /\ strays' = 0
  BY DEF Quiet, ReaderStep, Read, ReadEnds, PipeInv, PipeTyped
<1>2. Paired /\ r \in readers
  BY <1>1 DEF PairInv, Quiet, ReaderStep, Read, ReadEnds
<1>3. PICK c \in Caller : callerPc[c] = "receiving" /\ callID[c] = r
  BY <1>2 DEF Paired
<1>4. readers = {r}
  BY <1>2, <1>3, OneReader DEF Unsent
<1>5. readers' = {} /\ UNCHANGED <<outcome, stdinOpen, inPipe, inServer>>
  BY <1>4 DEF ReaderStep, Read, ReadEnds
<1>6. OnTheWay \subseteq {r}
  BY <1>2, <1>4 DEF Paired
<1>7. CASE Read(r)
  <2>. DEFINE line == Head(toClient)
  <2>1. line.reply
    BY <1>1, <1>7 DEF Read
  <2>2. /\ line.id \in AnsweredBy(toClient) /\ line.id \notin AnsweredBy(toClient')
        /\ AnsweredBy(toClient') \subseteq AnsweredBy(toClient)
    BY <1>7, <2>1, LineTail DEF Read, PipeInv, PipeTyped, Once
  <2>3. line.id = r /\ OnTheWay' = {}
    BY <1>5, <1>6, <2>2 DEF OnTheWay, PipeInv, Once
  <2>4. inbox' = inbox \cup {<<r, line>>}
    BY <1>7 DEF Read
  <2>. QED BY <1>2, <1>5, <2>3, <2>4 DEF Paired
<1>8. CASE ReadEnds(r)
  <2>1. inbox' = inbox \cup {<<r, NoLine>>} /\ ~alive /\ (toClient = <<>> \/ closed)
        /\ toClient' = toClient
    BY <1>8 DEF ReadEnds
  <2>2. ASSUME stdinOpen PROVE OnTheWay' = {}
    <3>1. toClient = <<>> /\ inPipe = {} /\ inServer = {}
      BY <2>1, <2>2 DEF PairInv, PipeEnds
    <3>. QED BY <1>5, <2>1, <3>1, EmptySeq DEF OnTheWay, AnsweredBy
  <2>. QED BY <1>2, <1>5, <2>1, <2>2 DEF Paired
<1>. QED BY <1>7, <1>8 DEF ReaderStep

LEMMA PairStep == PipeInv /\ PairInv /\ [McpNext]_mcpVars => PairInv'
<1>. SUFFICES ASSUME PipeInv, PairInv, [McpNext]_mcpVars PROVE PairInv'
  OBVIOUS
<1>. USE DEF callVars, pipeVars, procVars, historyVars
<1>1. PipeEnds'
  <2>. USE DEF PairInv, PipeEnds
  <2>1. ASSUME UNCHANGED procVars, alive \/ UNCHANGED <<inPipe, inServer>> PROVE PipeEnds'
    BY <2>1
  <2>2. ASSUME NEW c \in Caller, CallerStep(c) PROVE PipeEnds'
    BY <2>1, <2>2 DEF CallerStep, StartCall, LockAndCheck, Send, Written, WriteFails, Receive, Timeout
  <2>3. ASSUME NEW r \in Ids, ReaderStep(r) PROVE PipeEnds'
    BY <2>1, <2>3 DEF ReaderStep, Read, ReadEnds
  <2>4. CASE ServerStep
    <3>1. CASE \E id \in Ids : ServerReads(id) \/ ServerResponds(id)
      BY <2>1, <3>1 DEF ServerReads, ServerResponds
    <3>2. CASE \E id \in ForeignId : ServerSpeaks(id)
      BY <2>1, <3>2 DEF ServerSpeaks
    <3>3. CASE ServerExits
      BY <3>3 DEF ServerExits
    <3>. QED BY <2>4, <3>1, <3>2, <3>3 DEF ServerStep
  <2>5. CASE LoseLine \/ UNCHANGED mcpVars
    BY <2>1, <2>5 DEF LoseLine, mcpVars
  <2>6. CASE Close
    BY <2>6 DEF Close
  <2>. QED BY <2>2, <2>3, <2>4, <2>5, <2>6 DEF McpNext
<1>2. outcome' \in [Caller -> {"none", "ok", "error", "mismatch", "timeout"}]
  <2>1. ASSUME NEW c \in Caller, CallerStep(c)
        PROVE  outcome' \in [Caller -> {"none", "ok", "error", "mismatch", "timeout"}]
    BY <2>1 DEF PairInv, CallerStep, StartCall, LockAndCheck, EndCall, Send, Written, WriteFails,
                Receive, Verdict, Timeout
  <2>2. (\E c \in Caller : CallerStep(c)) \/ outcome' = outcome
    BY DEF mcpVars, McpNext, ReaderStep, ServerStep, ServerReads, ServerResponds, ServerSpeaks,
           ServerExits, Read, ReadEnds, LoseLine, Close
  <2>. QED BY <2>1, <2>2 DEF PairInv
<1>3. ASSUME Quiet', OnTheWay' \subseteq OnTheWay, stdinOpen' => stdinOpen,
             UNCHANGED <<callerPc, callID, outcome, readers, inbox, historyVars>>
      PROVE  Paired'
  BY <1>3 DEF PairInv, Quiet, Paired
<1>4. ASSUME Quiet', ServerStep PROVE Paired'
  <2>1. ASSUME NEW id \in Ids, ServerReads(id) PROVE Paired'
    BY <1>3, <1>4, <2>1 DEF ServerReads, OnTheWay
  <2>2. ASSUME NEW id \in Ids, ServerResponds(id) PROVE Paired'
    <3>1. Reply(id) \in Line /\ Reply(id).reply /\ Reply(id).id = id
      BY McpAssumption DEF Reply, Line, Ids
    <3>2. AnsweredBy(toClient') = AnsweredBy(toClient) \cup {id}
      BY <2>2, <3>1, LineAppend DEF ServerResponds, PipeInv, PipeTyped
    <3>3. OnTheWay' \subseteq OnTheWay
      BY <2>2, <3>2 DEF ServerResponds, OnTheWay
    <3>. QED BY <1>3, <1>4, <2>2, <3>3 DEF ServerResponds
  <2>3. ASSUME NEW id \in ForeignId, ServerSpeaks(id) PROVE Paired'
    <3>1. Foreign(id) \in Line /\ ~Foreign(id).reply
      BY McpAssumption DEF Foreign, Line
    <3>2. AnsweredBy(toClient') = AnsweredBy(toClient)
      BY <2>3, <3>1, LineAppend DEF ServerSpeaks, PipeInv, PipeTyped
    <3>3. OnTheWay' \subseteq OnTheWay
      BY <2>3, <3>2 DEF ServerSpeaks, OnTheWay
    <3>. QED BY <1>3, <1>4, <2>3, <3>3 DEF ServerSpeaks
  <2>4. ASSUME ServerExits PROVE Paired'
    BY <1>3, <1>4, <2>4 DEF ServerExits, OnTheWay
  <2>. QED BY <1>4, <2>1, <2>2, <2>3, <2>4 DEF ServerStep
<1>5. ASSUME Quiet', LoseLine PROVE Paired'
  <2>1. AnsweredBy(toClient') \subseteq AnsweredBy(toClient)
    BY <1>5, LineTail DEF LoseLine, PipeInv, PipeTyped
  <2>2. OnTheWay' \subseteq OnTheWay
    BY <1>5, <2>1 DEF LoseLine, OnTheWay
  <2>. QED BY <1>3, <1>5, <2>2 DEF LoseLine
<1>6. ASSUME Quiet', Close \/ UNCHANGED mcpVars PROVE Paired'
  BY <1>3, <1>6 DEF Close, mcpVars, OnTheWay
<1>7. Quiet' => Paired'
  BY <1>4, <1>5, <1>6, CallerPaired, ReaderPaired DEF McpNext
<1>. QED BY <1>1, <1>2, <1>7 DEF PairInv

\* How far client and server get out of step, however readers, server, Close and callers
\* take turns: a call is given the response to another one only after a call has timed out
\* or a foreign line was taken for a response, and each of these leaves at most one response
\* behind for later calls to stumble over (client.go:130-257).
THEOREM CallsStayInStep == McpSpec => []InStep
<1>1. PipeInv /\ [McpNext]_mcpVars => PipeInv'
  BY PipeTypedStep, CallsStep, BoundedStep DEF PipeInv
<1>2. PipeInv /\ PairInv => InStep
  BY DEF PipeInv, PairInv, Quiet, Paired, InStep, PairsKept
<1>. QED BY <1>1, <1>2, PipeInit, PairInit, PairStep, PTL DEF McpSpec

(***************************************************************************)
(* The remote chat session.  The messages that were given to it are the    *)
(* ones the user was told of, and behind them those that are under way.    *)
(***************************************************************************)
Follows(told, rest, given) == given = told \o rest

\* What Follows says of the types,
LEMMA FollowsTyped ==
  ASSUME NEW told \in Seq(Nat), NEW rest \in Seq(Nat), NEW given, Follows(told, rest, given)
  PROVE  given \in Seq(Nat) /\ IsPrefix(told, given)
<1>1. /\ given \in Seq(Nat) /\ Len(given) = Len(told) + Len(rest)
      /\ \A i \in 1..Len(told) + Len(rest) :
            given[i] = IF i <= Len(told) THEN told[i] ELSE rest[i - Len(told)]
  BY ConcatProperties DEF Follows
<1>2. Len(told) \in Nat /\ Len(rest) \in Nat /\ Len(told) <= Len(given)
  BY <1>1, LenProperties
<1>3. \A i \in 1..Len(told) : given[i] = told[i] /\ told[i] \in Nat
  BY <1>1, <1>2, ElementOfSeq
<1>4. SubSeq(told, 1, Len(told)) = SubSeq(given, 1, Len(told))
  <2>1. /\ SubSeq(told, 1, Len(told)) \in Seq(Nat)
        /\ Len(SubSeq(told, 1, Len(told))) = Len(told)
        /\ \A i \in 1..Len(told) : SubSeq(told, 1, Len(told))[i] = told[i]
    BY <1>2, SubSeqFull
  <2>2. \A i \in 1..Len(told) : given[i] \in Nat
    BY <1>3
  <2>3. /\ SubSeq(given, 1, Len(told)) \in Seq(Nat)
        /\ Len(SubSeq(given, 1, Len(told))) = IF 1 <= Len(told) THEN Len(told) - 1 + 1 ELSE 0
        /\ \A i \in 1..Len(told) - 1 + 1 : SubSeq(given, 1, Len(told))[i] = given[1 + i - 1]
    BY <1>2, <2>2, SubSeqProperties
  <2>4. Len(SubSeq(given, 1, Len(told))) = Len(told)
    BY <1>2, <2>3
  <2>5. \A i \in 1..Len(told) : SubSeq(given, 1, Len(told))[i] = told[i]
    BY <1>2, <1>3, <2>3
  <2>. QED BY <2>1, <2>3, <2>4, <2>5, SeqEqual
<1>. QED BY <1>1, <1>2, <1>4 DEF IsPrefix

\* One more message is given: it comes last.
LEMMA FollowsAppend ==
  ASSUME NEW told \in Seq(Nat), NEW rest \in Seq(Nat), NEW given, Follows(told, rest, given),
         NEW n \in Nat
  PROVE  Follows(told, Append(rest, n), Append(given, n))
<1>1. (told \o rest) \o <<n>> = told \o (rest \o <<n>>)
  BY ConcatAssociative
<1>2. Append(rest, n) = rest \o <<n>> /\ Append(given, n) = given \o <<n>>
  BY FollowsTyped, AppendIsConcat
<1>. QED BY <1>1, <1>2, Zenon DEF Follows

\* The first message under way is told of.
LEMMA FollowsTold ==
  ASSUME NEW told \in Seq(Nat), NEW rest \in Seq(Nat), NEW given, NEW n \in Nat,
         Follows(told, <<n>> \o rest, given)
  PROVE  Follows(told \o <<n>>, rest, given)
<1>1. (told \o <<n>>) \o rest = told \o (<<n>> \o rest)
  BY ConcatAssociative
<1>. QED BY <1>1, Zenon DEF Follows

\* and in what order it puts the message being answered.
LEMMA FollowsInTurn ==
  ASSUME NEW told \in Seq(Nat), NEW now \in Seq(Nat), NEW rest \in Seq(Nat), NEW given,
         Follows(told, now \o rest, given)
  PROVE  told \o now \o rest = given
<1>1. Associates(told, now, rest)
  BY ConcatThree
<1>. QED BY <1>1, Zenon DEF Follows, Associates

\* A sequence is its head and its tail.
LEMMA HeadFirst ==
  ASSUME NEW s \in Seq(Nat), s # <<>>
  PROVE  s = <<Head(s)>> \o Tail(s) /\ Head(s) \in Nat /\ Tail(s) \in Seq(Nat)
<1>1. Head(s) \in Nat /\ Tail(s) \in Seq(Nat) /\ Len(Tail(s)) = Len(s) - 1
      /\ \A i \in 1..Len(Tail(s)) : Tail(s)[i] = s[i + 1]
  BY HeadTailProperties
<1>2. Len(s) \in Nat \ {0} /\ Head(s) = s[1]
  BY EmptySeq
<1>3. <<Head(s)>> \in Seq(Nat) /\ Len(<<Head(s)>>) = 1 /\ <<Head(s)>>[1] = Head(s)
  BY <1>1
<1>4. /\ <<Head(s)>> \o Tail(s) \in Seq(Nat) /\ Len(<<Head(s)>> \o Tail(s)) = 1 + Len(Tail(s))
      /\ \A i \in 1..1 + Len(Tail(s)) : (<<Head(s)>> \o Tail(s))[i] =
            IF i <= 1 THEN <<Head(s)>>[i] ELSE Tail(s)[i - 1]
  BY <1>1, <1>3, ConcatProperties
<1>5. Len(s) = Len(<<Head(s)>> \o Tail(s))
  BY <1>1, <1>2, <1>4
<1>6. ASSUME NEW i \in 1..Len(s) PROVE s[i] = (<<Head(s)>> \o Tail(s))[i]
  <2>1. CASE i = 1
    BY <1>2, <1>3, <1>4, <2>1
  <2>2. CASE i # 1
    <3>1. i - 1 \in 1..Len(Tail(s)) /\ i \in 1..1 + Len(Tail(s)) /\ ~(i <= 1)
      BY <1>1, <1>2, <2>2
    <3>2. Tail(s)[i - 1] = s[i - 1 + 1] /\ i - 1 + 1 = i
      BY <1>1, <3>1
    <3>. QED BY <1>4, <3>1, <3>2
  <2>. QED BY <2>1, <2>2
<1>. QED BY <1>1, <1>4, <1>5, <1>6, SeqEqual

\* The message that a turn holds, the first one of a session included.
InTurn ==
    IF sessionPc = "turn" THEN <<turn>>
    ELSE IF sessionPc = "starting" /\ opened THEN <<1>> ELSE <<>>

Running == sessionPc \in {"starting", "turn", "select"}

TalkInv ==
    /\ sessionPc \in {"starting", "turn", "select", "ending", "ended"}
    /\ userSent \in Nat /\ turn \in Nat
    /\ inputs \in Seq(Nat) /\ replies \in Seq(Nat)
    /\ Running => Follows(replies, InTurn \o inputs, delivered)
    /\ ~Running => \E rest \in Seq(Nat) : Follows(replies, rest, delivered)

LEMMA InTurnTyped == TalkInv => InTurn \in Seq(Nat) /\ InTurn \o inputs \in Seq(Nat)
<1>. SUFFICES ASSUME TalkInv PROVE InTurn \in Seq(Nat) /\ InTurn \o inputs \in Seq(Nat)
  OBVIOUS
<1>1. <<turn>> \in Seq(Nat) /\ <<1>> \in Seq(Nat) /\ <<>> \in Seq(Nat)
  BY DEF TalkInv
<1>2. InTurn \in Seq(Nat)
  BY <1>1, Zenon DEF InTurn
<1>. QED BY <1>2, ConcatProperties DEF TalkInv

LEMMA TalkStart == TalkInit => TalkInv
<1>. SUFFICES ASSUME TalkInit PROVE TalkInv
  OBVIOUS
<1>. USE DEF TalkInit
<1>1. delivered = InTurn /\ delivered \in Seq(Nat)
  BY DEF InTurn
<1>2. Follows(replies, InTurn \o inputs, delivered)
  <2>1. InTurn \o <<>> = InTurn /\ <<>> \o InTurn = InTurn
    BY <1>1, ConcatEmptySeq
  <2>. QED BY <1>1, <2>1, Zenon DEF Follows
<1>3. userSent \in Nat /\ inputs \in Seq(Nat) /\ replies \in Seq(Nat)
  BY <1>1, LenProperties
<1>. QED BY <1>2, <1>3 DEF TalkInv, Running

\* A message for the session goes to the end of those under way.
LEMMA InputStep == TalkInv /\ SessionInput => TalkInv'
<1>. SUFFICES ASSUME TalkInv, SessionInput PROVE TalkInv'
  OBVIOUS
<1>1. /\ userSent' \in Nat /\ InTurn' = InTurn /\ Running' = Running
      /\ UNCHANGED <<opened, sessionPc, turn, replies>>
  BY DEF SessionInput, TalkInv, InTurn, Running
<1>2. CASE inputs' = Append(inputs, userSent') /\ delivered' = Append(delivered, userSent')
  <2>1. inputs' \in Seq(Nat)
    BY <1>1, <1>2, AppendProperties DEF TalkInv
  <2>2. ASSUME Running PROVE Follows(replies, InTurn \o inputs', delivered')
    <3>1. InTurn \in Seq(Nat) /\ InTurn \o inputs \in Seq(Nat) /\ inputs \in Seq(Nat)
          /\ replies \in Seq(Nat)
      BY InTurnTyped DEF TalkInv
    <3>2. Append(InTurn \o inputs, userSent') = InTurn \o Append(inputs, userSent')
      <4>1. Follows(InTurn, inputs, InTurn \o inputs)
        BY Zenon DEF Follows
      <4>2. Follows(InTurn, Append(inputs, userSent'), Append(InTurn \o inputs, userSent'))
        BY <1>1, <3>1, <4>1, FollowsAppend
      <4>. QED BY <4>2, Zenon DEF Follows
    <3>3. Follows(replies, InTurn \o inputs, delivered)
      BY <2>2 DEF TalkInv
    <3>4. Follows(replies, Append(InTurn \o inputs, userSent'), Append(delivered, userSent'))
      BY <1>1, <3>1, <3>3, FollowsAppend
    <3>. QED BY <1>2, <3>2, <3>4, Zenon
  <2>3. ASSUME ~Running PROVE \E rest \in Seq(Nat) : Follows(replies, rest, delivered')
    <3>1. PICK rest \in Seq(Nat) : Follows(replies, rest, delivered)
      BY <2>3 DEF TalkInv
    <3>2. Follows(replies, Append(rest, userSent'), Append(delivered, userSent'))
      BY <1>1, <3>1, FollowsAppend DEF TalkInv
    <3>3. Append(rest, userSent') \in Seq(Nat)
      BY <1>1, AppendProperties
    <3>. QED BY <1>2, <3>2, <3>3
  <2>. QED BY <1>1, <2>1, <2>2, <2>3 DEF TalkInv
<1>3. CASE UNCHANGED <<inputs, delivered>>
  BY <1>1, <1>3 DEF TalkInv
<1>. QED BY <1>2, <1>3 DEF SessionInput

\* A turn that is told of; the next one is chosen in the select.
LEMMA TurnTold == TalkInv /\ sessionPc = "turn" /\ EndTurn("select", <<turn>>) => TalkInv'
<1>. SUFFICES ASSUME TalkInv, sessionPc = "turn", EndTurn("select", <<turn>>) PROVE TalkInv'
  OBVIOUS
<1>1. turn \in Nat /\ inputs \in Seq(Nat) /\ replies \in Seq(Nat)
  BY DEF TalkInv
<1>2. Follows(replies, <<turn>> \o inputs, delivered)
  BY Zenon DEF TalkInv, Running, InTurn
<1>3. Follows(replies \o <<turn>>, inputs, delivered)
  BY <1>1, <1>2, FollowsTold
<1>4. <<>> \o inputs = inputs /\ replies \o <<turn>> \in Seq(Nat)
  BY <1>1, ConcatEmptySeq, ConcatProperties
<1>5. /\ sessionPc' = "select" /\ turn' = 0 /\ replies' = replies \o <<turn>>
      /\ UNCHANGED <<opened, inputs, userSent, delivered>>
  BY Zenon DEF EndTurn
<1>6. InTurn' = <<>> /\ Running'
  BY <1>5 DEF InTurn, Running
<1>7. Follows(replies', InTurn' \o inputs', delivered')
  BY <1>3, <1>4, <1>5, <1>6, Zenon
<1>8. userSent' \in Nat /\ inputs' \in Seq(Nat) /\ replies' \in Seq(Nat)
  BY <1>1, <1>4, <1>5 DEF TalkInv
<1>. QED BY <1>5, <1>6, <1>7, <1>8 DEF TalkInv

\* A session that ends leaves what is under way.
LEMMA LeavesRest ==
  ASSUME TalkInv, Running, sessionPc' = "ending", turn' \in Nat,
         replies' = replies, inputs' = inputs, userSent' = userSent, delivered' = delivered
  PROVE  TalkInv'
<1>1. Follows(replies, InTurn \o inputs, delivered) /\ InTurn \o inputs \in Seq(Nat)
  BY InTurnTyped DEF TalkInv
<1>2. ~Running'
  BY DEF Running
<1>3. \E rest \in Seq(Nat) : Follows(replies, rest, delivered)
  BY <1>1
<1>. QED BY <1>2, <1>3 DEF TalkInv

LEMMA TalkKept == TalkInv /\ [TalkNext]_talkVars => TalkInv'
<1>. SUFFICES ASSUME TalkInv, [TalkNext]_talkVars PROVE TalkInv'
  OBVIOUS
<1>1. CASE CancelSession
  BY <1>1 DEF CancelSession, TalkInv, InTurn, Running
<1>2. CASE BeginChat
  <2>1. /\ sessionPc = "starting" /\ sessionPc' \in {"turn", "select"}
        /\ UNCHANGED <<opened, inputs, userSent, delivered, replies>>
    BY <1>2 DEF BeginChat
  <2>2. InTurn' = InTurn /\ Running /\ Running' /\ turn' \in Nat
    BY <1>2 DEF BeginChat, InTurn, Running, TalkInv
  <2>. QED BY <2>1, <2>2 DEF TalkInv
<1>3. CASE ChatFails
  BY <1>3, LeavesRest DEF ChatFails, Running, TalkInv
<1>4. CASE TakeInput
  <2>1. /\ sessionPc = "select" /\ inputs # <<>> /\ sessionPc' = "turn" /\ turn' = Head(inputs)
        /\ inputs' = Tail(inputs) /\ UNCHANGED <<opened, userSent, delivered, replies>>
    BY <1>4 DEF TakeInput
  <2>2. inputs \in Seq(Nat) /\ Follows(replies, <<>> \o inputs, delivered)
    BY <2>1, Zenon DEF TalkInv, Running, InTurn
  <2>3. <<>> \o inputs = inputs
    BY <2>2, ConcatEmptySeq
  <2>4. inputs = <<turn'>> \o inputs' /\ turn' \in Nat /\ inputs' \in Seq(Nat)
    BY <2>1, <2>2, HeadFirst
  <2>5. InTurn' = <<turn'>> /\ Running'
    BY <2>1 DEF InTurn, Running
  <2>6. Follows(replies', InTurn' \o inputs', delivered')
    BY <2>1, <2>2, <2>3, <2>4, <2>5, Zenon
  <2>. QED BY <2>1, <2>4, <2>5, <2>6 DEF TalkInv
<1>5. CASE SelectDone
  BY <1>5, LeavesRest DEF SelectDone, Running, TalkInv
<1>6. CASE TurnAnswers \/ TurnPanics
  BY <1>6, TurnTold DEF TurnAnswers, TurnPanics
<1>7. CASE TurnFails
  <2>1. CASE over
    <3>1. EndTurn("ending", <<>>) /\ sessionPc = "turn"
      BY <1>7, <2>1, Zenon DEF TurnFails
    <3>2. replies \o <<>> = replies
      BY ConcatEmptySeq DEF TalkInv
    <3>. QED BY <3>1, <3>2, LeavesRest DEF EndTurn, Running
  <2>2. CASE ~over
    BY <1>7, <2>2, TurnTold, Zenon DEF TurnFails
  <2>. QED BY <2>1, <2>2
<1>8. CASE ChatEnds
  BY <1>8 DEF ChatEnds, TalkInv, Running
<1>9. CASE UNCHANGED talkVars
  BY <1>9 DEF talkVars, TalkInv, InTurn, Running
<1>. QED
  BY <1>1, <1>2, <1>3, <1>4, <1>5, <1>6, <1>7, <1>8, <1>9, InputStep
     DEF TalkNext, TalkStep, TurnStep

\* The user is told once of every message, in the order they were given to the session;
\* only a session that ends leaves some without an answer (session_handler.go:89-118,
\* 293-317).
THEOREM SessionTells == TalkSpec => []ToldInOrder
<1>1. TalkInv => ToldInOrder
  <2>. SUFFICES ASSUME TalkInv PROVE ToldInOrder
    OBVIOUS
  <2>1. PICK rest \in Seq(Nat) : Follows(replies, rest, delivered)
    BY InTurnTyped DEF TalkInv
  <2>2. IsPrefix(replies, delivered)
    BY <2>1, FollowsTyped DEF TalkInv
  <2>3. ASSUME sessionPc \in {"turn", "select"}
        PROVE  replies \o (IF sessionPc = "turn" THEN <<turn>> ELSE <<>>) \o inputs = delivered
    <3>1. (IF sessionPc = "turn" THEN <<turn>> ELSE <<>>) = InTurn
      BY <2>3 DEF InTurn
    <3>2. Follows(replies, InTurn \o inputs, delivered)
      BY <2>3 DEF TalkInv, Running
    <3>3. replies \in Seq(Nat) /\ InTurn \in Seq(Nat) /\ inputs \in Seq(Nat)
      BY InTurnTyped DEF TalkInv
    <3>. QED BY <3>1, <3>2, <3>3, FollowsInTurn, Zenon
  <2>. QED BY <2>2, <2>3, Zenon DEF ToldInOrder
<1>. QED BY <1>1, TalkStart, TalkKept, PTL DEF TalkSpec

=============================================================================
