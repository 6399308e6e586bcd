------------------------------ MODULE AIClient ------------------------------
(***************************************************************************)
(* FailoverClient.Chat and ChatWithRetry (diagnose/aiclient): one call     *)
(* goes through the models in their order of priority, and for each model  *)
(* through its attempts with a growing back-off in between.  The context   *)
(* of the call may be cancelled, or expire, at any moment, and another     *)
(* goroutine may pin a model.                                              *)
(*                                                                         *)
(* With the gateway enabled the server's client comes first and reads a    *)
(* response in another order than the clients of the models: its body      *)
(* before its status.                                                      *)
(*                                                                         *)
(* Back-offs are counted in multiples of RetryBackoff; the jitter is left  *)
(* out.                                                                    *)
(***************************************************************************)
EXTENDS Integers, Sequences

CONSTANTS
    Models,       \* number of models; they are named by their priority
    MaxRetries,
    MaxBackoff    \* maxBackoff, 30s, in multiples of RetryBackoff

ASSUME ClientAssumption == {Models, MaxRetries, MaxBackoff} \subseteq Nat /\ MaxBackoff > 0

VARIABLES
    pinned,      \* the pinned model, 0 for none
    context,     \* "alive", "cancelled" or "expired"
    callPc,      \* "idle", "attempt", "asking", "waiting" or "end"
    only,        \* the value of pinned the call has read
    model, attempt,
    backoffs,    \* the back-offs of this model
    asked,       \* the requests each model was sent in this call
    viaGateway,  \* model 1 is the server's gateway
    refusal,     \* the model that has answered this call with another status than
                 \* 200, 429 or 5xx, 0 for none
    lateAsks,    \* requests sent after the context was done
    overdue,     \* the context was done when the request or the back-off began
    answer       \* "none", "ok" or the class of the error

clientVars == <<pinned, context, callPc, only, model, attempt, backoffs, asked, viaGateway, refusal,
                lateAsks, overdue, answer>>

Model == 1..Models

\* The status of a response: 200; 429 or 500 to 504; another 5xx; anything else.  Its
\* body: what the client asked for, JSON without it, or not JSON.
Responses ==
    [status : {"ok", "busy", "broken", "refused"}, body : {"data", "json", "other"}]
        \cup {[status |-> "none", body |-> "other"]}   \* no connection, or cut off

Errors == {"busy", "broken", "refused", "network", "cancelled", "expired"}

\* Client.Chat and BedrockClient.Chat: an APIError for every other status than 200.
ReadDirect(r) ==
    CASE r.status = "none"                     -> "network"
      [] r.status \in {"busy", "broken", "refused"} -> r.status
      [] r.status = "ok" /\ r.body = "other"   -> "network"
      [] OTHER                                 -> "ok"

\* ServerClient.Chat: the status counts only when the body is JSON.
ReadGateway(r) ==
    CASE r.body = "other"                      -> "network"
      [] r.body # "other" /\ r.status # "ok"   -> r.status
      [] r.body = "json" /\ r.status = "ok"    -> "network"
      [] OTHER                                 -> "ok"

IsGateway(m) == viaGateway /\ m = 1

\* Fault: the body is read first, as the gateway's client does.
ReadResponseBodyFirst(m, r) == ReadGateway(r)

ReadResponse(m, r) == IF IsGateway(m) THEN ReadGateway(r) ELSE ReadDirect(r)

IsRetryable(e) == e \notin {"broken", "refused", "cancelled"}

shouldFailover(e) == e \notin {"refused", "cancelled"}

ClientInit ==
    /\ pinned = 0 /\ context = "alive" /\ callPc = "idle" /\ only = 0
    /\ model = 0 /\ attempt = 0 /\ backoffs = <<>> /\ asked = [m \in Model |-> 0]
    /\ viaGateway \in BOOLEAN /\ refusal = 0
    /\ lateAsks = 0 /\ overdue = FALSE /\ answer = "none"

PinModel(m) ==
    /\ pinned' = m
    /\ UNCHANGED <<context, callPc, only, model, attempt, backoffs, asked,
                   viaGateway, refusal, lateAsks, overdue, answer>>

ContextEnds(how) ==
    /\ context = "alive" /\ callPc # "idle" /\ context' = how
    /\ UNCHANGED <<pinned, callPc, only, model, attempt, backoffs, asked, viaGateway, refusal,
                   lateAsks, overdue, answer>>

\* Chat reads pinned once.
Chat ==
    /\ callPc = "idle" /\ Models > 0
    /\ only' = pinned /\ model' = (IF pinned = 0 THEN 1 ELSE pinned)
    /\ attempt' = 0 /\ backoffs' = <<>> /\ callPc' = "attempt"
    /\ UNCHANGED <<pinned, context, asked, viaGateway, refusal, lateAsks, overdue, answer>>

\* The next request: its back-off, if there was one, is over.
SendRequest ==
    /\ callPc = "attempt" /\ callPc' = "asking"
    /\ asked' = [asked EXCEPT ![model] = @ + 1]
    /\ lateAsks' = IF context = "alive" THEN lateAsks ELSE lateAsks + 1
    /\ overdue' = (context # "alive")
    /\ UNCHANGED <<pinned, context, only, model, attempt, backoffs, viaGateway, refusal, answer>>

\* The pinned model is the only one; otherwise the next one is tried after an error
\* that shouldFailover accepts.
GiveUp(e) ==
    IF only = 0 /\ shouldFailover(e) /\ model < Models
    THEN /\ callPc' = "attempt" /\ model' = model + 1 /\ attempt' = 0 /\ backoffs' = <<>>
         /\ UNCHANGED <<answer, overdue>>
    ELSE callPc' = "end" /\ answer' = e /\ UNCHANGED <<model, attempt, backoffs, overdue>>

\* Fault: the back-off grows without its limit.
BackoffUncapped(a) == 2 ^ (a - 1)

Backoff(a) == IF 2 ^ (a - 1) > MaxBackoff THEN MaxBackoff ELSE 2 ^ (a - 1)

Fails(e) ==
    IF IsRetryable(e) /\ attempt < MaxRetries
    THEN /\ callPc' = "waiting" /\ attempt' = attempt + 1
         /\ backoffs' = Append(backoffs, Backoff(attempt + 1))
         /\ overdue' = (context # "alive")
         /\ UNCHANGED <<model, answer>>
    ELSE GiveUp(e)

\* A response or an error comes back, also when the context has just ended; a request
\* that began without it has none.
Responds(r) ==
    /\ callPc = "asking" /\ ~overdue
    /\ refusal' = IF r.status = "refused" THEN model ELSE refusal
    /\ LET a == ReadResponse(model, r) IN
       IF a = "ok"
       THEN callPc' = "end" /\ answer' = "ok" /\ UNCHANGED <<model, attempt, backoffs, overdue>>
       ELSE Fails(a)
    /\ UNCHANGED <<pinned, context, only, asked, viaGateway, lateAsks>>

\* The HTTP client gives up with the context's error.
Interrupted ==
    /\ callPc = "asking" /\ context # "alive"
    /\ Fails(context)
    /\ UNCHANGED <<pinned, context, only, asked, viaGateway, refusal, lateAsks>>

\* The timer of the back-off.  A context that ended during the wait may lose against
\* it; one that had ended before cannot.
TimerFired ==
    /\ callPc = "waiting" /\ ~overdue /\ callPc' = "attempt"
    /\ UNCHANGED <<pinned, context, only, model, attempt, backoffs, asked, viaGateway, refusal,
                   lateAsks, overdue, answer>>

WaitInterrupted ==
    /\ callPc = "waiting" /\ context # "alive"
    /\ GiveUp(context)
    /\ UNCHANGED <<pinned, context, only, asked, viaGateway, refusal, lateAsks>>

\* The caller returns; a new call has a new context.
Return ==
    /\ callPc = "end" /\ callPc' = "idle" /\ context' = "alive"
    /\ only' = 0 /\ model' = 0 /\ attempt' = 0 /\ backoffs' = <<>>
    /\ asked' = [m \in Model |-> 0] /\ refusal' = 0
    /\ lateAsks' = 0 /\ overdue' = FALSE /\ answer' = "none"
    /\ UNCHANGED <<pinned, viaGateway>>

ClientNext ==
    \/ \E m \in Model \cup {0} : PinModel(m)
    \/ \E how \in {"cancelled", "expired"} : ContextEnds(how)
    \/ Chat \/ SendRequest \/ (\E r \in Responses : Responds(r)) \/ Interrupted
    \/ TimerFired \/ WaitInterrupted \/ Return

ClientSpec == ClientInit /\ [][ClientNext]_clientVars

-----------------------------------------------------------------------------
(***************************************************************************)
(* Properties.                                                             *)
(***************************************************************************)

\* Type invariant: no back-off beyond the limit.
ClientTypeOK ==
    /\ pinned \in Model \cup {0} /\ only \in Model \cup {0} /\ model \in Model \cup {0}
    /\ context \in {"alive", "cancelled", "expired"}
    /\ callPc \in {"idle", "attempt", "asking", "waiting", "end"}
    /\ attempt \in 0..MaxRetries
    /\ backoffs \in Seq(1..MaxBackoff) /\ Len(backoffs) = attempt
    /\ asked \in [Model -> 0..(MaxRetries + 1)] /\ lateAsks \in Nat /\ overdue \in BOOLEAN
    /\ viaGateway \in BOOLEAN /\ refusal \in Model \cup {0}
    /\ answer \in {"none", "ok"} \cup Errors

\* A cancelled call sends at most one more request, the one whose decision to be sent
\* the cancellation has overtaken, whatever the number of models (failover.go:192-194,
\* retry.go:58-60).
CancelStops == context = "cancelled" => lateAsks <= 1

\* After the deadline every model that is left, the current one included, is asked at
\* most once more, however many retries it has: the deadline is no reason to stop for
\* shouldFailover, but no timer is waited for any more (retry.go:29-33).
ExpiryEnds == context = "expired" => lateAsks <= Models

\* A call answers with the error of a model only when all models of higher priority
\* have been asked and none of lower priority has, and never asks another model than
\* the one that was pinned when it began (failover.go:131-160).
PriorityKept ==
    callPc # "idle" =>
        IF only # 0 THEN \A m \in Model : asked[m] > 0 => m = only
        ELSE \A m \in Model : /\ m < model => asked[m] > 0
                              /\ m > model => asked[m] = 0

\* A call whose context lives ends with an error only when no model is left to try and
\* the last one has failed in all its attempts, or at once in a way that another attempt
\* cannot change (retry.go:20-48, failover.go:147-160).
NotGivenUpEarly ==
    callPc = "end" /\ context = "alive" /\ answer \notin {"ok", "refused"} =>
        /\ only # 0 \/ model = Models
        /\ answer \in {"busy", "network"} => asked[model] = MaxRetries + 1

\* A request that a model's own client has seen refused is not sent again, to it or to
\* another model, and the caller is told so (failover.go:191-203, retry.go:50-65; "4xx
\* do not" at failover.go:193).  It cannot be asked of the gateway: a 4xx page of a proxy
\* in front of it is no JSON, and counts as a network error (server_client.go:90-95).
RefusalFinal ==
    refusal # 0 /\ (~IsGateway(refusal) \/ answer = "refused") =>
        callPc = "end" /\ answer = "refused" /\ model = refusal

\* A call goes through the models in their order, gives none up early, and stops when its
\* context ends or a model refuses it (failover.go:116-150, retry.go:20-65).
FailoverSound ==
    CancelStops /\ ExpiryEnds /\ PriorityKept /\ NotGivenUpEarly /\ RefusalFinal
=============================================================================
