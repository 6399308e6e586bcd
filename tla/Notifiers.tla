------------------------------ MODULE Notifiers ------------------------------
(***************************************************************************)
(* notify.Forward with the notifiers that send requests (flashduty.go,     *)
(* pagerduty.go, webapi.go): one event goes to all of them at a time, each *)
(* repeats its request as long as another attempt may help, and the event  *)
(* counts as forwarded when one of them says so.                           *)
(*                                                                         *)
(* An event that cannot be encoded and a request that cannot be built, for *)
(* an address or a method that makes no sense, end a notifier's work       *)
(* before anything leaves.                                                 *)
(*                                                                         *)
(* A service takes an event and answers, or the answer is lost on the way. *)
(* A request that is given up is no longer on the way.  The engine         *)
(* forwards one event after the other; counts are those of the last one.   *)
(***************************************************************************)
EXTENDS Integers

CONSTANTS
    Registered,      \* of "flashduty", "pagerduty", "webapi"
    MaxAttempts      \* max_retries + 1

ASSUME NotifiersAssumption ==
    /\ Registered \subseteq {"flashduty", "pagerduty", "webapi"}
    /\ MaxAttempts \in Nat \ {0}

VARIABLES
    sender,      \* Registered -> "idle", "posting", "sleeping" or "done"
    attempts,    \* Registered -> attempts made for this event
    said,        \* Registered -> the result of its Forward
    refused,     \* the notifiers that were told no at the last attempt
    unbuilt,     \* the notifiers that had no request to send
    unanswered,  \* Registered -> attempts for this event that had no answer
    copies,      \* Registered -> how often its service has taken this event
    forwarded    \* the result of Forward: "none" yet, "open", "yes" or "no"

notifyVars == <<sender, attempts, said, refused, unbuilt, unanswered, copies, forwarded>>

\* The answers: their status, and that there is none that could be read.
Status == {200, 202, 400, 429, 500}

\* external: a service takes what it answers so; PagerDuty answers with 202.
Takes(n, s) == IF n = "pagerduty" THEN s = 202 ELSE s \in {200, 202}

NotifyInit ==
    /\ forwarded = "none"
    /\ sender = [n \in Registered |-> "idle"] /\ attempts = [n \in Registered |-> 0]
    /\ said = [n \in Registered |-> FALSE] /\ refused = {} /\ unbuilt = {}
    /\ unanswered = [n \in Registered |-> 0] /\ copies = [n \in Registered |-> 0]

\* Forward: every notifier gets the event.  Without any it is dropped.
ForwardAll ==
    /\ forwarded # "open" /\ forwarded' = "open"
    /\ sender' = [n \in Registered |-> "posting"] /\ attempts' = [n \in Registered |-> 1]
    /\ said' = [n \in Registered |-> FALSE] /\ refused' = {} /\ unbuilt' = {}
    /\ unanswered' = [n \in Registered |-> 0] /\ copies' = [n \in Registered |-> 0]

\* Fault: PagerDuty, too, may answer with any success.
AcceptedLoosely(n, s) == s < 300

\* doPost of pagerduty.go, flashduty.go and doRequest of webapi.go: the first result.
Accepted(n, s) ==
    IF n = "pagerduty" THEN s = 202 ELSE IF n = "flashduty" THEN s < 400 ELSE s \in 200..299

\* The second one: another attempt may help.
Retryable(n, s) == s >= 500 \/ (n # "flashduty" /\ s = 429)

MoreAttempts(n) == attempts[n] < MaxAttempts

Finish(n, ok) ==
    /\ sender' = [sender EXCEPT ![n] = "done"]
    /\ said' = [said EXCEPT ![n] = ok]

\* After an attempt that failed in a way that another may not.
TryAgain(n) ==
    IF MoreAttempts(n) THEN sender' = [sender EXCEPT ![n] = "sleeping"] /\ UNCHANGED said
    ELSE Finish(n, FALSE)

\* The service takes the event or does not.
Reaches(n, takes) == copies' = IF takes THEN [copies EXCEPT ![n] = @ + 1] ELSE copies

\* json.Marshal or http.NewRequest fails, at the first attempt or never: the event,
\* the address and the method are the same at each.
CannotBuild(n) ==
    /\ sender[n] = "posting" /\ attempts[n] = 1
    /\ Finish(n, FALSE) /\ unbuilt' = unbuilt \cup {n}
    /\ UNCHANGED <<attempts, refused, unanswered, copies, forwarded>>

Answered(n, s) ==
    /\ sender[n] = "posting"
    /\ Reaches(n, Takes(n, s))
    /\ IF Accepted(n, s) THEN Finish(n, TRUE) /\ UNCHANGED refused
       ELSE IF Retryable(n, s) THEN TryAgain(n) /\ UNCHANGED refused
       ELSE Finish(n, FALSE) /\ refused' = refused \cup {n}
    /\ UNCHANGED <<attempts, unbuilt, unanswered, forwarded>>

\* No connection, a timeout, an answer that breaks off.
Unanswered(n) ==
    /\ sender[n] = "posting"
    /\ \E takes \in BOOLEAN : Reaches(n, takes)
    /\ TryAgain(n)
    /\ unanswered' = [unanswered EXCEPT ![n] = @ + 1]
    /\ UNCHANGED <<attempts, refused, unbuilt, forwarded>>

Retry(n) ==
    /\ sender[n] = "sleeping"
    /\ sender' = [sender EXCEPT ![n] = "posting"]
    /\ attempts' = [attempts EXCEPT ![n] = @ + 1]
    /\ UNCHANGED <<said, refused, unbuilt, unanswered, copies, forwarded>>

\* wg.Wait
AllDone == \A n \in Registered : sender[n] = "done"

ForwardReturns ==
    /\ forwarded = "open" /\ AllDone
    /\ forwarded' = IF \E n \in Registered : said[n] THEN "yes" ELSE "no"
    /\ sender' = [n \in Registered |-> IF sender[n] = "done" THEN "idle" ELSE sender[n]]
    /\ UNCHANGED <<attempts, said, refused, unbuilt, unanswered, copies>>

NotifyNext ==
    \/ ForwardAll \/ ForwardReturns
    \/ \E n \in Registered :
          \/ CannotBuild(n) \/ Unanswered(n) \/ Retry(n)
          \/ \E s \in Status : Answered(n, s)

NotifySpec == NotifyInit /\ [][NotifyNext]_notifyVars

-----------------------------------------------------------------------------
(***************************************************************************)
(* Properties.                                                             *)
(***************************************************************************)
\* Type invariant; no notifier is busy when Forward has returned.
NotifyTypeOK ==
    /\ forwarded \in {"none", "open", "yes", "no"}
    /\ sender \in [Registered -> {"idle", "posting", "sleeping", "done"}]
    /\ attempts \in [Registered -> 0..MaxAttempts]
    /\ said \in [Registered -> BOOLEAN] /\ refused \subseteq Registered
    /\ unbuilt \subseteq Registered
    /\ unanswered \in [Registered -> 0..MaxAttempts]
    /\ copies \in [Registered -> 0..MaxAttempts]
    /\ forwarded # "open" => \A n \in Registered : sender[n] = "idle"

\* An event that counts as forwarded has been taken by some service, whatever the others
\* answered and in whatever order they ended (notify.go:33-49).
ForwardedIsTaken == forwarded = "yes" => \E n \in Registered : copies[n] > 0

\* An event that does not count as forwarded was refused by every service, tried as
\* often as allowed, or no request could be made of it; then nothing has left, and the
\* other notifiers have worked on all the same (flashduty.go:35-62, 102-108).
NotForwardedWasTried ==
    /\ forwarded = "no" => \A n \in Registered :
          n \in refused \cup unbuilt \/ attempts[n] = MaxAttempts
    /\ \A n \in unbuilt : copies[n] = 0 /\ unanswered[n] = 0

\* A service gets an event more than once only when answers to it were lost: with
\* every answer that arrives the attempts end, or the event was not taken
\* (flashduty.go:50-56).
CopiesByLostAnswers == \A n \in Registered : copies[n] <= unanswered[n] + 1

\* What Forward returns, and how often a service has the event, is the truth about what
\* was answered, refused and lost, in whatever order the notifiers end (notify.go:22-50).
ForwardTruthful == ForwardedIsTaken /\ NotForwardedWasTried /\ CopiesByLostAnswers
=============================================================================
