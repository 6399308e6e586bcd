----------------------------- MODULE AlertEngine -----------------------------
(***************************************************************************)
(* The alert engine (engine/engine.go, engine/cache.go) with notify.Forward *)
(* and the hand-over to the diagnose aggregator: what happens to the events *)
(* of an alert key from the first that fires to the recovery, an episode.  *)
(*                                                                         *)
(* The events of one key come from one instance, gathered by one goroutine *)
(* at a time; forwarding takes time and may fail for any set of notifiers. *)
(* Keys go through their steps independently, over the shared cache Events *)
(* and the shared set diagnosedKeys.                                       *)
(*                                                                         *)
(* `history' is not in the code: it is what the backends and the           *)
(* aggregator have seen of the current episode.                            *)
(***************************************************************************)
EXTENDS Integers, FiniteSets

CONSTANTS
    Key,              \* alert keys
    Alerting,         \* configurations: see ConfigType
    Notifier,         \* registered notifiers
    MinSeverity,      \* diagnose.min_severity
    DiagnoseEnabled,  \* AI is enabled, and diagnose for the instance
    Aggregator,       \* the diagnose engine is initialized
    NoEvent,
    EngineTime           \* bound: seconds in a behaviour

Severity == {"Info", "Warning", "Critical"}
Rank == [Info |-> 1, Warning |-> 2, Critical |-> 3]

\* ForDuration, RepeatInterval and RepeatNumber may be 0, which switches them off.
ConfigType == [for : Nat, interval : Nat, number : Nat, noRecovery : BOOLEAN]

\* A cached event, with times and the count of sent ones; an event being forwarded.
CacheType == [first : Nat, count : Nat, sent : Nat]
ForwardType == [kind : {"first", "repeat", "recovery"}, severity : Severity,
                time : Nat \ {0}, first : Nat, count : Nat]

ASSUME EngineAssumption ==
    /\ NoEvent \notin CacheType \cup ForwardType
    /\ Alerting \subseteq ConfigType
    /\ MinSeverity \in Severity
    /\ {DiagnoseEnabled, Aggregator} \subseteq BOOLEAN
    /\ EngineTime \in Nat

VARIABLES
    now,         \* the clock, from 1: an event time of 0 means "not set"
    alerting,    \* the configuration of the instance behind each key
    events,      \* the cache: FirstFireTime, NotifyCount, LastSent, or NoEvent
    forwarding,  \* the event a key's goroutine is forwarding, or NoEvent
    diagnosed,   \* diagnosedKeys
    history      \* the current episode of each key

engineVars == <<now, alerting, events, forwarding, diagnosed, history>>

\* No episode: nothing has fired since the last recovery.
Quiet == [first |-> 0, delivered |-> 0, last |-> 0, submits |-> 0, accepted |-> FALSE]

EngineInit ==
    /\ now = 1
    /\ alerting \in [Key -> Alerting]
    /\ events = [k \in Key |-> NoEvent]
    /\ forwarding = [k \in Key |-> NoEvent]
    /\ diagnosed = {}
    /\ history = [k \in Key |-> Quiet]

Tick ==
    /\ now < EngineTime /\ now' = now + 1
    /\ UNCHANGED <<alerting, events, forwarding, diagnosed, history>>

\* The event a key's goroutine forwards: kind "first", "repeat" or "recovery".
Forwarding(kind, severity, first, count) ==
    [kind |-> kind, severity |-> severity, time |-> now, first |-> first, count |-> count]

-----------------------------------------------------------------------------
(***************************************************************************)
(* handleAlertEvent up to notify.Forward                                   *)
(***************************************************************************)

\* A key with no cached event: the event is cached at once, and forwarded unless
\* it has to persist for some time first.
FirstAlert(k, severity) ==
    /\ forwarding[k] = NoEvent /\ events[k] = NoEvent
    /\ events' = [events EXCEPT ![k] = [first |-> now, count |-> 0, sent |-> 0]]
    /\ history' = [history EXCEPT ![k].first = now]
    /\ forwarding' = IF alerting[k].for = 0
                     THEN [forwarding EXCEPT ![k] = Forwarding("first", severity, now, 1)]
                     ELSE forwarding
    /\ UNCHANGED <<now, alerting, diagnosed>>

\* Fault: off by one.
LastsAlmost(k) == alerting[k].for > 0 => now - events[k].first + 1 >= alerting[k].for

\* The alert has lasted for for_duration.
Lasts(k) == alerting[k].for > 0 => now - events[k].first >= alerting[k].for

\* Fault: off by one.
MayRepeatOnce(k) == alerting[k].number > 0 => events[k].count <= alerting[k].number

\* repeat_number is not used up.
MayRepeat(k) == alerting[k].number > 0 => events[k].count < alerting[k].number

\* repeat_interval has passed since the last event that was sent, if any was.
Spaced(k) == alerting[k].interval > 0 => now - events[k].sent >= alerting[k].interval

\* Forwards the event, or drops it when one of the three gates is closed.
LaterAlert(k, severity) ==
    /\ forwarding[k] = NoEvent /\ events[k] # NoEvent
    /\ Lasts(k) /\ MayRepeat(k) /\ Spaced(k)
    /\ forwarding' = [forwarding EXCEPT ![k] =
                        Forwarding("repeat", severity, events[k].first, events[k].count + 1)]
    /\ UNCHANGED <<now, alerting, events, diagnosed, history>>

-----------------------------------------------------------------------------
(***************************************************************************)
(* handleRecoveryEvent                                                     *)
(***************************************************************************)

\* Fault: recovery is announced whether or not the alert was sent.
AnnounceAlways(k) == ~alerting[k].noRecovery

\* Only a recovery of what has been sent is forwarded, and only if wanted.
Announce(k) == ~alerting[k].noRecovery /\ events[k].sent > 0

\* An Ok event: the key can be diagnosed again, and the cached event goes.
Recover(k) ==
    /\ forwarding[k] = NoEvent
    /\ diagnosed' = diagnosed \ {k}
    /\ events' = [events EXCEPT ![k] = NoEvent]
    /\ history' = [history EXCEPT ![k] = Quiet]
    /\ forwarding' = IF events[k] # NoEvent /\ Announce(k)
                     THEN [forwarding EXCEPT ![k] = Forwarding("recovery", "Info", 0, 0)]
                     ELSE forwarding
    /\ UNCHANGED <<now, alerting>>

-----------------------------------------------------------------------------
(***************************************************************************)
(* What follows notify.Forward                                             *)
(***************************************************************************)

\* shouldTrigger: Submit opens or joins a window for the event, or drops it.
Accepts(severity) == DiagnoseEnabled /\ Rank[severity] >= Rank[MinSeverity]

\* Fault: a key is remembered only while Submit takes its events.
TriggersUnlessDropped(k) == Aggregator /\ (k \in diagnosed => ~history[k].accepted)

\* mayTriggerDiagnose: once an episode.
Triggers(k) == Aggregator /\ k \notin diagnosed

\* Fault: the time of the last event sent is lost.
RecordWithoutTime(k, e) ==
    events' = [events EXCEPT ![k] = [first |-> e.first, count |-> e.count, sent |-> 1]]

\* The delivered event is what the cache now holds.
RecordSent(k, e) ==
    events' = [events EXCEPT ![k] = [first |-> e.first, count |-> e.count, sent |-> e.time]]

\* Some notifier took an alert: it becomes the cached event and may start a
\* diagnosis.
Delivered(k, e) ==
    /\ RecordSent(k, e)
    /\ diagnosed' = IF Triggers(k) THEN diagnosed \cup {k} ELSE diagnosed
    /\ history' = [history EXCEPT ![k] =
                     [first |-> @.first, delivered |-> @.delivered + 1, last |-> e.time,
                      submits |-> IF Triggers(k) THEN @.submits + 1 ELSE @.submits,
                      accepted |-> @.accepted \/ (Triggers(k) /\ Accepts(e.severity))]]

\* notify.Forward waits for all notifiers; one that succeeds is enough.  A failed
\* alert leaves the cached event as it was, a recovery is not tried again.
Forward(k, took) ==
    LET e == forwarding[k]
    IN  /\ e # NoEvent
        /\ forwarding' = [forwarding EXCEPT ![k] = NoEvent]
        /\ IF took # {} /\ e.kind # "recovery" THEN Delivered(k, e)
           ELSE UNCHANGED <<events, diagnosed, history>>
        /\ UNCHANGED <<now, alerting>>

EngineNext ==
    \/ Tick
    \/ \E k \in Key :
         \/ \E severity \in Severity : FirstAlert(k, severity) \/ LaterAlert(k, severity)
         \/ Recover(k)
         \/ \E took \in SUBSET Notifier : Forward(k, took)

EngineSpec == EngineInit /\ [][EngineNext]_engineVars

-----------------------------------------------------------------------------
(***************************************************************************)
(* Properties.                                                             *)
(***************************************************************************)
HistoryType == [first : Nat, delivered : Nat, last : Nat, submits : Nat, accepted : BOOLEAN]

\* Type invariant: an event that is forwarded has its time, which the cache needs to
\* tell sent events from others (engine.go:94, 151).
EngineTypeOK ==
    /\ now \in Nat \ {0}
    /\ alerting \in [Key -> ConfigType]
    /\ events \in [Key -> CacheType \cup {NoEvent}]
    /\ forwarding \in [Key -> ForwardType \cup {NoEvent}]
    /\ diagnosed \subseteq Key
    /\ history \in [Key -> HistoryType]

\* Within an episode the backends get at most repeat_number alerts, however many
\* attempts fail in between (engine.go:130).
RepeatLimit ==
    \A k \in Key : alerting[k].number > 0 => history[k].delivered <= alerting[k].number

\* No alert is delivered before its condition has lasted for_duration, counted from
\* the first event of this episode and not of an earlier one (engine.go:105, 124, 140).
NotTooEarly ==
    \A k \in Key : history[k].delivered > 0 =>
        history[k].last - history[k].first >= alerting[k].for

\* Two alerts that are delivered in an episode lie repeat_interval apart, also when
\* attempts between them fail or take long (engine.go:135, 143).
SpacedDelivery ==
    [][\A k \in Key : history[k].delivered \in 1..(history'[k].delivered - 1) =>
          history'[k].last - history[k].last >= alerting[k].interval]_engineVars

\* A recovery is forwarded exactly when an alert of the episode it ends has been
\* delivered and recoveries are wanted (engine.go:94).
RecoveryFollowsAlert ==
    [][\A k \in Key : history[k].first > 0 /\ history'[k] = Quiet =>
          (forwarding'[k] # NoEvent <=> history[k].delivered > 0 /\ ~alerting[k].noRecovery)]_engineVars

\* An episode is submitted for diagnosis at most once, and not before an alert has
\* been delivered (engine.go:59-60, 71-77).
SubmittedOnce ==
    \A k \in Key : history[k].submits <= (IF history[k].delivered > 0 THEN 1 ELSE 0)

\* The comment at engine.go:21: a key in diagnosedKeys has triggered a diagnosis.
DiagnosedWereAccepted == \A k \in diagnosed : history[k].accepted
=============================================================================
