----------------------------- MODULE AlertKeys -----------------------------
(***************************************************************************)
(* The keys of alerts: clean of engine/engine.go puts the identity of the  *)
(* host, as HostIdentity tells it, among the labels of each event, and the *)
(* key of the event is a digest of its labels.  The cache of engine/cache  *)
(* holds the events that fire under their keys.  One check of one instance *)
(* is modelled, all of whose labels but the identity stay the same.        *)
(***************************************************************************)
EXTENDS HostIdentity

CONSTANT Input        \* the asker of Asker that gathers and handles the events of the check

VARIABLES
    firing,     \* the last event of the check was an alert
    records     \* the keys of the check that are cached, by the identity in them

keyVars == <<hostVars, firing, records>>

Init == HostInit /\ firing = FALSE /\ records = {}

\* An alert is cached under its key,
HandleAlert ==
    /\ UseAnswer(Input) /\ firing' = TRUE
    /\ records' = records \cup {answer[Input].value}

\* ... and an Ok event removes what is cached under its own.
HandleRecovery ==
    /\ UseAnswer(Input) /\ firing' = FALSE
    /\ records' = records \ {answer[Input].value}

IdentitySteps ==
    /\ \/ Second \/ HostChanges
       \/ \E c \in Asker : AskSteps(c)
       \/ \E c \in Asker \ {Input} : UseAnswer(c)
    /\ UNCHANGED <<firing, records>>

Next == HandleAlert \/ HandleRecovery \/ IdentitySteps

Spec == Init /\ [][Next]_keyVars

\* The comment at engine/cache.go:9-11: events are never cleaned up, so that a recovery
\* finds the alert it ends however long it has lasted.
RecoveryFindsAlert == ~firing => records = {}
=============================================================================
