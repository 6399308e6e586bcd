---------------------------- MODULE HostIdentity ----------------------------
(***************************************************************************)
(* AgentIP and AgentHostname of config/config.go: what the agent says its  *)
(* address and its name are.  They work alike, each on a label of its own, *)
(* and share a mutex; one of them is modelled.  The label is resolved when *)
(* the configuration is loaded; when it refers to a variable that is not   *)
(* set, the host is asked instead, and the answer is kept for a minute.    *)
(*                                                                         *)
(* Identities are sequences: <<>> is the empty text, <<h>> what the host   *)
(* says of itself, the others stand for the texts of labels.               *)
(***************************************************************************)
EXTENDS Integers, Sequences

CONSTANTS
    Asker,        \* goroutines that ask: inputs, the connection
    Host,         \* names or addresses that the host may have
    RawLabels,    \* the ways in which the label is written that are considered
    HostMoves,    \* the host's name changes, and may be unknown for a time
    TTL,          \* identCacheTTL
    MaxSlow,      \* bound: the time that the host takes to answer
    MaxClock      \* bound: time in a behaviour

\* "var" is ${IP}, "composite" is web-${IP}, and "longer" is $IPADDR, which is set.  What
\* the host says of itself is told apart from the texts of the labels.
ASSUME HostIdentityAssumption ==
    /\ RawLabels \subseteq {"missing", "fixed", "var", "composite", "longer"}
    /\ Host \cap {"fixed", "env", "web", "longer"} = {}
    /\ HostMoves \in BOOLEAN
    /\ TTL \in Nat \ {0} /\ MaxSlow \in Nat /\ MaxClock \in Nat

VARIABLES
    time,
    host,        \* what the host would answer
    lastTrue,    \* history: Host -> when the host last had it
    raw,         \* the label as it is written
    envSet,      \* the variable IP is set
    resolved,    \* the label as it was resolved
    cached,      \* ipCached
    cachedAt,    \* ipCachedAt
    askPc,       \* Asker -> "idle", "waiting" for identMu, "detecting" under it, "told"
    seen,        \* what the host answers the asker under the mutex, <<>> when it fails
    seenAt,      \* history: when
    answer       \* Asker -> [value, age, detected] of the answer it has

hostVars == <<time, host, lastTrue, raw, envSet, resolved, cached, cachedAt, askPc, seen, seenAt, answer>>

\* resolveConfiguredHostIP and resolveConfiguredHostname, with what the host says.
resolveConfigured(detected) ==
    LET variable == IF envSet THEN <<"env">> ELSE detected
    IN  CASE raw = "missing"   -> <<>>
          [] raw = "fixed"     -> <<"fixed">>
          [] raw = "var"       -> variable
          [] raw = "composite" -> <<"web">> \o variable
          [] raw = "longer"    -> <<"longer">>

\* The text of $IP begins a longer name just as well.
needsAutoDetect == raw \in {"var", "composite", "longer"} /\ ~envSet

\* Asking the host; it may fail.
Detections == {<<host>>} \cup (IF HostMoves THEN {<<>>} ELSE {})

NoAnswer == [value |-> <<>>, age |-> 0, detected |-> TRUE]

\* resolveGlobalLabels
HostInit ==
    /\ time = 0 /\ host \in Host
    /\ lastTrue = [h \in Host |-> IF h = host THEN 0 ELSE 0 - (TTL + MaxSlow)]
    /\ raw \in RawLabels /\ envSet \in BOOLEAN
    /\ \E detected \in Detections :
         /\ resolved = resolveConfigured(detected)
         /\ cached = IF needsAutoDetect THEN resolved ELSE <<>>
    /\ cachedAt = IF needsAutoDetect THEN 0 ELSE 0 - TTL
    /\ askPc = [c \in Asker |-> "idle"] /\ seen = <<>> /\ seenAt = 0
    /\ answer = [c \in Asker |-> NoAnswer]

Asked == \E c \in Asker : askPc[c] = "detecting"

Second ==
    /\ time < MaxClock /\ (Asked => time < seenAt + MaxSlow)
    /\ time' = time + 1 /\ lastTrue' = [lastTrue EXCEPT ![host] = time']
    /\ UNCHANGED <<host, raw, envSet, resolved, cached, cachedAt, askPc, seen, seenAt, answer>>

\* The host gets another address or name.
HostChanges ==
    /\ HostMoves /\ host' \in Host \ {host}
    /\ lastTrue' = [lastTrue EXCEPT ![host'] = time]
    /\ UNCHANGED <<time, raw, envSet, resolved, cached, cachedAt, askPc, seen, seenAt, answer>>

-----------------------------------------------------------------------------
Age(value) ==
    LET names == {h \in Host : value = <<h>>}
    IN  IF names = {} THEN 0 ELSE time - lastTrue[CHOOSE h \in names : TRUE]

Tell(c, value, detected) ==
    /\ askPc' = [askPc EXCEPT ![c] = "told"]
    /\ answer' = [answer EXCEPT ![c] = [value |-> value, age |-> Age(value), detected |-> detected]]

\* A label that is not detected is told as it was resolved,
TellLabel(c) ==
    /\ askPc[c] = "idle" /\ ~needsAutoDetect /\ resolved # <<>>
    /\ Tell(c, resolved, FALSE)
    /\ UNCHANGED <<time, host, lastTrue, raw, envSet, resolved, cached, cachedAt, seen, seenAt>>

\* ... and for the others the mutex is taken.
AskHost(c) ==
    /\ askPc[c] = "idle" /\ (needsAutoDetect \/ resolved = <<>>)
    /\ askPc' = [askPc EXCEPT ![c] = "waiting"]
    /\ UNCHANGED <<time, host, lastTrue, raw, envSet, resolved, cached, cachedAt, seen, seenAt, answer>>

\* Fault: a failure is kept like an answer.
FailureKept == time - cachedAt < TTL

CacheHolds == time - cachedAt < TTL /\ cached # <<>>

TellCached(c) ==
    /\ askPc[c] = "waiting" /\ ~Asked /\ CacheHolds
    /\ Tell(c, cached, FALSE)
    /\ UNCHANGED <<time, host, lastTrue, raw, envSet, resolved, cached, cachedAt, seen, seenAt>>

\* DetectIP, under the mutex
Detect(c) ==
    /\ askPc[c] = "waiting" /\ ~Asked /\ ~CacheHolds
    /\ askPc' = [askPc EXCEPT ![c] = "detecting"]
    /\ seen' \in Detections /\ seenAt' = time
    /\ UNCHANGED <<time, host, lastTrue, raw, envSet, resolved, cached, cachedAt, answer>>

TellDetected(c) ==
    /\ askPc[c] = "detecting" /\ Tell(c, seen, TRUE)
    /\ cached' = seen /\ cachedAt' = time /\ seen' = <<>> /\ seenAt' = 0
    /\ UNCHANGED <<time, host, lastTrue, raw, envSet, resolved>>

\* The caller goes on with the answer.
UseAnswer(c) ==
    /\ askPc[c] = "told" /\ askPc' = [askPc EXCEPT ![c] = "idle"]
    /\ answer' = [answer EXCEPT ![c] = NoAnswer]
    /\ UNCHANGED <<time, host, lastTrue, raw, envSet, resolved, cached, cachedAt, seen, seenAt>>

AskSteps(c) ==
    TellLabel(c) \/ AskHost(c) \/ TellCached(c) \/ Detect(c) \/ TellDetected(c)

HostNext ==
    \/ Second \/ HostChanges
    \/ \E c \in Asker : AskSteps(c) \/ UseAnswer(c)

HostSpec == HostInit /\ [][HostNext]_hostVars

-----------------------------------------------------------------------------
(***************************************************************************)
(* Properties.                                                             *)
(***************************************************************************)

\* However askers, changes of the host and failures interleave, an answer that names the
\* host was true less than a minute and one detection ago, no answer is empty unless the
\* host has just failed to answer this very call, and a failure is not kept
\* (config.go:337-345, 351-367, 616-628).
FreshIdentity ==
    \A c \in Asker :
        /\ answer[c].age < TTL + MaxSlow
        /\ answer[c].value = <<>> => answer[c].detected
=============================================================================
