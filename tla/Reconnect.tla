------------------------------ MODULE Reconnect ------------------------------
(***************************************************************************)
(* How long RunForever (server/conn.go) waits between connections: the     *)
(* back-off of nextReconnectState over the ways in which Run can end.      *)
(*                                                                         *)
(* Durations are in seconds.  The jitter is modelled by its extremes, in   *)
(* quarters of a second.                                                   *)
(***************************************************************************)
EXTENDS Integers

CONSTANTS
    NormalMin, NormalMax,   \* 1s and 300s in the code
    AuthMin, AuthMax,       \* 60s and 1800s in the code
    RetryAfter              \* what a server may ask for in a disconnect

ASSUME BackoffAssumption ==
    /\ {NormalMin, NormalMax, AuthMin, AuthMax} \subseteq Nat \ {0}
    /\ NormalMin <= AuthMin /\ AuthMin <= NormalMax /\ NormalMax <= AuthMax
    /\ RetryAfter \subseteq Nat \ {0}

VARIABLES
    phase,     \* "running", "waiting" or "stopped"
    ending,    \* how the last Run ended: see Outcome
    backoff,   \* for the next call of nextReconnectState
    wait,      \* what it returned last
    sleep      \* the wait with its jitter, in quarters

paceVars == <<phase, ending, backoff, wait, sleep>>

\* A disconnect the server asked for, a rejected token, a connection that had been
\* registered and was lost, and what goes wrong before: dial, register, ack.
Outcome == {"disconnect", "auth", "lost", "dial"}
Failure == {"auth", "dial"}

PaceInit ==
    /\ phase = "running" /\ ending = "none"
    /\ backoff = NormalMin /\ wait = 0 /\ sleep = 0

Twice(d)  == 2 * d
Jitter(d) == {3 * d, 5 * d}     \* +-25%, in quarters

clampBackoff(d, min, max) == IF d < min THEN min ELSE IF d > max THEN max ELSE d

AuthBackoff(b) == IF b < AuthMin THEN AuthMin ELSE b

\* Fault: every failure starts from the beginning.
AlwaysReset(e) == NormalMin

\* Only a lost connection resets the back-off.
LastBackoff(e) == IF e = "lost" THEN NormalMin ELSE backoff

\* nextReconnectState: the wait and the next back-off.
nextReconnectState(e) ==
    \/ /\ e = "disconnect"
       /\ \E r \in RetryAfter : wait' = IF r < NormalMin THEN NormalMin ELSE r
       /\ backoff' = NormalMin
    \/ /\ e = "auth"
       /\ wait' = AuthBackoff(backoff)
       /\ backoff' = clampBackoff(Twice(AuthBackoff(backoff)), AuthMin, AuthMax)
    \/ /\ e \in {"lost", "dial"}
       /\ wait' = LastBackoff(e)
       /\ backoff' = clampBackoff(Twice(LastBackoff(e)), NormalMin, NormalMax)

\* Run returns while the context is alive.
RunEnds(e) ==
    /\ phase = "running" /\ phase' = "waiting" /\ ending' = e
    /\ nextReconnectState(e)
    /\ sleep' \in Jitter(wait')

\* Back to Run, or out of the loop.
Wake ==
    /\ phase = "waiting" /\ phase' = "running"
    /\ UNCHANGED <<ending, backoff, wait, sleep>>

Cancelled ==
    /\ phase # "stopped" /\ phase' = "stopped"
    /\ UNCHANGED <<ending, backoff, wait, sleep>>

PaceNext == (\E e \in Outcome : RunEnds(e)) \/ Wake \/ Cancelled

PaceSpec == PaceInit /\ [][PaceNext]_paceVars

-----------------------------------------------------------------------------
(***************************************************************************)
(* Properties.                                                             *)
(***************************************************************************)

\* Type invariant: the back-off keeps within its outer limits, so that doubling it
\* never runs away.
PaceTypeOK ==
    /\ phase \in {"running", "waiting", "stopped"}
    /\ ending \in Outcome \cup {"none"}
    /\ backoff \in NormalMin..AuthMax
    /\ wait \in Nat /\ sleep \in Jitter(wait)

\* A rejected token is never tried again sooner than AuthMin later, less the jitter,
\* whatever failed before it, and never later than AuthMax (conn.go:202, 524-529).
AuthPace == ending = "auth" => sleep \in (3 * AuthMin)..(5 * AuthMax)

\* While the server cannot be reached or refuses, the waits grow until they have
\* reached NormalMax, in whatever order the two kinds of failure come (conn.go:524-540).
NeverHastier ==
    [][phase = "running" /\ phase' = "waiting" /\ {ending, ending'} \subseteq Failure =>
          wait' >= Twice(wait) \/ wait' >= NormalMax]_paceVars
=============================================================================
