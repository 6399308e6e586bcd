---------------------------- MODULE LossyChannel ----------------------------
(***************************************************************************)
(* What the agent promises of its alert events, over all connections to    *)
(* the server: events wait in a bounded queue, are carried by a connection *)
(* and received in the order in which they were raised.  The full queue    *)
(* forgets its oldest; a connection that ends may lose anything it still   *)
(* carries, or bring it there; while it lasts nothing is lost.             *)
(***************************************************************************)
EXTENDS Integers, Sequences

CONSTANT WaitingLimit    \* positive

VARIABLES
    raised,      \* the events are 1, ..., raised
    waiting, carried, received,
    connected

channelVars == <<raised, waiting, carried, received, connected>>

Init ==
    /\ raised = 0 /\ waiting = <<>> /\ carried = <<>> /\ received = <<>>
    /\ connected = FALSE

First(s, n) == SubSeq(s, 1, n)
Rest(s, n)  == SubSeq(s, n + 1, Len(s))

Raise ==
    /\ raised' = raised + 1
    /\ waiting' = IF Len(waiting) < WaitingLimit THEN Append(waiting, raised')
                  ELSE Append(Tail(waiting), raised')
    /\ UNCHANGED <<carried, received, connected>>

Carry ==
    /\ \E n \in 1..Len(waiting) :
         carried' = carried \o First(waiting, n) /\ waiting' = Rest(waiting, n)
    /\ UNCHANGED <<raised, received, connected>>

Deliver ==
    /\ \E n \in 1..Len(carried) :
         received' = received \o First(carried, n) /\ carried' = Rest(carried, n)
    /\ UNCHANGED <<raised, waiting, connected>>

\* The connection ends, or has ended: a part from anywhere is lost.
Lose ==
    /\ connected' = FALSE
    /\ \E n, m \in 0..Len(carried) : n <= m /\ carried' = First(carried, n) \o Rest(carried, m)
    /\ UNCHANGED <<raised, waiting, received>>

\* It ends while an event is brought to the server.
DeliverLast ==
    /\ connected' = FALSE
    /\ \E n \in 1..Len(carried) :
         received' = received \o First(carried, n) /\ carried' = Rest(carried, n)
    /\ UNCHANGED <<raised, waiting>>

\* A new connection carries nothing of an old one.
Reconnect ==
    /\ connected' = TRUE /\ carried' = <<>>
    /\ ~connected
    /\ UNCHANGED <<raised, waiting, received>>

Next == Raise \/ Carry \/ Deliver \/ Lose \/ DeliverLast \/ Reconnect

Spec == Init /\ [][Next]_channelVars

\* What has been received is older than what is carried, and that is older than what
\* waits; nothing is received twice.
InOrder ==
    LET journey == received \o carried \o waiting
    IN  \A i, j \in DOMAIN journey : i < j => journey[i] < journey[j]
=============================================================================
