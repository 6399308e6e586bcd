-------------------------- MODULE BoundedAlertQueue --------------------------
(***************************************************************************)
(* What the buffer of server/ringbuf.go promises: a first-in first-out     *)
(* queue of at most Capacity alert events.  A full queue makes room by     *)
(* forgetting its oldest event; draining takes the oldest events, at most  *)
(* as many as asked for.  AlertRing implements this specification,         *)
(* AgentConn uses its operators.                                           *)
(***************************************************************************)
EXTENDS Naturals, Sequences

CONSTANTS Event, Capacity, BatchSize

VARIABLES queue,     \* the events, oldest first
          drained    \* what the last Drain returned

\* The queue after e has been pushed.
Pushed(q, e) == IF Len(q) < Capacity THEN Append(q, e) ELSE Append(Tail(q), e)

\* How many events a Drain(n) takes, which they are, and what it leaves.
DrainCount(q, n) == IF Len(q) < n THEN Len(q) ELSE n
Taken(q, n) == SubSeq(q, 1, DrainCount(q, n))
Left(q, n)  == SubSeq(q, DrainCount(q, n) + 1, Len(q))

Init == queue = <<>> /\ drained = <<>>

Push(e) == queue' = Pushed(queue, e) /\ UNCHANGED drained

Drain(n) == queue' = Left(queue, n) /\ drained' = Taken(queue, n)

Next == (\E e \in Event : Push(e)) \/ (\E n \in BatchSize : Drain(n))

Spec == Init /\ [][Next]_<<queue, drained>>
=============================================================================
