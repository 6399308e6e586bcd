------------------------------ MODULE AlertRing ------------------------------
(***************************************************************************)
(* RingBuffer of server/ringbuf.go: an array of cap slots, the next write  *)
(* position head and the number of events count.  The oldest event is      *)
(* count slots behind head, modulo the capacity.  Each method holds the    *)
(* mutex throughout, so it is one step.                                    *)
(***************************************************************************)
EXTENDS Integers, Sequences

CONSTANTS
    Event,      \* pointers to events
    Nil,        \* the nil pointer of an empty slot
    Capacity,   \* r.cap
    BatchSize   \* the arguments Drain is called with

ASSUME RingAssumption ==
    /\ Capacity \in Nat \ {0}
    /\ Nil \notin Event
    /\ BatchSize \subseteq Nat

VARIABLES buf, head, count,
          drained    \* the slice the last Drain returned, nil as <<>>

ringVars == <<buf, head, count, drained>>

Slot == 0..(Capacity - 1)

\* NewRingBuffer
RingInit ==
    /\ buf = [i \in Slot |-> Nil]
    /\ head = 0
    /\ count = 0
    /\ drained = <<>>

\* The counter stops at the capacity: from then on the oldest is overwritten.
CountUp(n) == IF n < Capacity THEN n + 1 ELSE n

Push(e) ==
    /\ buf' = [buf EXCEPT ![head] = e]
    /\ head' = (head + 1) % Capacity
    /\ count' = CountUp(count)
    /\ UNCHANGED drained

\* Fault: the order of a stack.
Newest(i) == (head - 1 - i + Capacity) % Capacity

\* The slot of the i-th oldest event, i from 0.
SlotOf(i) == (((head - count + Capacity) % Capacity) + i) % Capacity

Drain(n) ==
    LET m == IF count > n THEN n ELSE count
        slots == {SlotOf(i) : i \in 0..(m - 1)}
    IN  /\ drained' = [i \in 1..m |-> buf[SlotOf(i - 1)]]
        /\ buf' = [s \in Slot |-> IF s \in slots THEN Nil ELSE buf[s]]
        /\ count' = count - m
        /\ UNCHANGED head

RingNext == (\E e \in Event : Push(e)) \/ (\E n \in BatchSize : Drain(n))

RingSpec == RingInit /\ [][RingNext]_ringVars

-----------------------------------------------------------------------------
\* Type invariant: the indices stay within the array.
RingTypeOK ==
    /\ buf \in [Slot -> Event \cup {Nil}]
    /\ head \in Slot
    /\ count \in 0..Capacity
    /\ drained \in Seq(Event)

\* The slots between the oldest event and head hold events, and all the others
\* are nil: a Drain never returns a nil event (which flushAlertEvents, conn.go:374,
\* would dereference), and a drained event is not kept alive (ringbuf.go:62).
SlotsMatchCount ==
    \A s \in Slot : buf[s] # Nil <=> \E i \in 0..(count - 1) : s = SlotOf(i)

\* The array, head and count implement the bounded queue that forgets its oldest
\* event, and Drain returns what the queue says (ringbuf.go:30-66).
Contents == [i \in 1..count |-> buf[SlotOf(i - 1)]]
Queue == INSTANCE BoundedAlertQueue WITH queue <- Contents
QueueSpec == Queue!Spec
=============================================================================
