---------------------------- MODULE LimitedQueue ----------------------------
(***************************************************************************)
(* QueueLimited of pkg/safe/queue.go: a queue with a limit that a push     *)
(* tests under one lock and then pushes under another, so that pushers     *)
(* which have passed the test together push over the limit.                *)
(*                                                                         *)
(* The queue is written with its back, the oldest item, first.  An item is *)
(* its pusher and its number among the items of that pusher.               *)
(***************************************************************************)
EXTENDS Integers, Sequences, FiniteSets, SequencesExt

CONSTANTS
    Pusher,
    MaxSize,
    PushSizes,   \* 1 for PushFront, others for PushFrontN
    PopSizes,    \* 1 for PopBack, others for PopBackN
    MaxItems     \* bound: items of a pusher

ASSUME LimitedQueueAssumption ==
    /\ IsFiniteSet(Pusher) /\ IsFiniteSet(PushSizes)
    /\ PushSizes # {} /\ PushSizes \cup PopSizes \subseteq Nat \ {0}
    /\ MaxSize \in Nat \ {0} /\ MaxItems \in Nat

VARIABLES
    items,    \* the linked list
    passed,   \* Pusher -> the items it is about to push after its test, or 0
    given,    \* Pusher -> number of items pushed
    taken     \* the items that have left the list

queueVars == <<items, passed, given, taken>>

LimitInit ==
    /\ items = <<>> /\ taken = <<>>
    /\ passed = [p \in Pusher |-> 0] /\ given = [p \in Pusher |-> 0]

\* Fault: off by one.
TooFull == Len(items) > MaxSize

Full == Len(items) >= MaxSize

\* The test of PushFront and PushFrontN; what they are refused leaves no trace.
TestLimit(p, n) ==
    /\ passed[p] = 0 /\ ~Full /\ given[p] + n <= MaxItems
    /\ passed' = [passed EXCEPT ![p] = n]
    /\ UNCHANGED <<items, given, taken>>

PushFrontN(p) ==
    /\ passed[p] > 0
    /\ items' = items \o [k \in 1..passed[p] |-> <<p, given[p] + k>>]
    /\ given' = [given EXCEPT ![p] = @ + passed[p]]
    /\ passed' = [passed EXCEPT ![p] = 0]
    /\ UNCHANGED taken

\* Fault: the newest items are taken.
PopFrontN(n) ==
    /\ n <= Len(items)
    /\ taken' = taken \o SubSeq(items, Len(items) - n + 1, Len(items))
    /\ items' = SubSeq(items, 1, Len(items) - n)
    /\ UNCHANGED <<passed, given>>

\* PopBackN takes as many as there are; it stands for RemoveAll, too.
PopBackN(n) ==
    /\ n <= Len(items)
    /\ taken' = taken \o SubSeq(items, 1, n)
    /\ items' = SubSeq(items, n + 1, Len(items))
    /\ UNCHANGED <<passed, given>>

\* PopBackAll
PopBackAll == items # <<>> /\ PopBackN(Len(items))

LimitNext ==
    \/ \E p \in Pusher : PushFrontN(p) \/ \E n \in PushSizes : TestLimit(p, n)
    \/ \E n \in PopSizes : PopBackN(n)
    \/ PopBackAll

LimitSpec == LimitInit /\ [][LimitNext]_queueVars

-----------------------------------------------------------------------------
(***************************************************************************)
(* Properties.                                                             *)
(***************************************************************************)
Largest == CHOOSE n \in PushSizes : \A m \in PushSizes : m <= n

\* Type invariant; the list is never longer than what the pushers that pass the test
\* together at the last free place can make of it (queue.go:113-129).
LimitTypeOK ==
    /\ items \in Seq(Pusher \X (1..MaxItems)) /\ taken \in Seq(Pusher \X (1..MaxItems))
    /\ passed \in [Pusher -> PushSizes \cup {0}] /\ given \in [Pusher -> 0..MaxItems]
    /\ Len(items) <= MaxSize - 1 + Cardinality(Pusher) * Largest

\* What has been pushed, in the order it was pushed.
Passage == taken \o items

\* Whoever pushes and pops in between, the items of one pusher leave the queue in the
\* order it pushed them, each once and none lost (queue.go:18-84).
EachInOrder ==
    /\ \A i, j \in DOMAIN Passage :
          i < j /\ Passage[i][1] = Passage[j][1] => Passage[i][2] < Passage[j][2]
    /\ \A p \in Pusher : \A k \in 1..MaxItems :
          k <= given[p] <=> \E i \in DOMAIN Passage : Passage[i] = <<p, k>>
=============================================================================
