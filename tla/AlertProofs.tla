---------------------------- MODULE AlertProofs ----------------------------
(***************************************************************************)
(* Proofs about the alerts: AlertRing, for every capacity and every kind   *)
(* of event, and AlertEngine, for any set of keys, configurations and      *)
(* notifiers, and any time.                                                *)
(***************************************************************************)
EXTENDS AlertRing, AlertEngine, SequenceTheorems, TLAPS

(***************************************************************************)
(* The ring.  All index computations go through At, the slot i places      *)
(* behind the oldest of c events when h is the next write position.        *)
(* AtProperties says what the proofs need of it: it stays in the array,    *)
(* different places are different slots, and every slot is some place.     *)
(***************************************************************************)
At(h, c, i) == (((h - c + Capacity) % Capacity) + i) % Capacity

\* The remainder of a number below twice the divisor: what indexing modulo the
\* capacity (ringbuf.go:35, 58, 60) comes down to.
LEMMA ModOnce ==
    ASSUME NEW m \in Nat \ {0}, NEW x \in 0..(2 * m - 1)
    PROVE  x % m = IF x < m THEN x ELSE x - m
<1>1. CASE x < m
  BY <1>1
<1>2. CASE x >= m
  <2>1. x - m \in 0..(m - 1) /\ x = m + (x - m)
    BY <1>2
  <2>. QED BY <1>2, <2>1
<1>. QED BY <1>1, <1>2

\* The slot without the remainders.
LEMMA AtValue ==
    \A h \in Slot, c \in 0..Capacity, i \in Slot :
        At(h, c, i) = IF h - c + i < 0 THEN h - c + i + Capacity
                      ELSE IF h - c + i < Capacity THEN h - c + i
                      ELSE h - c + i - Capacity
<1>. SUFFICES ASSUME NEW h \in Slot, NEW c \in 0..Capacity, NEW i \in Slot
              PROVE  At(h, c, i) = IF h - c + i < 0 THEN h - c + i + Capacity
                                   ELSE IF h - c + i < Capacity THEN h - c + i
                                   ELSE h - c + i - Capacity
  OBVIOUS
<1>1. Capacity \in Nat \ {0}
  BY RingAssumption
<1>. DEFINE x == h - c + Capacity
            t == x % Capacity
            y == t + i
<1>2. x \in 0..(2 * Capacity - 1)
  BY <1>1 DEF Slot
<1>3. t = IF x < Capacity THEN x ELSE x - Capacity
  <2>. HIDE DEF x
  <2>. QED BY <1>1, <1>2, ModOnce
<1>4. y \in 0..(2 * Capacity - 1)
  <2>. HIDE DEF t
  <2>. QED BY <1>1, <1>2, <1>3 DEF Slot
<1>5. y % Capacity = IF y < Capacity THEN y ELSE y - Capacity
  <2>. HIDE DEF y
  <2>. QED BY <1>1, <1>4, ModOnce
<1>6. At(h, c, i) = y % Capacity
  BY DEF At
<1>. HIDE DEF t
<1>. QED BY <1>1, <1>3, <1>5, <1>6 DEF Slot

\* Places and slots correspond one to one.
LEMMA AtProperties ==
    ASSUME NEW h \in Slot, NEW c \in 0..Capacity
    PROVE  /\ \A i \in Slot : At(h, c, i) \in Slot
           /\ \A i, j \in Slot : At(h, c, i) = At(h, c, j) => i = j
           /\ \A s \in Slot : \E i \in Slot : At(h, c, i) = s
<1>. USE RingAssumption DEF Slot
<1>1. \A i \in Slot : At(h, c, i) \in Slot
  BY AtValue
<1>2. \A i, j \in Slot : At(h, c, i) = At(h, c, j) => i = j
  BY AtValue
<1>3. ASSUME NEW s \in Slot PROVE \E i \in Slot : At(h, c, i) = s
  <2>. DEFINE i == IF s - h + c < 0 THEN s - h + c + Capacity
                   ELSE IF s - h + c < Capacity THEN s - h + c
                   ELSE s - h + c - Capacity
  <2>1. i \in Slot
    OBVIOUS
  <2>2. At(h, c, i) = s
    BY <2>1, AtValue
  <2>. QED BY <2>1, <2>2
<1>. QED BY <1>1, <1>2, <1>3

\* A push moves head by one: the places of the old events stay, or shift by one
\* when the buffer was full, and the new event is in the last place.
LEMMA AtAfterPush ==
    ASSUME NEW h \in Slot, NEW c \in 0..Capacity
    PROVE  /\ (h + 1) % Capacity \in Slot
           /\ c < Capacity =>
                /\ \A i \in Slot : At((h + 1) % Capacity, c + 1, i) = At(h, c, i)
                /\ At(h, c, c) = h
           /\ c = Capacity =>
                /\ \A i \in 0..(Capacity - 2) :
                      At((h + 1) % Capacity, c, i) = At(h, c, i + 1)
                /\ At((h + 1) % Capacity, c, Capacity - 1) = h
                /\ At(h, c, 0) = h
<1>. USE RingAssumption
<1>. DEFINE g == (h + 1) % Capacity
<1>1. g = IF h + 1 < Capacity THEN h + 1 ELSE 0
  <2>. DEFINE x == h + 1
  <2>1. Capacity \in Nat \ {0} /\ x \in 0..(2 * Capacity - 1)
    BY DEF Slot
  <2>2. x % Capacity = IF x < Capacity THEN x ELSE x - Capacity
    <3>. HIDE DEF x
    <3>. QED BY <2>1, ModOnce
  <2>. QED BY <2>2 DEF Slot
<1>2. g \in Slot
  BY <1>1 DEF Slot
<1>3. ASSUME c < Capacity
      PROVE  /\ \A i \in Slot : At(g, c + 1, i) = At(h, c, i)
             /\ At(h, c, c) = h
  <2>. HIDE DEF g
  <2>1. ASSUME NEW i \in Slot PROVE At(g, c + 1, i) = At(h, c, i)
    <3>1. c + 1 \in 0..Capacity
      BY <1>3
    <3>2. At(h, c, i) = IF h - c + i < 0 THEN h - c + i + Capacity
                        ELSE IF h - c + i < Capacity THEN h - c + i
                        ELSE h - c + i - Capacity
      BY AtValue
    <3>3. At(g, c + 1, i) = IF g - (c + 1) + i < 0 THEN g - (c + 1) + i + Capacity
                            ELSE IF g - (c + 1) + i < Capacity THEN g - (c + 1) + i
                            ELSE g - (c + 1) + i - Capacity
      BY <1>2, <3>1, AtValue
    <3>. QED BY <1>1, <1>3, <3>2, <3>3 DEF Slot
  <2>2. At(h, c, c) = h
    BY <1>3, AtValue DEF Slot
  <2>. QED BY <2>1, <2>2
<1>4. ASSUME c = Capacity
      PROVE  /\ \A i \in 0..(Capacity - 2) : At(g, c, i) = At(h, c, i + 1)
             /\ At(g, c, Capacity - 1) = h
             /\ At(h, c, 0) = h
  <2>. HIDE DEF g
  <2>1. ASSUME NEW i \in 0..(Capacity - 2) PROVE At(g, c, i) = At(h, c, i + 1)
    BY <1>1, <1>2, <1>4, AtValue DEF Slot
  <2>2. At(g, c, Capacity - 1) = h /\ At(h, c, 0) = h
    BY <1>1, <1>2, <1>4, AtValue DEF Slot
  <2>. QED BY <2>1, <2>2
<1>. QED BY <1>2, <1>3, <1>4

\* A drain leaves head alone: what remains moves to the first places, then come
\* the places that were free, then those that have been drained.
LEMMA AtAfterDrain ==
    ASSUME NEW h \in Slot, NEW c \in 0..Capacity, NEW m \in 0..c, NEW i \in Slot
    PROVE  At(h, c - m, i) = IF i + m < Capacity THEN At(h, c, i + m)
                             ELSE At(h, c, i + m - Capacity)
<1>. USE RingAssumption
<1>1. c - m \in 0..Capacity
  OBVIOUS
<1>2. At(h, c - m, i) = IF h - (c - m) + i < 0 THEN h - (c - m) + i + Capacity
                        ELSE IF h - (c - m) + i < Capacity THEN h - (c - m) + i
                        ELSE h - (c - m) + i - Capacity
  BY <1>1, AtValue
<1>3. CASE i + m < Capacity
  <2>1. i + m \in Slot
    BY <1>3 DEF Slot
  <2>. QED BY <1>2, <1>3, <2>1, AtValue DEF Slot
<1>4. CASE i + m >= Capacity
  <2>1. i + m - Capacity \in Slot
    BY <1>4 DEF Slot
  <2>. QED BY <1>2, <1>4, <2>1, AtValue DEF Slot
<1>. QED BY <1>3, <1>4 DEF Slot

-----------------------------------------------------------------------------
(***************************************************************************)
(* An array b with write position h and c events: the first c places hold  *)
(* events and the others none; Listed is the sequence of those events.     *)
(***************************************************************************)
Matches(b, h, c) == \A i \in Slot : b[At(h, c, i)] # Nil <=> i < c

Listed(b, h, c) == [i \in 1..c |-> b[At(h, c, i - 1)]]

\* SlotsMatchCount speaks of slots, Matches of places.
LEMMA MatchesSlots ==
    ASSUME NEW b, NEW h \in Slot, NEW c \in 0..Capacity
    PROVE  Matches(b, h, c)
             <=> \A s \in Slot : b[s] # Nil <=> \E i \in 0..(c - 1) : s = At(h, c, i)
<1>. USE RingAssumption
<1>1. /\ \A i \in Slot : At(h, c, i) \in Slot
      /\ \A i, j \in Slot : At(h, c, i) = At(h, c, j) => i = j
      /\ \A s \in Slot : \E i \in Slot : At(h, c, i) = s
  BY AtProperties
<1>2. \A i \in Slot : i < c <=> i \in 0..(c - 1)
  BY DEF Slot
<1>3. 0..(c - 1) \subseteq Slot
  BY DEF Slot
<1>. QED BY <1>1, <1>2, <1>3 DEF Matches

\* The list is a sequence of c events.
LEMMA ListedIsSeq ==
    ASSUME NEW b \in [Slot -> Event \cup {Nil}], NEW h \in Slot, NEW c \in 0..Capacity,
           Matches(b, h, c)
    PROVE  /\ Listed(b, h, c) \in Seq(Event)
           /\ Len(Listed(b, h, c)) = c
           /\ \A i \in 1..c : Listed(b, h, c)[i] = b[At(h, c, i - 1)]
<1>. USE RingAssumption
<1>1. ASSUME NEW i \in 1..c PROVE b[At(h, c, i - 1)] \in Event
  <2>1. i - 1 \in Slot /\ i - 1 < c
    BY DEF Slot
  <2>2. At(h, c, i - 1) \in Slot
    BY <2>1, AtProperties
  <2>. QED BY <2>1, <2>2 DEF Matches
<1>2. Listed(b, h, c) \in [1..c -> Event]
  BY <1>1 DEF Listed
<1>3. c \in Nat
  OBVIOUS
<1>4. Listed(b, h, c) \in Seq(Event)
  BY <1>2, <1>3, SeqDef
<1>5. Len(Listed(b, h, c)) = c
  BY <1>2, <1>3, <1>4, LenProperties
<1>. QED BY <1>4, <1>5 DEF Listed

-----------------------------------------------------------------------------
RingInv == RingTypeOK /\ Matches(buf, head, count)

\* The invariant in the words of the model.
LEMMA RingInvIsMatch == RingTypeOK => (SlotsMatchCount <=> Matches(buf, head, count))
BY MatchesSlots, RingAssumption DEF RingTypeOK, SlotsMatchCount, SlotOf, At

\* A new ring has no events in any place.
LEMMA RingStart == RingInit => RingInv
<1>. SUFFICES ASSUME RingInit PROVE RingInv
  OBVIOUS
<1>. USE RingAssumption DEF RingInit
<1>1. RingTypeOK
  BY EmptySeq DEF RingTypeOK, Slot
<1>2. \A i \in Slot : At(head, count, i) \in Slot
  BY <1>1, AtProperties DEF RingTypeOK
<1>. QED BY <1>1, <1>2 DEF RingInv, Matches, Slot

\* A push fills the place after the last, or the place of the oldest.
LEMMA PushInv == ASSUME RingInv, NEW e \in Event, Push(e) PROVE RingInv'
<1>. USE RingAssumption
<1>1. head \in Slot /\ count \in 0..Capacity /\ buf \in [Slot -> Event \cup {Nil}]
  BY DEF RingInv, RingTypeOK
<1>2. /\ head' \in Slot
      /\ count < Capacity => /\ count' = count + 1
                             /\ \A i \in Slot : At(head', count', i) = At(head, count, i)
                             /\ At(head, count, count) = head
      /\ count = Capacity => /\ count' = count
                             /\ \A i \in 0..(Capacity - 2) :
                                   At(head', count', i) = At(head, count, i + 1)
                             /\ At(head', count', Capacity - 1) = head
                             /\ At(head, count, 0) = head
  BY <1>1, AtAfterPush DEF Push, CountUp
<1>3. RingTypeOK'
  BY <1>1, <1>2 DEF RingInv, RingTypeOK, Push, CountUp
<1>4. Matches(buf', head', count')
  <2>. SUFFICES ASSUME NEW i \in Slot
                PROVE  buf'[At(head', count', i)] # Nil <=> i < count'
    BY DEF Matches
  <2>1. \A j \in Slot : At(head, count, j) \in Slot
    BY <1>1, AtProperties
  <2>2. \A j, k \in Slot : At(head, count, j) = At(head, count, k) => j = k
    BY <1>1, AtProperties
  <2>3. \A s \in Slot : buf'[s] = IF s = head THEN e ELSE buf[s]
    BY <1>1 DEF Push
  <2>4. \A j \in Slot : buf[At(head, count, j)] # Nil <=> j < count
    BY DEF RingInv, Matches
  <2>5. CASE count < Capacity
    <3>1. count \in Slot
      BY <1>1, <2>5 DEF Slot
    <3>2. CASE i = count
      BY <1>1, <1>2, <2>3, <2>5, <3>2
    <3>3. CASE i # count
      <4>1. At(head, count, i) # head
        BY <1>2, <2>2, <2>5, <3>1, <3>3
      <4>2. buf'[At(head', count', i)] = buf[At(head, count, i)]
        BY <1>2, <2>1, <2>3, <2>5, <4>1
      <4>3. i < count <=> i < count'
        BY <1>1, <1>2, <2>5, <3>3 DEF Slot
      <4>. QED BY <2>4, <4>2, <4>3
    <3>. QED BY <3>2, <3>3
  <2>6. CASE count = Capacity
    <3>1. i < count'
      BY <1>2, <2>6 DEF Slot
    <3>2. CASE i = Capacity - 1
      BY <1>1, <1>2, <2>3, <2>6, <3>1, <3>2
    <3>3. CASE i # Capacity - 1
      <4>1. i \in 0..(Capacity - 2) /\ i + 1 \in Slot /\ 0 \in Slot /\ i + 1 # 0
        BY <3>3 DEF Slot
      <4>2. At(head, count, i + 1) # head
        BY <1>2, <2>2, <2>6, <4>1
      <4>3. buf'[At(head', count', i)] = buf[At(head, count, i + 1)]
        BY <1>2, <2>1, <2>3, <2>6, <4>1, <4>2
      <4>4. buf[At(head, count, i + 1)] # Nil
        BY <2>4, <2>6, <4>1 DEF Slot
      <4>. QED BY <3>1, <4>3, <4>4
    <3>. QED BY <3>2, <3>3
  <2>. QED BY <1>1, <2>5, <2>6
<1>. QED BY <1>3, <1>4 DEF RingInv

\* How many events a Drain(n) takes (ringbuf.go:52-55).
Batch(n) == IF count > n THEN n ELSE count

\* The effect of a Drain(n) on the places: the first Batch(n) are emptied.
LEMMA DrainEffect ==
    ASSUME RingInv, NEW n \in BatchSize, Drain(n)
    PROVE  /\ Batch(n) \in 0..count
           /\ head' = head /\ count' = count - Batch(n)
           /\ buf' \in [Slot -> Event \cup {Nil}]
           /\ \A i \in Slot : buf'[At(head, count, i)] =
                 IF i < Batch(n) THEN Nil ELSE buf[At(head, count, i)]
<1>. USE RingAssumption
<1>1. head \in Slot /\ count \in 0..Capacity /\ buf \in [Slot -> Event \cup {Nil}]
  BY DEF RingInv, RingTypeOK
<1>2. Batch(n) \in 0..count
  BY <1>1 DEF Batch
<1>3. head' = head /\ count' = count - Batch(n)
  BY DEF Drain, Batch
<1>. DEFINE slots == {SlotOf(i) : i \in 0..(Batch(n) - 1)}
<1>4. buf' = [s \in Slot |-> IF s \in slots THEN Nil ELSE buf[s]]
  BY DEF Drain, Batch
<1>5. ASSUME NEW i \in Slot
      PROVE  At(head, count, i) \in slots <=> i < Batch(n)
  <2>1. \A j \in 0..(Batch(n) - 1) : SlotOf(j) = At(head, count, j) /\ j \in Slot
    BY <1>1, <1>2 DEF SlotOf, At, Slot
  <2>2. \A j \in Slot : At(head, count, i) = At(head, count, j) => i = j
    BY <1>1, AtProperties
  <2>3. i < Batch(n) <=> i \in 0..(Batch(n) - 1)
    BY <1>1, <1>2 DEF Slot
  <2>. QED BY <2>1, <2>2, <2>3
<1>6. \A i \in Slot : At(head, count, i) \in Slot
  BY <1>1, AtProperties
<1>. HIDE DEF slots
<1>. QED BY <1>1, <1>2, <1>3, <1>4, <1>5, <1>6

\* What a Drain returns: the first places, each of which holds an event.
LEMMA DrainReturns ==
    ASSUME RingInv, NEW n \in BatchSize, Drain(n)
    PROVE  /\ drained' \in Seq(Event)
           /\ Len(drained') = Batch(n)
           /\ \A i \in 1..Batch(n) : drained'[i] = Contents[i]
<1>. USE RingAssumption
<1>1. head \in Slot /\ count \in 0..Capacity /\ buf \in [Slot -> Event \cup {Nil}]
  BY DEF RingInv, RingTypeOK
<1>2. Batch(n) \in 0..count /\ Batch(n) \in Nat
  BY <1>1, DrainEffect
<1>3. drained' = [i \in 1..Batch(n) |-> buf[SlotOf(i - 1)]]
  BY DEF Drain, Batch
<1>4. Contents = Listed(buf, head, count)
  BY <1>1 DEF Contents, Listed, SlotOf, At
<1>5. Contents \in Seq(Event) /\ Len(Contents) = count
  BY <1>1, <1>4, ListedIsSeq DEF RingInv
<1>6. \A i \in 1..Batch(n) : drained'[i] = Contents[i] /\ Contents[i] \in Event
  BY <1>1, <1>2, <1>3, <1>5, ElementOfSeq DEF Contents
<1>7. drained' \in [1..Batch(n) -> Event]
  BY <1>3, <1>6
<1>8. drained' \in Seq(Event)
  BY <1>2, <1>7, SeqDef
<1>. QED BY <1>2, <1>6, <1>7, <1>8, LenProperties

\* A drain keeps the invariant: head stays, the remaining events move up.
LEMMA DrainInv == ASSUME RingInv, NEW n \in BatchSize, Drain(n) PROVE RingInv'
<1>. USE RingAssumption
<1>1. head \in Slot /\ count \in 0..Capacity
  BY DEF RingInv, RingTypeOK
<1>2. /\ Batch(n) \in 0..count
      /\ head' = head /\ count' = count - Batch(n)
      /\ buf' \in [Slot -> Event \cup {Nil}]
      /\ \A i \in Slot : buf'[At(head, count, i)] =
            IF i < Batch(n) THEN Nil ELSE buf[At(head, count, i)]
  BY DrainEffect
<1>3. RingTypeOK'
  BY <1>1, <1>2, DrainReturns DEF RingTypeOK
<1>4. Matches(buf', head', count')
  <2>. SUFFICES ASSUME NEW i \in Slot
                PROVE  buf'[At(head, count - Batch(n), i)] # Nil <=> i < count - Batch(n)
    BY <1>2 DEF Matches
  <2>1. At(head, count - Batch(n), i) = IF i + Batch(n) < Capacity
                                         THEN At(head, count, i + Batch(n))
                                         ELSE At(head, count, i + Batch(n) - Capacity)
    BY <1>1, <1>2, AtAfterDrain
  <2>2. \A j \in Slot : buf[At(head, count, j)] # Nil <=> j < count
    BY DEF RingInv, Matches
  <2>3. CASE i + Batch(n) < Capacity
    <3>1. i + Batch(n) \in Slot /\ ~(i + Batch(n) < Batch(n))
      BY <1>1, <1>2, <2>3 DEF Slot
    <3>2. buf'[At(head, count - Batch(n), i)] = buf[At(head, count, i + Batch(n))]
      BY <1>2, <2>1, <2>3, <3>1
    <3>3. i + Batch(n) < count <=> i < count - Batch(n)
      BY <1>1, <1>2 DEF Slot
    <3>. QED BY <2>2, <3>1, <3>2, <3>3
  <2>4. CASE i + Batch(n) >= Capacity
    <3>1. i + Batch(n) - Capacity \in Slot /\ i + Batch(n) - Capacity < Batch(n)
      BY <1>1, <1>2, <2>4 DEF Slot
    <3>2. ~(i + Batch(n) < Capacity) /\ ~(i < count - Batch(n))
      BY <1>1, <1>2, <2>4 DEF Slot
    <3>3. buf'[At(head, count - Batch(n), i)] = Nil
      BY <1>2, <2>1, <3>1, <3>2
    <3>. QED BY <3>2, <3>3
  <2>. QED BY <1>1, <1>2, <2>3, <2>4 DEF Slot
<1>. QED BY <1>3, <1>4 DEF RingInv

\* The parts of the invariant hold in every reachable state.
LEMMA RingInvariance == RingSpec => []RingInv
<1>1. RingInv /\ [RingNext]_ringVars => RingInv'
  <2>. SUFFICES ASSUME RingInv, [RingNext]_ringVars PROVE RingInv'
    OBVIOUS
  <2>1. CASE UNCHANGED ringVars
    BY <2>1 DEF ringVars, RingInv, RingTypeOK, Matches
  <2>. QED BY <2>1, PushInv, DrainInv DEF RingNext
<1>. QED BY RingStart, <1>1, PTL DEF RingSpec

\* The indices of the ring stay within the array and a Drain returns events only,
\* never the nil of an empty slot, for every capacity and batch size.
THEOREM RingTypeCorrect == RingSpec => []RingTypeOK
<1>1. RingInv => RingTypeOK
  BY DEF RingInv
<1>. QED BY RingInvariance, <1>1, PTL

\* The slots that hold an event are exactly the count slots behind head.
THEOREM SlotsCorrect == RingSpec => []SlotsMatchCount
<1>1. RingInv => SlotsMatchCount
  BY RingInvIsMatch DEF RingInv
<1>. QED BY RingInvariance, <1>1, PTL

-----------------------------------------------------------------------------
\* A push on the ring is a push on the queue.
LEMMA PushRefines ==
    ASSUME RingInv, NEW e \in Event, Push(e)
    PROVE  Contents' = Queue!Pushed(Contents, e)
<1>. USE RingAssumption
<1>1. head \in Slot /\ count \in 0..Capacity /\ buf \in [Slot -> Event \cup {Nil}]
  BY DEF RingInv, RingTypeOK
<1>2. RingInv'
  BY PushInv
<1>3. Contents = Listed(buf, head, count) /\ Contents' = Listed(buf', head', count')
  BY DEF Contents, Listed, SlotOf, At
<1>4. /\ Contents \in Seq(Event) /\ Len(Contents) = count
      /\ \A i \in 1..count : Contents[i] = buf[At(head, count, i - 1)]
  BY <1>1, <1>3, ListedIsSeq DEF RingInv
<1>5. /\ Contents' \in Seq(Event) /\ Len(Contents') = count'
      /\ \A i \in 1..count' : Contents'[i] = buf'[At(head', count', i - 1)]
  <2>1. /\ buf' \in [Slot -> Event \cup {Nil}] /\ head' \in Slot
        /\ count' \in 0..Capacity /\ Matches(buf', head', count')
    BY <1>2 DEF RingInv, RingTypeOK
  <2>. QED BY <1>3, <2>1, ListedIsSeq
<1>6. \A i \in Slot : At(head, count, i) \in Slot
  BY <1>1, AtProperties
<1>7. \A i, j \in Slot : At(head, count, i) = At(head, count, j) => i = j
  BY <1>1, AtProperties
<1>8. \A s \in Slot : buf'[s] = IF s = head THEN e ELSE buf[s]
  BY <1>1 DEF Push
<1>9. CASE count < Capacity
  <2>1. /\ count' = count + 1
        /\ \A i \in Slot : At(head', count', i) = At(head, count, i)
        /\ At(head, count, count) = head
    BY <1>1, <1>9, AtAfterPush DEF Push, CountUp
  <2>2. /\ Append(Contents, e) \in Seq(Event)
        /\ Len(Append(Contents, e)) = count + 1
        /\ \A i \in 1..count : Append(Contents, e)[i] = Contents[i]
        /\ Append(Contents, e)[count + 1] = e
    BY <1>4, AppendProperties
  <2>3. ASSUME NEW i \in 1..(count + 1) PROVE Contents'[i] = Append(Contents, e)[i]
    <3>1. i - 1 \in Slot /\ count \in Slot
      BY <1>1, <1>9 DEF Slot
    <3>2. Contents'[i] = buf'[At(head, count, i - 1)]
      BY <1>5, <2>1, <3>1
    <3>3. CASE i = count + 1
      <4>1. At(head, count, i - 1) = head
        BY <1>1, <2>1, <3>3
      <4>. QED BY <1>1, <1>8, <2>2, <3>2, <3>3, <4>1
    <3>4. CASE i # count + 1
      <4>1. i \in 1..count /\ i - 1 # count
        BY <1>1, <3>4
      <4>2. At(head, count, i - 1) # head
        BY <1>7, <2>1, <3>1, <4>1
      <4>. QED BY <1>4, <1>6, <1>8, <2>2, <3>1, <3>2, <4>1, <4>2
    <3>. QED BY <3>3, <3>4
  <2>4. Contents' = Append(Contents, e)
    BY <1>5, <2>1, <2>2, <2>3, SeqEqual
  <2>. QED BY <1>4, <1>9, <2>4 DEF Queue!Pushed
<1>10. CASE count = Capacity
  <2>1. /\ count' = count
        /\ \A i \in 0..(Capacity - 2) : At(head', count', i) = At(head, count, i + 1)
        /\ At(head', count', Capacity - 1) = head
        /\ At(head, count, 0) = head
    BY <1>1, <1>10, AtAfterPush DEF Push, CountUp
  <2>2. Contents # <<>>
    BY <1>4, <1>10, EmptySeq
  <2>3. /\ Tail(Contents) \in Seq(Event)
        /\ Len(Tail(Contents)) = count - 1
        /\ \A i \in 1..(count - 1) : Tail(Contents)[i] = Contents[i + 1]
    BY <1>4, <2>2, HeadTailProperties
  <2>. DEFINE q == Append(Tail(Contents), e)
  <2>4. /\ q \in Seq(Event) /\ Len(q) = count
        /\ \A i \in 1..(count - 1) : q[i] = Contents[i + 1]
        /\ q[count] = e
    BY <1>1, <2>3, AppendProperties
  <2>5. ASSUME NEW i \in 1..count PROVE Contents'[i] = q[i]
    <3>1. Contents'[i] = buf'[At(head', count', i - 1)]
      BY <1>5, <2>1
    <3>2. CASE i = count
      BY <1>1, <1>8, <1>10, <2>1, <2>4, <3>1, <3>2
    <3>3. CASE i # count
      <4>1. /\ i - 1 \in 0..(Capacity - 2) /\ i \in 1..(count - 1)
            /\ i \in Slot /\ 0 \in Slot /\ i # 0 /\ (i - 1) + 1 = i /\ (i + 1) - 1 = i
            /\ i + 1 \in 1..count
        BY <1>1, <1>10, <3>3 DEF Slot
      <4>2. At(head', count', i - 1) = At(head, count, i)
        BY <2>1, <4>1
      <4>3. At(head, count, i) # head
        BY <1>7, <2>1, <4>1
      <4>4. Contents'[i] = buf[At(head, count, i)]
        BY <1>6, <1>8, <3>1, <4>1, <4>2, <4>3
      <4>5. Contents[i + 1] = buf[At(head, count, i)]
        BY <1>4, <4>1
      <4>. QED BY <2>4, <4>1, <4>4, <4>5
    <3>. QED BY <3>2, <3>3
  <2>6. Contents' = q
    <3>. HIDE DEF q
    <3>. QED BY <1>5, <2>1, <2>4, <2>5, SeqEqual
  <2>. QED BY <1>4, <1>10, <2>6 DEF Queue!Pushed
<1>. QED BY <1>1, <1>9, <1>10

\* A drain of the ring is a drain of the queue, with the same events returned.
LEMMA DrainRefines ==
    ASSUME RingInv, NEW n \in BatchSize, Drain(n)
    PROVE  Queue!Drain(n)
<1>. USE RingAssumption
<1>1. /\ head \in Slot /\ count \in 0..Capacity
      /\ buf \in [Slot -> Event \cup {Nil}] /\ n \in Nat
  BY DEF RingInv, RingTypeOK
<1>2. RingInv'
  BY DrainInv
<1>3. Contents = Listed(buf, head, count) /\ Contents' = Listed(buf', head', count')
  BY DEF Contents, Listed, SlotOf, At
<1>4. /\ Contents \in Seq(Event) /\ Len(Contents) = count
      /\ \A i \in 1..count : Contents[i] = buf[At(head, count, i - 1)]
      /\ \A i \in 1..count : Contents[i] \in Event
  BY <1>1, <1>3, ListedIsSeq, ElementOfSeq DEF RingInv
<1>5. /\ Contents' \in Seq(Event) /\ Len(Contents') = count'
      /\ \A i \in 1..count' : Contents'[i] = buf'[At(head', count', i - 1)]
  <2>1. /\ buf' \in [Slot -> Event \cup {Nil}] /\ head' \in Slot
        /\ count' \in 0..Capacity /\ Matches(buf', head', count')
    BY <1>2 DEF RingInv, RingTypeOK
  <2>. QED BY <1>3, <2>1, ListedIsSeq
<1>6. /\ Batch(n) \in 0..count /\ head' = head /\ count' = count - Batch(n)
      /\ \A i \in Slot : buf'[At(head, count, i)] =
            IF i < Batch(n) THEN Nil ELSE buf[At(head, count, i)]
  BY DrainEffect
<1>7. Queue!DrainCount(Contents, n) = Batch(n)
  BY <1>1, <1>4 DEF Queue!DrainCount, Batch
<1>8. drained' = Queue!Taken(Contents, n)
  <2>. DEFINE q == SubSeq(Contents, 1, Batch(n))
  <2>1. /\ q \in Seq(Event) /\ Len(q) = Batch(n)
        /\ \A i \in 1..Batch(n) : q[i] = Contents[i]
    <3>1. \A i \in 1..Batch(n) : Contents[i] \in Event
      BY <1>4, <1>6
    <3>2. 1 \in Int /\ Batch(n) \in Int
      BY <1>6
    <3>3. /\ q \in Seq(Event)
          /\ Len(q) = IF 1 <= Batch(n) THEN Batch(n) - 1 + 1 ELSE 0
          /\ \A i \in 1..(Batch(n) - 1 + 1) : q[i] = Contents[1 + i - 1]
      BY <3>1, <3>2, SubSeqProperties
    <3>. QED BY <1>6, <3>3
  <2>2. drained' = q
    <3>. HIDE DEF q
    <3>. QED BY <2>1, DrainReturns, SeqEqual
  <2>. QED BY <1>7, <2>2 DEF Queue!Taken
<1>9. Contents' = Queue!Left(Contents, n)
  <2>. DEFINE m == Batch(n)
              q == SubSeq(Contents, m + 1, count)
  <2>1. /\ q \in Seq(Event) /\ Len(q) = count - m
        /\ \A i \in 1..(count - m) : q[i] = Contents[m + i]
    <3>1. \A i \in (m + 1)..count : Contents[i] \in Event
      BY <1>4, <1>6
    <3>2. m + 1 \in Int /\ count \in Int
      BY <1>1, <1>6
    <3>3. /\ q \in Seq(Event)
          /\ Len(q) = IF m + 1 <= count THEN count - (m + 1) + 1 ELSE 0
          /\ \A i \in 1..(count - (m + 1) + 1) : q[i] = Contents[(m + 1) + i - 1]
      BY <3>1, <3>2, SubSeqProperties
    <3>. QED BY <1>1, <1>6, <3>3
  <2>2. ASSUME NEW i \in 1..(count - m) PROVE Contents'[i] = q[i]
    <3>1. /\ i - 1 \in Slot /\ (i - 1) + m \in Slot /\ ~((i - 1) + m < m)
          /\ m + i \in 1..count /\ (m + i) - 1 = (i - 1) + m
      BY <1>1, <1>6 DEF Slot
    <3>2. At(head, count - m, i - 1) = At(head, count, (i - 1) + m)
      <4>1. \A j \in Slot : At(head, count - Batch(n), j) =
                IF j + Batch(n) < Capacity THEN At(head, count, j + Batch(n))
                ELSE At(head, count, j + Batch(n) - Capacity)
        BY <1>1, <1>6, AtAfterDrain
      <4>2. (i - 1) + Batch(n) < Capacity
        BY <3>1 DEF Slot
      <4>. QED BY <3>1, <4>1, <4>2
    <3>3. Contents'[i] = buf[At(head, count, (i - 1) + m)]
      BY <1>5, <1>6, <3>1, <3>2
    <3>. QED BY <1>4, <2>1, <3>1, <3>3
  <2>3. Contents' = q
    <3>. HIDE DEF q, m
    <3>1. count' = count - m
      BY <1>6 DEF m
    <3>. QED BY <1>5, <2>1, <2>2, <3>1, SeqEqual
  <2>. QED BY <1>4, <1>7, <2>3 DEF Queue!Left
<1>. QED BY <1>8, <1>9 DEF Queue!Drain

\* The ring with its indices implements the queue that forgets its oldest event:
\* for every capacity, Push and Drain do to the listed events what they should.
THEOREM ImplementsQueue == RingSpec => QueueSpec
<1>1. RingInit => Queue!Init
  <2>. SUFFICES ASSUME RingInit PROVE Contents = <<>> /\ drained = <<>>
    BY DEF Queue!Init
  <2>1. 1..count = {}
    BY DEF RingInit
  <2>. QED BY <2>1 DEF RingInit, Contents
<1>2. RingInv /\ [RingNext]_ringVars => [Queue!Next]_<<Contents, drained>>
  <2>. SUFFICES ASSUME RingInv, [RingNext]_ringVars PROVE [Queue!Next]_<<Contents, drained>>
    OBVIOUS
  <2>1. ASSUME NEW e \in Event, Push(e) PROVE Queue!Next
    <3>1. Queue!Push(e)
      BY <2>1, PushRefines DEF Queue!Push, Push
    <3>. QED BY <3>1 DEF Queue!Next
  <2>2. ASSUME NEW n \in BatchSize, Drain(n) PROVE Queue!Next
    <3>1. Queue!Drain(n)
      BY <2>2, DrainRefines
    <3>. QED BY <3>1 DEF Queue!Next
  <2>3. CASE UNCHANGED ringVars
    BY <2>3 DEF ringVars, Contents, SlotOf
  <2>. QED BY <2>1, <2>2, <2>3 DEF RingNext
<1>. QED BY <1>1, <1>2, RingInvariance, PTL DEF RingSpec, QueueSpec, Queue!Spec

(***************************************************************************)
(* The engine.  The gates of handleAlertEvent look at the cached event,    *)
(* the properties speak of what was delivered.  CacheTellsHistory says     *)
(* that the two agree, and GatesPassed that an event on its way to the     *)
(* notifiers has passed the gates of its own episode: nothing it was       *)
(* checked against changes while it is being forwarded.                    *)
(***************************************************************************)
\* The cached event of a key has the numbers of the episode.
CacheTellsHistory(k) ==
    /\ events[k] = NoEvent => history[k] = Quiet
    /\ events[k] # NoEvent =>
         /\ events[k].first = history[k].first /\ history[k].first > 0
         /\ events[k].count = history[k].delivered
         /\ events[k].sent = history[k].last
    /\ history[k].delivered > 0 <=> history[k].last > 0

\* An alert being forwarded is the next one of the episode, and is due.
GatesPassed(k) ==
    forwarding[k] # NoEvent /\ forwarding[k].kind # "recovery" =>
        /\ events[k] # NoEvent
        /\ forwarding[k].first = events[k].first
        /\ forwarding[k].count = events[k].count + 1
        /\ alerting[k].number > 0 => events[k].count < alerting[k].number
        /\ forwarding[k].time - events[k].first >= alerting[k].for
        /\ events[k].count > 0 =>
             forwarding[k].time - events[k].sent >= alerting[k].interval

\* What holds of the submissions of an episode.
DiagnosedTellsHistory(k) ==
    /\ k \in diagnosed => history[k].submits = 1 /\ history[k].delivered > 0
    /\ k \notin diagnosed => history[k].submits = 0

\* Within an episode the limits hold.
LimitsHold(k) ==
    /\ alerting[k].number > 0 => history[k].delivered <= alerting[k].number
    /\ history[k].delivered > 0 => history[k].last - history[k].first >= alerting[k].for

\* Nothing recorded lies in the future.
Past(k) == /\ events[k] # NoEvent => events[k].first <= now /\ events[k].sent <= now
           /\ forwarding[k] # NoEvent => forwarding[k].time <= now

KeyInv(k) == /\ Past(k)
             /\ CacheTellsHistory(k)
             /\ GatesPassed(k)
             /\ DiagnosedTellsHistory(k)
             /\ LimitsHold(k)

EngineInv == EngineTypeOK /\ \A k \in Key : KeyInv(k)

-----------------------------------------------------------------------------
\* The invariant holds initially.
LEMMA EngineStart == EngineInit => EngineInv
<1>. SUFFICES ASSUME EngineInit PROVE EngineInv
  OBVIOUS
<1>. USE EngineAssumption DEF EngineInit
<1>1. EngineTypeOK
  BY DEF EngineTypeOK, HistoryType, Quiet
<1>2. ASSUME NEW k \in Key PROVE KeyInv(k)
  <2>1. alerting[k] \in ConfigType
    OBVIOUS
  <2>. QED
    BY <2>1 DEF KeyInv, Past, CacheTellsHistory, GatesPassed, DiagnosedTellsHistory,
                LimitsHold, Quiet, ConfigType
<1>. QED
  BY <1>1, <1>2 DEF EngineInv

\* No step leaves the types of the state.
LEMMA EngineTypeStep == EngineInv /\ [EngineNext]_engineVars => EngineTypeOK'
<1>. SUFFICES ASSUME EngineInv, [EngineNext]_engineVars PROVE EngineTypeOK'
  OBVIOUS
<1>. USE EngineAssumption DEF EngineInv, EngineTypeOK
<1>1. CASE Tick
  BY <1>1 DEF Tick
<1>2. ASSUME NEW k \in Key, NEW severity \in Severity, FirstAlert(k, severity)
      PROVE  EngineTypeOK'
  <2>1. Forwarding("first", severity, now, 1) \in ForwardType
    BY DEF Forwarding, ForwardType
  <2>2. [first |-> now, count |-> 0, sent |-> 0] \in CacheType
    BY DEF CacheType
  <2>3. history' \in [Key -> HistoryType]
    BY <1>2 DEF FirstAlert, HistoryType
  <2>. QED
    BY <1>2, <2>1, <2>2, <2>3 DEF FirstAlert
<1>3. ASSUME NEW k \in Key, NEW severity \in Severity, LaterAlert(k, severity)
      PROVE  EngineTypeOK'
  <2>1. events[k] \in CacheType
    BY <1>3 DEF LaterAlert
  <2>2. Forwarding("repeat", severity, events[k].first, events[k].count + 1) \in ForwardType
    BY <2>1 DEF Forwarding, ForwardType, CacheType
  <2>. QED
    BY <1>3, <2>2 DEF LaterAlert
<1>4. ASSUME NEW k \in Key, Recover(k) PROVE EngineTypeOK'
  <2>1. Forwarding("recovery", "Info", 0, 0) \in ForwardType
    BY DEF Forwarding, ForwardType, Severity
  <2>2. Quiet \in HistoryType
    BY DEF Quiet, HistoryType
  <2>. QED
    BY <1>4, <2>1, <2>2 DEF Recover
<1>5. ASSUME NEW k \in Key, NEW took \in SUBSET Notifier, Forward(k, took)
      PROVE  EngineTypeOK'
  <2>1. forwarding[k] \in ForwardType
    BY <1>5 DEF Forward
  <2>2. forwarding' \in [Key -> ForwardType \cup {NoEvent}]
    BY <1>5 DEF Forward
  <2>3. CASE took # {} /\ forwarding[k].kind # "recovery"
    <3>1. Delivered(k, forwarding[k])
      BY <1>5, <2>3 DEF Forward
    <3>2. events' \in [Key -> CacheType \cup {NoEvent}]
      BY <3>1, <2>1 DEF Delivered, RecordSent, CacheType, ForwardType
    <3>3. history' \in [Key -> HistoryType]
      <4>. DEFINE a == history[k].accepted \/ (Triggers(k) /\ Accepts(forwarding[k].severity))
                  s == IF Triggers(k) THEN history[k].submits + 1 ELSE history[k].submits
      <4>1. a \in BOOLEAN
        OBVIOUS
      <4>2. s \in Nat
        BY DEF HistoryType
      <4>. DEFINE r == [first |-> history[k].first, delivered |-> history[k].delivered + 1,
                        last |-> forwarding[k].time, submits |-> s, accepted |-> a]
      <4>3. history' = [history EXCEPT ![k] = r]
        BY <3>1 DEF Delivered
      <4>. HIDE DEF a, s
      <4>4. r \in HistoryType
        BY <4>1, <4>2, <2>1 DEF HistoryType, ForwardType
      <4>. QED
        BY <4>3, <4>4
    <3>4. diagnosed' \subseteq Key
      BY <3>1 DEF Delivered
    <3>. QED
      BY <1>5, <2>2, <3>2, <3>3, <3>4 DEF Forward
  <2>4. CASE ~(took # {} /\ forwarding[k].kind # "recovery")
    BY <1>5, <2>2, <2>4 DEF Forward
  <2>. QED
    BY <2>3, <2>4
<1>6. CASE UNCHANGED engineVars
  BY <1>6 DEF engineVars
<1>. QED
  BY <1>1, <1>2, <1>3, <1>4, <1>5, <1>6 DEF EngineNext

\* A step that leaves alone all that concerns a key leaves its invariant alone.
LEMMA KeyFrame ==
  ASSUME EngineInv, NEW k \in Key, now' = now \/ now' = now + 1,
         events'[k] = events[k], forwarding'[k] = forwarding[k],
         history'[k] = history[k], alerting'[k] = alerting[k],
         k \in diagnosed' <=> k \in diagnosed
  PROVE  KeyInv(k)'
<1>1. Past(k)'
  <2>1. events[k] # NoEvent => events[k] \in CacheType
    BY DEF EngineInv, EngineTypeOK
  <2>2. forwarding[k] # NoEvent => forwarding[k] \in ForwardType
    BY DEF EngineInv, EngineTypeOK
  <2>. QED
    BY <2>1, <2>2 DEF EngineInv, KeyInv, EngineTypeOK, Past, CacheType, ForwardType
<1>2. /\ CacheTellsHistory(k)' /\ GatesPassed(k)'
      /\ DiagnosedTellsHistory(k)' /\ LimitsHold(k)'
  BY DEF EngineInv, KeyInv, CacheTellsHistory, GatesPassed, DiagnosedTellsHistory, LimitsHold
<1>. QED
  BY <1>1, <1>2 DEF KeyInv

\* FirstAlert opens an episode of its key.
LEMMA FirstAlertKey ==
  ASSUME EngineInv, NEW k \in Key, NEW severity \in Severity, FirstAlert(k, severity)
  PROVE  KeyInv(k)'
<1>. USE EngineAssumption DEF EngineInv, EngineTypeOK, KeyInv
<1>1. /\ history[k] = Quiet /\ alerting' = alerting /\ alerting[k] \in ConfigType
      /\ diagnosed' = diagnosed /\ now \in Nat \ {0}
  BY DEF FirstAlert, CacheTellsHistory
<1>2. events'[k] = [first |-> now, count |-> 0, sent |-> 0] /\ events'[k] # NoEvent
  <2>1. [first |-> now, count |-> 0, sent |-> 0] \in CacheType
    BY DEF CacheType
  <2>. QED
    BY <2>1 DEF FirstAlert
<1>3. history'[k] = [Quiet EXCEPT !.first = now]
  BY <1>1 DEF FirstAlert
<1>4. CacheTellsHistory(k)'
  BY <1>1, <1>2, <1>3 DEF CacheTellsHistory, Quiet
<1>5. GatesPassed(k)'
  <2>1. CASE alerting[k].for = 0
    <3>1. forwarding'[k] = Forwarding("first", severity, now, 1)
      BY <2>1 DEF FirstAlert
    <3>. QED
      BY <1>1, <1>2, <2>1, <3>1 DEF GatesPassed, Forwarding, ConfigType
  <2>2. CASE alerting[k].for # 0
    <3>1. forwarding'[k] = NoEvent
      BY <2>2 DEF FirstAlert
    <3>. QED
      BY <3>1 DEF GatesPassed
  <2>. QED
    BY <2>1, <2>2
<1>6. DiagnosedTellsHistory(k)'
  BY <1>1, <1>3 DEF DiagnosedTellsHistory, Quiet
<1>7. LimitsHold(k)'
  BY <1>1, <1>3 DEF LimitsHold, Quiet, ConfigType
<1>8. Past(k)'
  <2>1. forwarding'[k] = Forwarding("first", severity, now, 1) \/ forwarding'[k] = NoEvent
    BY DEF FirstAlert
  <2>. QED
    BY <1>1, <1>2, <2>1 DEF Past, Forwarding, FirstAlert
<1>. QED
  BY <1>4, <1>5, <1>6, <1>7, <1>8

\* LaterAlert sends an event on its way only through open gates.
LEMMA LaterAlertKey ==
  ASSUME EngineInv, NEW k \in Key, NEW severity \in Severity, LaterAlert(k, severity)
  PROVE  KeyInv(k)'
<1>. USE EngineAssumption DEF EngineInv, EngineTypeOK, KeyInv
<1>1. /\ events' = events /\ history' = history /\ alerting' = alerting
      /\ diagnosed' = diagnosed
      /\ events[k] # NoEvent /\ events[k] \in CacheType /\ alerting[k] \in ConfigType
      /\ now \in Nat \ {0}
  BY DEF LaterAlert
<1>2. forwarding'[k] = Forwarding("repeat", severity, events[k].first, events[k].count + 1)
  BY DEF LaterAlert
<1>3. now - events[k].first >= alerting[k].for
  <2>1. CASE alerting[k].for > 0
    BY <2>1 DEF LaterAlert, Lasts
  <2>2. CASE alerting[k].for = 0
    <3>1. events[k].first <= now
      BY <1>1 DEF Past
    <3>. QED
      BY <1>1, <2>2, <3>1 DEF CacheType, ConfigType
  <2>. QED
    BY <1>1, <2>1, <2>2 DEF ConfigType
<1>4. now - events[k].sent >= alerting[k].interval
  <2>1. CASE alerting[k].interval > 0
    BY <2>1 DEF LaterAlert, Spaced
  <2>2. CASE alerting[k].interval = 0
    <3>1. events[k].sent <= now
      BY <1>1 DEF Past
    <3>. QED
      BY <1>1, <2>2, <3>1 DEF CacheType, ConfigType
  <2>. QED
    BY <1>1, <2>1, <2>2 DEF ConfigType
<1>5. GatesPassed(k)'
  BY <1>1, <1>2, <1>3, <1>4 DEF GatesPassed, Forwarding, LaterAlert, MayRepeat
<1>6. Past(k)'
  BY <1>1, <1>2 DEF Past, Forwarding, LaterAlert
<1>7. CacheTellsHistory(k)' /\ DiagnosedTellsHistory(k)' /\ LimitsHold(k)'
  BY <1>1 DEF CacheTellsHistory, DiagnosedTellsHistory, LimitsHold
<1>. QED
  BY <1>5, <1>6, <1>7

\* Recover ends the episode of its key.
LEMMA RecoverKey ==
  ASSUME EngineInv, NEW k \in Key, Recover(k)
  PROVE  KeyInv(k)'
<1>. USE EngineAssumption DEF EngineInv, EngineTypeOK
<1>1. /\ events'[k] = NoEvent /\ history'[k] = Quiet /\ k \notin diagnosed'
      /\ now' = now /\ now \in Nat
  BY DEF Recover
<1>2. forwarding'[k] \in {NoEvent, Forwarding("recovery", "Info", 0, 0)}
  BY DEF Recover
<1>3. GatesPassed(k)' /\ Past(k)'
  BY <1>1, <1>2 DEF GatesPassed, Past, Forwarding
<1>4. CacheTellsHistory(k)' /\ DiagnosedTellsHistory(k)'
  BY <1>1 DEF CacheTellsHistory, DiagnosedTellsHistory, Quiet
<1>5. LimitsHold(k)'
  <2>1. alerting' = alerting /\ alerting[k] \in ConfigType
    BY DEF Recover
  <2>. QED
    BY <1>1, <2>1 DEF LimitsHold, Quiet, ConfigType
<1>. QED
  BY <1>3, <1>4, <1>5 DEF KeyInv

\* Forward leaves the key with a delivered alert, or as it was.
LEMMA ForwardKey ==
  ASSUME EngineInv, NEW k \in Key, NEW took \in SUBSET Notifier, Forward(k, took)
  PROVE  KeyInv(k)'
<1>. DEFINE e == forwarding[k]
<1>. USE EngineAssumption DEF EngineInv, EngineTypeOK, KeyInv
<1>1. /\ e # NoEvent /\ e \in ForwardType /\ alerting' = alerting /\ now' = now /\ now \in Nat
      /\ alerting[k] \in ConfigType /\ history[k] \in HistoryType
      /\ forwarding'[k] = NoEvent
  BY DEF Forward
<1>2. GatesPassed(k)'
  BY <1>1 DEF GatesPassed
<1>3. CASE took # {} /\ e.kind # "recovery"
  <2>1. Delivered(k, e)
    BY <1>3 DEF Forward
  <2>2. events'[k] = [first |-> e.first, count |-> e.count, sent |-> e.time]
    BY <2>1 DEF Delivered, RecordSent
  <2>3. /\ history'[k].first = history[k].first
        /\ history'[k].delivered = history[k].delivered + 1
        /\ history'[k].last = e.time
        /\ history'[k].submits = IF Triggers(k) THEN history[k].submits + 1
                                 ELSE history[k].submits
    BY <1>1, <2>1 DEF Delivered, HistoryType
  <2>4. /\ events[k] # NoEvent /\ events[k] \in CacheType
        /\ e.first = events[k].first /\ e.count = events[k].count + 1
        /\ alerting[k].number > 0 => events[k].count < alerting[k].number
        /\ e.time - events[k].first >= alerting[k].for
    BY <1>1, <1>3 DEF GatesPassed
  <2>5. /\ events[k].first = history[k].first /\ history[k].first > 0
        /\ events[k].count = history[k].delivered
    BY <2>4 DEF CacheTellsHistory
  <2>6. CacheTellsHistory(k)'
    <3>1. events'[k] # NoEvent
      BY <1>1, <2>2 DEF CacheType, ForwardType
    <3>. QED
      BY <1>1, <2>2, <2>3, <2>4, <2>5, <3>1 DEF CacheTellsHistory, ForwardType, HistoryType
  <2>7. LimitsHold(k)'
    BY <1>1, <2>3, <2>4, <2>5 DEF LimitsHold, ForwardType, HistoryType, ConfigType, CacheType
  <2>8. DiagnosedTellsHistory(k)'
    <3>1. history'[k].delivered > 0
      BY <1>1, <2>3 DEF HistoryType
    <3>2. k \in diagnosed' <=> k \in diagnosed \/ Triggers(k)
      BY <2>1 DEF Delivered
    <3>. QED
      BY <1>1, <2>3, <3>1, <3>2 DEF DiagnosedTellsHistory, Triggers, HistoryType
  <2>9. Past(k)'
    <3>1. e.time <= now /\ events[k].first <= now
      BY <1>1, <2>4 DEF Past
    <3>. QED
      BY <1>1, <2>2, <2>4, <3>1 DEF Past
  <2>. QED
    BY <1>2, <2>6, <2>7, <2>8, <2>9
<1>4. CASE ~(took # {} /\ e.kind # "recovery")
  <2>1. events' = events /\ diagnosed' = diagnosed /\ history' = history
    BY <1>4 DEF Forward
  <2>. QED
    BY <1>1, <1>2, <2>1 DEF CacheTellsHistory, DiagnosedTellsHistory, LimitsHold, Past
<1>. QED
  BY <1>3, <1>4

\* Every step preserves the invariant: of the key it concerns by the lemmas above,
\* of the others because it leaves them alone.
LEMMA EngineStep == EngineInv /\ [EngineNext]_engineVars => EngineInv'
<1>. SUFFICES ASSUME EngineInv, [EngineNext]_engineVars PROVE EngineInv'
  OBVIOUS
<1>1. EngineTypeOK'
  BY EngineTypeStep
<1>2. ASSUME NEW j \in Key PROVE KeyInv(j)'
  <2>. USE DEF EngineInv, EngineTypeOK
  <2>1. CASE Tick
    BY <2>1, KeyFrame DEF Tick
  <2>2. ASSUME NEW k \in Key, NEW severity \in Severity, FirstAlert(k, severity)
        PROVE  KeyInv(j)'
    BY <2>2, FirstAlertKey, KeyFrame DEF FirstAlert
  <2>3. ASSUME NEW k \in Key, NEW severity \in Severity, LaterAlert(k, severity)
        PROVE  KeyInv(j)'
    BY <2>3, LaterAlertKey, KeyFrame DEF LaterAlert
  <2>4. ASSUME NEW k \in Key, Recover(k)
        PROVE  KeyInv(j)'
    BY <2>4, RecoverKey, KeyFrame DEF Recover
  <2>5. ASSUME NEW k \in Key, NEW took \in SUBSET Notifier, Forward(k, took)
        PROVE  KeyInv(j)'
    <3>1. CASE j = k
      BY <2>5, <3>1, ForwardKey
    <3>2. ASSUME j # k
          PROVE  /\ now' = now /\ alerting' = alerting
                 /\ events'[j] = events[j] /\ forwarding'[j] = forwarding[j]
                 /\ history'[j] = history[j]
                 /\ j \in diagnosed' <=> j \in diagnosed
      BY <2>5, <3>2 DEF Forward, Delivered, RecordSent
    <3>. QED
      BY <3>1, <3>2, KeyFrame
  <2>6. CASE UNCHANGED engineVars
    BY <2>6, KeyFrame DEF engineVars
  <2>. QED
    BY <2>1, <2>2, <2>3, <2>4, <2>5, <2>6 DEF EngineNext
<1>. QED
  BY <1>1, <1>2 DEF EngineInv

LEMMA EngineInvariance == EngineSpec => []EngineInv
BY EngineStart, EngineStep, PTL DEF EngineSpec

-----------------------------------------------------------------------------
\* The state keeps its types; an event on its way has its time.
THEOREM EngineTypeCorrect == EngineSpec => []EngineTypeOK
<1>1. EngineInv => EngineTypeOK
  BY DEF EngineInv
<1>. QED
  BY <1>1, EngineInvariance, PTL

\* An episode never delivers more than repeat_number alerts (engine.go:130).
THEOREM RepeatLimited == EngineSpec => []RepeatLimit
<1>1. EngineInv => RepeatLimit
  BY DEF EngineInv, KeyInv, LimitsHold, RepeatLimit
<1>. QED
  BY <1>1, EngineInvariance, PTL

\* An alert is delivered only when its condition has lasted (engine.go:124).
THEOREM NeverTooEarly == EngineSpec => []NotTooEarly
<1>1. EngineInv => NotTooEarly
  BY DEF EngineInv, KeyInv, LimitsHold, NotTooEarly
<1>. QED
  BY <1>1, EngineInvariance, PTL

\* An episode is submitted for diagnosis at most once (engine.go:71-77).
THEOREM OneSubmission == EngineSpec => []SubmittedOnce
<1>1. ASSUME EngineInv PROVE SubmittedOnce
  <2>1. ASSUME NEW k \in Key
        PROVE  history[k].submits <= (IF history[k].delivered > 0 THEN 1 ELSE 0)
    BY <1>1 DEF EngineInv, KeyInv, DiagnosedTellsHistory
  <2>. QED
    BY <2>1 DEF SubmittedOnce
<1>. QED
  BY <1>1, EngineInvariance, PTL

\* What a step does to the episode of a key: two deliveries lie far enough apart,
\* and the end of an episode is announced when it should be.
LEMMA StepOfEpisode ==
  ASSUME EngineInv, [EngineNext]_engineVars, NEW j \in Key
  PROVE  /\ history[j].delivered \in 1..(history'[j].delivered - 1) =>
              history'[j].last - history[j].last >= alerting[j].interval
         /\ history[j].first > 0 /\ history'[j] = Quiet =>
              (forwarding'[j] # NoEvent <=> history[j].delivered > 0 /\ ~alerting[j].noRecovery)
<1>. USE EngineAssumption DEF EngineInv, EngineTypeOK
<1>1. /\ history[j] \in HistoryType /\ CacheTellsHistory(j) /\ GatesPassed(j)
      /\ Quiet.first = 0
  BY DEF KeyInv, Quiet
<1>2. CASE history'[j] = history[j]
  BY <1>1, <1>2 DEF HistoryType
<1>3. ASSUME NEW severity \in Severity, FirstAlert(j, severity)
      PROVE  /\ history'[j].delivered = history[j].delivered
             /\ history'[j].first > 0
  BY <1>1, <1>3 DEF FirstAlert, HistoryType
<1>4. CASE Recover(j)
  <2>1. history'[j] = Quiet /\ Quiet.delivered = 0
    BY <1>4 DEF Recover, Quiet
  <2>2. ASSUME history[j].first > 0
        PROVE  forwarding'[j] # NoEvent <=>
                 history[j].delivered > 0 /\ ~alerting[j].noRecovery
    <3>1. events[j] # NoEvent /\ (events[j].sent > 0 <=> history[j].delivered > 0)
      BY <1>1, <2>2 DEF CacheTellsHistory
    <3>2. Forwarding("recovery", "Info", 0, 0) # NoEvent
      BY DEF Forwarding, ForwardType, Severity
    <3>. QED
      BY <1>4, <3>1, <3>2 DEF Recover, Announce
  <2>. QED
    BY <1>1, <2>1, <2>2 DEF HistoryType
<1>5. ASSUME NEW took \in SUBSET Notifier, Forward(j, took), Delivered(j, forwarding[j]),
             forwarding[j] # NoEvent, forwarding[j].kind # "recovery"
      PROVE  /\ history'[j].first = history[j].first
             /\ history[j].delivered > 0 =>
                  history'[j].last - history[j].last >= alerting[j].interval
  <2>1. history'[j].first = history[j].first /\ history'[j].last = forwarding[j].time
    BY <1>5 DEF Delivered, HistoryType
  <2>2. /\ events[j] # NoEvent
        /\ events[j].count > 0 => forwarding[j].time - events[j].sent >= alerting[j].interval
    BY <1>1, <1>5 DEF GatesPassed
  <2>. QED
    BY <1>1, <2>1, <2>2 DEF CacheTellsHistory
<1>6. \/ history'[j] = history[j]
      \/ \E severity \in Severity : FirstAlert(j, severity)
      \/ Recover(j)
      \/ \E took \in SUBSET Notifier : /\ Forward(j, took) /\ Delivered(j, forwarding[j])
                                        /\ forwarding[j] # NoEvent
                                        /\ forwarding[j].kind # "recovery"
  <2>1. CASE Tick \/ UNCHANGED engineVars
    BY <2>1 DEF Tick, engineVars
  <2>2. ASSUME NEW k \in Key, NEW severity \in Severity, FirstAlert(k, severity)
        PROVE  k = j \/ history'[j] = history[j]
    BY <2>2 DEF FirstAlert
  <2>3. ASSUME NEW k \in Key, NEW severity \in Severity, LaterAlert(k, severity)
        PROVE  history'[j] = history[j]
    BY <2>3 DEF LaterAlert
  <2>4. ASSUME NEW k \in Key, Recover(k)
        PROVE  k = j \/ history'[j] = history[j]
    BY <2>4 DEF Recover
  <2>5. ASSUME NEW k \in Key, NEW took \in SUBSET Notifier, Forward(k, took)
        PROVE  \/ history'[j] = history[j]
               \/ /\ k = j /\ Delivered(j, forwarding[j])
                  /\ forwarding[j] # NoEvent /\ forwarding[j].kind # "recovery"
    BY <2>5 DEF Forward, Delivered
  <2>. QED
    BY <2>1, <2>2, <2>3, <2>4, <2>5 DEF EngineNext
<1>. QED
  BY <1>1, <1>2, <1>3, <1>4, <1>5, <1>6

\* Delivered alerts of an episode keep their distance (engine.go:135).
THEOREM KeepsDistance == EngineSpec => SpacedDelivery
<1>1. EngineInv /\ [EngineNext]_engineVars =>
        [\A k \in Key : history[k].delivered \in 1..(history'[k].delivered - 1) =>
            history'[k].last - history[k].last >= alerting[k].interval]_engineVars
  BY StepOfEpisode
<1>. QED
  BY <1>1, EngineInvariance, PTL DEF EngineSpec, SpacedDelivery

\* A recovery is announced exactly when the alert was (engine.go:94).
THEOREM RecoveryAnnounced == EngineSpec => RecoveryFollowsAlert
<1>1. EngineInv /\ [EngineNext]_engineVars =>
        [\A k \in Key : history[k].first > 0 /\ history'[k] = Quiet =>
            (forwarding'[k] # NoEvent <=> history[k].delivered > 0 /\ ~alerting[k].noRecovery)]_engineVars
  BY StepOfEpisode
<1>. QED
  BY <1>1, EngineInvariance, PTL DEF EngineSpec, RecoveryFollowsAlert
=============================================================================
