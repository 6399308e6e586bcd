--------------------------- MODULE AgentConnProofs ---------------------------
(***************************************************************************)
(* Proofs about AgentConn, for every number of sessions, goroutines and    *)
(* events, and every capacity.                                             *)
(***************************************************************************)
EXTENDS AgentConn, SequenceLemmas, FiniteSetTheorems

(***************************************************************************)
(* The types, the positions of the goroutines, and the sessions.           *)
(***************************************************************************)
Events == 1..MaxEvents
Busy   == {g \in Routine : routine[g] # "free"}

Typed ==
    /\ ring \in Seq(Events) /\ Len(ring) <= RingCapacity
    /\ pushed \in 0..MaxEvents
    /\ received \in Seq(Events)
    /\ sendCh \in Seq(Batches) /\ Len(sendCh) <= SendChSize
    /\ inWriter \in Batches /\ inFlusher \in Batches

SessionsTyped ==
    /\ asked \in SessionId \cup {None}
    /\ starting \in Routine \cup {None}
    /\ sessions \in [SessionId -> Routine \cup {None}]
    /\ session \in [Routine -> SessionId \cup {None}]
    /\ routine \in [Routine -> Serving \cup {"free"}]
    /\ cancelled \subseteq Routine /\ old \subseteq Routine
    /\ sem \in 0..MaxConcurrent

\* Where the goroutines of a connection are, and what they hold there.
Positions ==
    /\ ctxDone \in BOOLEAN /\ done \in BOOLEAN
    /\ reader \in {"off", "reading", "handling", "adding", "acking",
                   "cancelling", "closing", "waiting"}
    /\ writer \in {"off", "select", "writing"}
    /\ flusher \in {"off", "select", "draining", "sending"}
    /\ heart \in {"off", "on"}
    /\ reader = "off" => writer = "off" /\ flusher = "off" /\ heart = "off"
    /\ reader \in {"off", "cancelling", "closing", "waiting"} => ctxDone
    /\ done => ctxDone
    /\ writer # "writing" => inWriter = NoEvents
    /\ flusher # "sending" => inFlusher = NoEvents

\* The session manager against the goroutines: what NoGhostSession rests on.
Bookkeeping ==
    /\ old \subseteq Busy
    /\ \A g \in Busy : session[g] # None
    /\ reader \in {"off", "closing", "waiting"} => \A i \in SessionId : sessions[i] = None
    /\ reader # "acking" => starting = None
    /\ reader = "adding" => asked \in SessionId
    /\ starting # None => routine[starting] = "starting"

\* A batch is a sequence of at most FlushBatch events (conn.go:368), and the other way
\* round.
LEMMA BatchIsSeq == \A b \in Batches : b \in Seq(Events) /\ Len(b) <= FlushBatch
<1>. SUFFICES ASSUME NEW n \in 0..FlushBatch, NEW b \in [1..n -> 1..MaxEvents]
              PROVE  b \in Seq(Events) /\ Len(b) <= FlushBatch
  BY DEF Batches
<1>. QED BY ConnAssumption DEF Events

LEMMA SeqIsBatch == \A b \in Seq(Events) : Len(b) <= FlushBatch => b \in Batches
<1>. SUFFICES ASSUME NEW b \in Seq(Events), Len(b) <= FlushBatch PROVE b \in Batches
  OBVIOUS
<1>1. Len(b) \in 0..FlushBatch /\ b \in [1..Len(b) -> 1..MaxEvents]
  BY ConnAssumption, LenProperties DEF Events
<1>. QED BY <1>1 DEF Batches

LEMMA NoEventsIsBatch == NoEvents \in Batches
<1>1. NoEvents \in Seq(Events) /\ Len(NoEvents) = 0
  BY EmptySeq DEF NoEvents
<1>2. 0 <= FlushBatch
  BY ConnAssumption
<1>. QED BY <1>1, <1>2, SeqIsBatch

\* The ring (ringbuf.go:30-74), as its specification has it.
LEMMA PushedType ==
  ASSUME NEW q \in Seq(Events), Len(q) <= RingCapacity, NEW e \in Events
  PROVE  AlertQueue!Pushed(q, e) \in Seq(Events) /\ Len(AlertQueue!Pushed(q, e)) <= RingCapacity
<1>1. CASE Len(q) < RingCapacity
  BY <1>1, AppendProperties, LenProperties, ConnAssumption DEF AlertQueue!Pushed
<1>2. CASE Len(q) >= RingCapacity
  <2>1. q # <<>> /\ Len(q) = RingCapacity
    BY <1>2, ConnAssumption, LenProperties
  <2>2. Tail(q) \in Seq(Events) /\ Len(Tail(q)) = RingCapacity - 1
    BY <2>1, HeadTailProperties
  <2>. QED BY <2>1, <2>2, AppendProperties, ConnAssumption DEF AlertQueue!Pushed
<1>. QED BY <1>1, <1>2, ConnAssumption, LenProperties

\* The beginning and the rest of a sequence.
LEMMA SplitProperties ==
  ASSUME NEW S, NEW q \in Seq(S), NEW n \in 0..Len(q)
  PROVE  /\ SubSeq(q, 1, n) \in Seq(S) /\ Len(SubSeq(q, 1, n)) = n
         /\ \A i \in 1..n : SubSeq(q, 1, n)[i] = q[i]
         /\ SubSeq(q, n + 1, Len(q)) \in Seq(S)
         /\ Len(SubSeq(q, n + 1, Len(q))) = Len(q) - n
         /\ \A i \in 1..(Len(q) - n) : SubSeq(q, n + 1, Len(q))[i] = q[n + i]
<1>1. Len(q) \in Nat /\ \A i \in 1..Len(q) : q[i] \in S
  BY LenProperties, ElementOfSeq
<1>. QED BY <1>1, SubSeqProperties

\* What a drain takes is a batch, and what it leaves fits the ring (ringbuf.go:44-66).
LEMMA DrainedType ==
  ASSUME NEW q \in Seq(Events), Len(q) <= RingCapacity
  PROVE  /\ AlertQueue!Taken(q, FlushBatch) \in Batches
         /\ AlertQueue!Left(q, FlushBatch) \in Seq(Events)
         /\ Len(AlertQueue!Left(q, FlushBatch)) <= RingCapacity
         /\ AlertQueue!DrainCount(q, FlushBatch) \in 0..Len(q)
         /\ q # <<>> => AlertQueue!DrainCount(q, FlushBatch) \in 1..Len(q)
         /\ q = <<>> => AlertQueue!Taken(q, FlushBatch) = <<>>
                        /\ AlertQueue!Left(q, FlushBatch) = <<>>
<1>1. Len(q) \in Nat /\ FlushBatch \in Nat \ {0} /\ RingCapacity \in Nat
  BY LenProperties, ConnAssumption
<1>2. PICK n \in 0..Len(q) : n = AlertQueue!DrainCount(q, FlushBatch) /\ n <= FlushBatch
  BY <1>1 DEF AlertQueue!DrainCount
<1>3. AlertQueue!Taken(q, FlushBatch) \in Seq(Events)
      /\ Len(AlertQueue!Taken(q, FlushBatch)) <= FlushBatch
  BY <1>2, SplitProperties DEF AlertQueue!Taken
<1>4. AlertQueue!Left(q, FlushBatch) \in Seq(Events)
      /\ Len(AlertQueue!Left(q, FlushBatch)) = Len(q) - n
  BY <1>2, SplitProperties DEF AlertQueue!Left
<1>5. ASSUME q # <<>> PROVE n \in 1..Len(q)
  BY <1>1, <1>2, <1>5, EmptySeq DEF AlertQueue!DrainCount
<1>6. ASSUME q = <<>>
      PROVE  AlertQueue!Taken(q, FlushBatch) = <<>> /\ AlertQueue!Left(q, FlushBatch) = <<>>
  <2>1. Len(q) = 0 /\ n = 0
    BY <1>6, <1>2, EmptySeq
  <2>. QED BY <1>2, <2>1, SubSeqEmpty DEF AlertQueue!Taken, AlertQueue!Left
<1>. QED BY <1>1, <1>2, <1>3, <1>4, <1>5, <1>6, SeqIsBatch

\* A message is put into sendCh only where it has room (conn.go:334, 397).
LEMMA PutTyped ==
  ASSUME sendCh \in Seq(Batches), Len(sendCh) <= SendChSize, NEW m \in Batches, Put(m)
  PROVE  sendCh' \in Seq(Batches) /\ Len(sendCh') <= SendChSize
<1>1. CASE Room /\ sendCh' = Append(sendCh, m)
  BY <1>1, AppendProperties, LenProperties, ConnAssumption DEF Room
<1>2. CASE sendCh' = sendCh
  BY <1>2
<1>. QED BY <1>1, <1>2 DEF Put

LEMMA TypedInit == Init => Typed
<1>. SUFFICES ASSUME Init PROVE Typed
  OBVIOUS
<1>1. \A S : <<>> \in Seq(S) /\ Len(<<>>) = 0
  BY EmptySeq
<1>. QED BY <1>1, NoEventsIsBatch, ConnAssumption DEF Init, Typed

LEMMA TypedStep == Typed /\ [Next]_vars => Typed'
<1>. SUFFICES ASSUME Typed, [Next]_vars PROVE Typed'
  OBVIOUS
<1>. USE NoEventsIsBatch, ConnAssumption DEF Typed, ringVars, flushVars, writeVars
<1>1. CASE SendAlertEvent
  <2>1. pushed + 1 \in Events
    BY <1>1 DEF SendAlertEvent, Events
  <2>2. ring' \in Seq(Events) /\ Len(ring') <= RingCapacity
    BY <1>1, <2>1, PushedType DEF SendAlertEvent
  <2>. QED BY <1>1, <2>1, <2>2 DEF SendAlertEvent, Events
<1>2. CASE Connect
  BY <1>2, EmptySeq DEF Connect
<1>3. CASE WriterTakes
  <2>1. sendCh' \in Seq(Batches) /\ inWriter' \in Batches /\ Len(sendCh') <= SendChSize
    BY <1>3, HeadTailProperties, LenProperties DEF WriterTakes
  <2>. QED BY <1>3, <2>1 DEF WriterTakes
<1>4. CASE WriteSucceeds \/ WriteFails
  <2>1. received \o inWriter \in Seq(Events)
    BY BatchIsSeq, ConcatProperties
  <2>2. received' \in Seq(Events)
    BY <1>4, <2>1 DEF WriteSucceeds, WriteFails
  <2>. QED BY <1>4, <2>2 DEF WriteSucceeds, WriteFails
<1>5. CASE Heartbeat
  <2>1. Put(NoEvents)
    BY <1>5 DEF Heartbeat, Put
  <2>. QED BY <1>5, <2>1, PutTyped DEF Heartbeat
<1>6. CASE FlushDrain
  BY <1>6, DrainedType DEF FlushDrain
<1>7. CASE FlushSend
  BY <1>7, PutTyped DEF FlushSend
<1>8. CASE SendAck
  BY <1>8, PutTyped DEF SendAck
<1>9. ASSUME NEW g \in Routine, SessionOutput(g) PROVE Typed'
  BY <1>9, PutTyped DEF SessionOutput, SessionPut
<1>10. ASSUME NEW g \in Routine, SessionFinal(g) PROVE Typed'
  BY <1>10, PutTyped DEF SessionFinal, SessionPut
<1>11. ASSUME UNCHANGED <<ringVars, sendCh, inWriter, received, inFlusher>> PROVE Typed'
  BY <1>11
<1>12. ASSUME \/ WriterQuits \/ FlushTick \/ FlusherQuits \/ HeartQuits \/ ReadMessage
              \/ ReadFails \/ HandleDisconnect \/ HandleOther
              \/ CancelAll \/ CloseDone \/ RunReturns \/ UNCHANGED vars
       PROVE  Typed'
  BY <1>11, <1>12 DEF WriterQuits, FlushTick, FlusherQuits, HeartQuits, ReadMessage, ReadFails,
       HandleDisconnect, HandleOther, CancelAll, CloseDone, RunReturns, vars
<1>13. ASSUME \/ RejectStart \/ RejectDuplicate \/ \E i \in SessionId : TakeSlot(i)
              \/ \E g \in Routine : AddSession(g)
       PROVE  Typed'
  BY <1>11, <1>13 DEF RejectStart, RejectDuplicate, TakeSlot, AddSession
<1>14. ASSUME NEW i \in SessionId, HandleCancel(i) PROVE Typed'
  BY <1>11, <1>14 DEF HandleCancel
<1>15. ASSUME NEW g \in Routine, SessionStops(g) \/ SessionRemove(g) \/ SessionRelease(g)
       PROVE  Typed'
  BY <1>11, <1>15 DEF SessionStops, SessionRemove, SessionRelease
<1>. QED
  BY <1>1, <1>2, <1>3, <1>4, <1>5, <1>6, <1>7, <1>8, <1>9, <1>10, <1>12, <1>13, <1>14, <1>15
     DEF Next, Writer, Flusher, Handle, Finish, Closing

LEMMA PositionsStep == Positions /\ [Next]_vars => Positions'
<1>. SUFFICES ASSUME Positions, [Next]_vars PROVE Positions'
  OBVIOUS
<1>. USE DEF Positions, writeVars, flushVars, connVars, readVars
<1>1. CASE SendAlertEvent
  BY <1>1 DEF SendAlertEvent
<1>2. CASE FlushDrain
  <2>1. ring = <<>> => inFlusher' = NoEvents
    <3>1. ASSUME ring = <<>> PROVE AlertQueue!Taken(ring, FlushBatch) = <<>>
      <4>1. AlertQueue!DrainCount(ring, FlushBatch) = 0
        BY <3>1, EmptySeq, ConnAssumption DEF AlertQueue!DrainCount
      <4>. QED BY <4>1, SubSeqEmpty DEF AlertQueue!Taken
    <3>. QED BY <1>2, <3>1 DEF FlushDrain, NoEvents
  <2>. QED BY <1>2, <2>1 DEF FlushDrain
<1>3. CASE Connect
  BY <1>3 DEF Connect
<1>4. CASE WriterTakes
  BY <1>4 DEF WriterTakes
<1>5. CASE WriterQuits
  BY <1>5 DEF WriterQuits
<1>6. CASE WriteSucceeds
  BY <1>6 DEF WriteSucceeds
<1>7. CASE WriteFails
  BY <1>7 DEF WriteFails
<1>8. CASE Heartbeat
  BY <1>8 DEF Heartbeat
<1>9. CASE HeartQuits
  BY <1>9 DEF HeartQuits
<1>10. CASE FlushTick
  BY <1>10 DEF FlushTick
<1>11. CASE FlusherQuits
  BY <1>11 DEF FlusherQuits
<1>12. CASE FlushSend
  BY <1>12 DEF FlushSend
<1>13. CASE ReadMessage
  BY <1>13 DEF ReadMessage
<1>14. CASE HandleDisconnect
  BY <1>14 DEF HandleDisconnect
<1>15. CASE HandleOther
  BY <1>15 DEF HandleOther
<1>16. CASE SendAck
  BY <1>16 DEF SendAck
<1>17. CASE ReadFails
  BY <1>17 DEF ReadFails
<1>18. CASE CancelAll
  BY <1>18 DEF CancelAll
<1>19. CASE CloseDone
  BY <1>19 DEF CloseDone
<1>20. CASE RunReturns
  BY <1>20 DEF RunReturns
<1>21. ASSUME \/ RejectStart \/ RejectDuplicate \/ \E i \in SessionId : TakeSlot(i)
              \/ \E g \in Routine : AddSession(g)
       PROVE  Positions'
  BY <1>21 DEF RejectStart, RejectDuplicate, TakeSlot, AddSession
<1>22. ASSUME NEW i \in SessionId, HandleCancel(i) PROVE Positions'
  BY <1>22 DEF HandleCancel
<1>23. ASSUME NEW g \in Routine, SessionOutput(g) \/ SessionStops(g) \/ Closing(g)
      PROVE  Positions'
  BY <1>23 DEF SessionOutput, SessionStops, Closing, SessionFinal, SessionRemove, SessionRelease
<1>24. CASE UNCHANGED vars
  BY <1>24 DEF vars
<1>. QED
  BY <1>1, <1>2, <1>3, <1>4, <1>5, <1>6, <1>7, <1>8, <1>9, <1>10, <1>11, <1>12, <1>13, <1>14, <1>15, <1>16, <1>17, <1>18, <1>19, <1>20, <1>21, <1>22, <1>23, <1>24
     DEF Next, Writer, Flusher, Handle, Finish

LEMMA PositionsInit == Init => Positions
BY DEF Init, Positions

(***************************************************************************)
(* The slots.                                                              *)
(***************************************************************************)
Asking == IF reader = "adding" THEN 1 ELSE 0    \* the session_start in hand has a slot

LEMMA SlotsAre == SlotsMatch <=> sem = Cardinality(Busy) + Asking
BY DEF SlotsMatch, Busy, Asking

LEMMA BusyIsFinite == IsFiniteSet(Busy) /\ Cardinality(Busy) \in Nat
<1>1. IsFiniteSet(Busy)
  BY ConnAssumption, FS_Subset DEF Busy
<1>. QED BY <1>1, FS_CardinalityType

\* An accepted session takes over the slot of its session_start (session_handler.go:63-86).
LEMMA OneMoreBusy ==
  ASSUME SlotsMatch, NEW g \in Routine, g \notin Busy, Busy' = Busy \cup {g},
         reader = "adding", reader' # "adding", sem' = sem
  PROVE  SlotsMatch'
<1>1. Cardinality(Busy') = Cardinality(Busy) + 1 /\ Cardinality(Busy) \in Nat
  BY BusyIsFinite, FS_AddElement
<1>2. Asking = 1 /\ Asking' = 0
  BY DEF Asking
<1>3. sem = Cardinality(Busy) + Asking
  BY SlotsAre
<1>4. sem' = Cardinality(Busy') + Asking'
  BY <1>1, <1>2, <1>3
<1>. QED BY <1>4 DEF SlotsMatch, Busy, Asking

\* A goroutine that ends gives its slot back (session_handler.go:83).
LEMMA OneLessBusy ==
  ASSUME SlotsMatch, NEW g \in Routine, g \in Busy, Busy' = Busy \ {g},
         reader' = reader, sem' = sem - 1
  PROVE  SlotsMatch' /\ sem > 0
<1>1. Cardinality(Busy') = Cardinality(Busy) - 1 /\ Cardinality(Busy') \in Nat /\ Cardinality(Busy) \in Nat
  BY BusyIsFinite, FS_RemoveElement, FS_CardinalityType
<1>2. Asking' = Asking /\ Asking \in 0..1
  BY DEF Asking
<1>3. sem = Cardinality(Busy) + Asking
  BY SlotsAre
<1>4. sem' = Cardinality(Busy') + Asking' /\ sem > 0
  BY <1>1, <1>2, <1>3
<1>. QED BY <1>4 DEF SlotsMatch, Busy, Asking

\* A session_start takes a slot, or gives the one it has back (session_handler.go:44, 65).
LEMMA OneMoreAsking ==
  ASSUME SlotsMatch, Busy' = Busy, reader # "adding", reader' = "adding", sem' = sem + 1
  PROVE  SlotsMatch'
<1>1. Asking = 0 /\ Asking' = 1
  BY DEF Asking
<1>2. sem = Cardinality(Busy) + Asking
  BY SlotsAre
<1>3. sem' = Cardinality(Busy') + Asking'
  BY <1>1, <1>2, BusyIsFinite
<1>. QED BY <1>3 DEF SlotsMatch, Busy, Asking

LEMMA OneLessAsking ==
  ASSUME SlotsMatch, Busy' = Busy, reader = "adding", reader' # "adding", sem' = sem - 1
  PROVE  SlotsMatch' /\ sem > 0
<1>1. Asking = 1 /\ Asking' = 0
  BY DEF Asking
<1>2. sem = Cardinality(Busy) + Asking
  BY SlotsAre
<1>3. sem' = Cardinality(Busy') + Asking' /\ sem > 0
  BY <1>1, <1>2, BusyIsFinite
<1>. QED BY <1>3 DEF SlotsMatch, Busy, Asking

\* Steps that start and end no goroutine leave the slots alone.
LEMMA SameBusy ==
  ASSUME SlotsMatch, Busy' = Busy, sem' = sem, reader = "adding" <=> reader' = "adding"
  PROVE  SlotsMatch'
BY DEF SlotsMatch, Busy

(***************************************************************************)
(* The sessions.                                                           *)
(***************************************************************************)
SessionsInv == SessionsTyped /\ Bookkeeping /\ SlotsMatch /\ NoGhostSession /\ TrackedOrCancelled

LEMMA SessionsInit == Init => SessionsInv
<1>. SUFFICES ASSUME Init PROVE SessionsInv
  OBVIOUS
<1>1. Busy = {}
  BY DEF Init, Busy
<1>2. SlotsMatch
  <2>1. Cardinality(Busy) = 0 /\ Asking = 0 /\ sem = 0
    BY <1>1, FS_EmptySet DEF Init, Asking
  <2>. QED BY <2>1, SlotsAre
<1>3. SessionsTyped /\ Bookkeeping /\ NoGhostSession /\ TrackedOrCancelled
  BY <1>1, ConnAssumption DEF Init, SessionsTyped, Bookkeeping, NoGhostSession,
                              TrackedOrCancelled, Serving
<1>. QED BY <1>2, <1>3 DEF SessionsInv

LEMMA SessionsStep == Positions /\ SessionsInv /\ [Next]_vars => SessionsInv'
<1>. SUFFICES ASSUME Positions, SessionsInv, [Next]_vars PROVE SessionsInv'
  OBVIOUS
<1>. USE ConnAssumption DEF SessionsInv, SessionsTyped, Bookkeeping, NoGhostSession,
                            TrackedOrCancelled, Serving, sessionVars, readVars
<1>1. ASSUME UNCHANGED <<sessionVars, asked, starting>>,
             reader' \in {"off", "closing", "waiting"} => reader \in {"off", "closing", "waiting"},
             reader' # "acking" => reader # "acking", reader = "adding" <=> reader' = "adding"
      PROVE  SessionsInv'
  BY <1>1, SameBusy DEF Busy
<1>2. CASE Connect
  BY <1>2, SameBusy DEF Connect, Busy
<1>3. ASSUME NEW g \in Routine, AddSession(g) PROVE SessionsInv'
  <2>. USE <1>3 DEF AddSession, Busy
  <2>1. Busy' = Busy \cup {g} /\ g \notin Busy
    OBVIOUS
  <2>2. SlotsMatch'
    BY <2>1, OneMoreBusy
  <2>3. SessionsTyped' /\ Bookkeeping'
    OBVIOUS
  <2>4. NoGhostSession'
    OBVIOUS
  <2>5. TrackedOrCancelled'
    OBVIOUS
  <2>. QED BY <2>2, <2>3, <2>4, <2>5
<1>4. ASSUME NEW i \in SessionId, TakeSlot(i) PROVE SessionsInv'
  <2>. USE <1>4 DEF TakeSlot, Busy
  <2>1. SlotsMatch'
    BY OneMoreAsking
  <2>. QED BY <2>1
<1>5. CASE RejectDuplicate
  <2>. USE <1>5 DEF RejectDuplicate, Busy
  <2>1. SlotsMatch' /\ sem > 0
    BY OneLessAsking
  <2>. QED BY <2>1
<1>6. CASE SendAck
  <2>1. \A g \in Routine : routine'[g] = IF g = starting THEN "running" ELSE routine[g]
    BY <1>6 DEF SendAck
  <2>2. Busy' = Busy
    BY <2>1 DEF Busy
  <2>. QED BY <1>6, <2>1, <2>2, SameBusy DEF SendAck, Busy
<1>7. ASSUME NEW i \in SessionId, HandleCancel(i) PROVE SessionsInv'
  BY <1>7, SameBusy DEF HandleCancel, RemoveSession, Busy
<1>8. CASE CancelAll
  BY <1>8, SameBusy DEF CancelAll, Busy
<1>9. ASSUME NEW g \in Routine, SessionStops(g) \/ SessionFinal(g) PROVE SessionsInv'
  BY <1>9, SameBusy DEF SessionStops, SessionFinal, SessionStep, Busy
<1>10. ASSUME NEW g \in Routine, SessionRemove(g) PROVE SessionsInv'
  <2>. USE <1>10 DEF SessionRemove, SessionStep
  <2>1. Busy' = Busy
    BY DEF Busy
  <2>2. CASE g \in old
    BY <2>1, <2>2, SameBusy DEF Busy
  <2>3. CASE g \notin old
    BY <2>1, <2>3, SameBusy DEF RemoveSession, Busy
  <2>. QED BY <2>2, <2>3
<1>11. ASSUME NEW g \in Routine, SessionRelease(g) PROVE SessionsInv'
  <2>. USE <1>11 DEF SessionRelease, SessionStep
  <2>1. Busy' = Busy \ {g} /\ g \in Busy
    BY DEF Busy
  <2>2. SlotsMatch' /\ sem > 0
    BY <2>1, OneLessBusy
  <2>. QED BY <2>1, <2>2 DEF Busy
<1>12. ASSUME \/ SendAlertEvent \/ Writer \/ Heartbeat \/ HeartQuits \/ Flusher
              \/ (\E g \in Routine : SessionOutput(g)) \/ UNCHANGED vars
       PROVE  SessionsInv'
  <2>1. UNCHANGED <<sessionVars, asked, starting, reader>>
    BY <1>12 DEF SendAlertEvent, Writer, WriterTakes, WriterQuits, WriteSucceeds, WriteFails,
                 Heartbeat, HeartQuits, Flusher, FlushTick, FlusherQuits, FlushDrain, FlushSend,
                 SessionOutput, vars
  <2>. QED BY <1>1, <2>1
<1>13. ASSUME \/ ReadMessage \/ RejectStart \/ HandleDisconnect \/ HandleOther \/ ReadFails
              \/ CloseDone \/ RunReturns
       PROVE  SessionsInv'
  BY <1>1, <1>13 DEF ReadMessage, RejectStart, HandleDisconnect, HandleOther, ReadFails,
                     CloseDone, RunReturns
<1>. QED
  BY <1>2, <1>3, <1>4, <1>5, <1>6, <1>7, <1>8, <1>9, <1>10, <1>11, <1>12, <1>13
     DEF Next, Handle, Finish, Closing

ConnInv == Typed /\ Positions /\ SessionsInv

LEMMA ConnInvariant == Spec => []ConnInv
<1>1. Init => ConnInv
  BY TypedInit, PositionsInit, SessionsInit DEF ConnInv
<1>2. ConnInv /\ [Next]_vars => ConnInv'
  BY TypedStep, PositionsStep, SessionsStep DEF ConnInv
<1>. QED BY <1>1, <1>2, PTL DEF Spec

LEMMA ConnInvImplies == ConnInv => TypeOK /\ SlotsMatch /\ NoGhostSession /\ TrackedOrCancelled
BY DEF ConnInv, Typed, Positions, SessionsInv, SessionsTyped, TypeOK, Events

\* sendCh and the ring stay within their capacities and a batch within its limit
\* (conn.go:99, 366-401, ringbuf.go), and the limiter's count within its slots.
THEOREM ConnTypeCorrect == Spec => []TypeOK
BY ConnInvariant, ConnInvImplies, PTL

\* A slot is held by exactly the session goroutines that have not ended, those of earlier
\* connections included, and by the session_start in hand until it is accepted or its id
\* is found in use (session_handler.go:43-86).
THEOREM SlotsAreMatched == Spec => []SlotsMatch
BY ConnInvariant, ConnInvImplies, PTL

\* No session runs on that neither the server's cancel nor the end of a connection finds:
\* it is tracked under its id, or its context is cancelled; and no id stays tracked after
\* its goroutine (session.go:77, 88-109, 125-143).
THEOREM SessionsAreTracked == Spec => []SessionsKnown
BY ConnInvariant, ConnInvImplies, PTL DEF SessionsKnown

(***************************************************************************)
(* The events on their way.                                                *)
(***************************************************************************)
Flight(w, s, b) == w \o FlattenSeq(s) \o b

\* The channel holds sequences of events.
LEMMA ChannelOfSeqs == \A s \in Seq(Batches) : s \in Seq(Seq(Events))
<1>1. Batches \subseteq Seq(Events)
  BY BatchIsSeq
<1>. QED BY <1>1, SeqMonotonic

LEMMA FlatChannel == \A s \in Seq(Batches) : FlattenSeq(s) \in Seq(Events)
BY ChannelOfSeqs, FlattenType

\* What is in flight is a sequence of events (conn.go:366-401).
LEMMA FlightType ==
  ASSUME NEW w \in Seq(Events), NEW s \in Seq(Batches), NEW b \in Seq(Events)
  PROVE  Flight(w, s, b) \in Seq(Events)
<1>1. w \o FlattenSeq(s) \in Seq(Events)
  BY FlatChannel, ConcatProperties
<1>. QED BY <1>1, ConcatProperties DEF Flight

\* What the writer holds comes first,
LEMMA FlightWritten ==
  ASSUME NEW w \in Seq(Events), NEW s \in Seq(Batches), NEW b \in Seq(Events)
  PROVE  Flight(w, s, b) = w \o Flight(<<>>, s, b)
<1>1. FlattenSeq(s) \in Seq(Events)
  BY FlatChannel
<1>2. Associates(w, FlattenSeq(s), b)
  BY <1>1, ConcatThree
<1>3. <<>> \o FlattenSeq(s) = FlattenSeq(s)
  BY <1>1, ConcatEmptySeq
<1>. QED BY <1>2, <1>3, Zenon DEF Flight, Associates

\* what the flusher holds comes last,
LEMMA FlightDrained ==
  ASSUME NEW w \in Seq(Events), NEW s \in Seq(Batches), NEW b
  PROVE  Flight(w, s, b) = Flight(w, s, <<>>) \o b
<1>1. w \o FlattenSeq(s) \in Seq(Events)
  BY FlatChannel, ConcatProperties
<1>2. (w \o FlattenSeq(s)) \o <<>> = w \o FlattenSeq(s)
  BY <1>1, ConcatEmptySeq
<1>. QED BY <1>2, Zenon DEF Flight

\* and moves into the channel without changing what is in flight.
LEMMA FlightSent ==
  ASSUME NEW w \in Seq(Events), NEW s \in Seq(Batches), NEW b \in Seq(Events)
  PROVE  Flight(w, Append(s, b), <<>>) = Flight(w, s, b)
<1>1. FlattenSeq(s) \in Seq(Events)
  BY FlatChannel
<1>2. FlattenSeq(Append(s, b)) = FlattenSeq(s) \o b
  BY ChannelOfSeqs, FlattenAppend
<1>3. Associates(w, FlattenSeq(s), b)
  BY <1>1, ConcatThree
<1>4. w \o (FlattenSeq(s) \o b) \in Seq(Events)
  BY <1>1, ConcatProperties
<1>5. (w \o (FlattenSeq(s) \o b)) \o <<>> = w \o (FlattenSeq(s) \o b)
  BY <1>4, ConcatEmptySeq
<1>. QED BY <1>2, <1>3, <1>5, Zenon DEF Flight, Associates

\* A message without events changes nothing.
LEMMA FlightSkip ==
  ASSUME NEW w, NEW s \in Seq(Batches), NEW b
  PROVE  Flight(w, Append(s, NoEvents), b) = Flight(w, s, b)
<1>1. FlattenSeq(s) \in Seq(Events) /\ NoEvents \in Seq(Events)
  BY FlatChannel, EmptySeq DEF NoEvents
<1>2. FlattenSeq(Append(s, NoEvents)) = FlattenSeq(s) \o NoEvents
  BY <1>1, ChannelOfSeqs, FlattenAppend
<1>3. FlattenSeq(s) \o NoEvents = FlattenSeq(s)
  BY <1>1, ConcatEmptySeq DEF NoEvents
<1>. QED BY <1>2, <1>3, Zenon DEF Flight

\* What the writer takes is the head of the channel.
LEMMA FlightTaken ==
  ASSUME NEW s \in Seq(Batches), s # <<>>, NEW b
  PROVE  Flight(Head(s), Tail(s), b) = Flight(<<>>, s, b)
<1>1. FlattenSeq(s) \in Seq(Events)
  BY FlatChannel
<1>2. FlattenSeq(s) = Head(s) \o FlattenSeq(Tail(s))
  BY ChannelOfSeqs, FlattenHead
<1>3. <<>> \o FlattenSeq(s) = FlattenSeq(s)
  BY <1>1, ConcatEmptySeq
<1>. QED BY <1>2, <1>3, Zenon DEF Flight

LEMMA FlightEmpty == Flight(<<>>, <<>>, <<>>) = <<>>
<1>1. <<>> \o <<>> = <<>>
  BY EmptySeq, ConcatEmptySeq
<1>. QED BY <1>1, FlattenEmpty, Zenon DEF Flight

(***************************************************************************)
(* Every step of the connection is one of the channel, or none.            *)
(***************************************************************************)

\* What is in front, and what is behind it.
LEMMA SplitConcat ==
  ASSUME NEW w \in Seq(Events), NEW r \in Seq(Events)
  PROVE  /\ Len(w) \in 0..Len(w \o r)
         /\ w # <<>> => Len(w) \in 1..Len(w \o r)
         /\ Channel!First(w \o r, Len(w)) = w
         /\ Channel!Rest(w \o r, Len(w)) = r
<1>. DEFINE q == w \o r
            n == Len(w)
            k == Len(r)
<1>1. /\ q \in Seq(Events) /\ n \in Nat /\ k \in Nat /\ Len(q) = n + k
      /\ \A i \in 1..(n + k) : q[i] = IF i <= n THEN w[i] ELSE r[i - n]
      /\ w # <<>> => n > 0
  BY ConcatProperties, LenProperties, EmptySeq
<1>. HIDE DEF q, n, k
<1>2. n \in 0..Len(q)
  BY <1>1
<1>3. /\ SubSeq(q, 1, n) \in Seq(Events) /\ Len(SubSeq(q, 1, n)) = n
      /\ \A i \in 1..n : SubSeq(q, 1, n)[i] = q[i]
      /\ SubSeq(q, n + 1, Len(q)) \in Seq(Events) /\ Len(SubSeq(q, n + 1, Len(q))) = k
      /\ \A i \in 1..k : SubSeq(q, n + 1, Len(q))[i] = q[n + i]
  BY <1>1, <1>2, SplitProperties
<1>4. SubSeq(q, 1, n) = w
  <2>1. \A i \in 1..n : SubSeq(q, 1, n)[i] = w[i]
    BY <1>1, <1>3
  <2>2. Len(w) = n
    BY DEF n
  <2>. QED BY <1>3, <2>1, <2>2, SeqEqual
<1>5. SubSeq(q, n + 1, Len(q)) = r
  <2>1. \A i \in 1..k : SubSeq(q, n + 1, Len(q))[i] = r[i]
    BY <1>1, <1>3
  <2>2. Len(r) = k
    BY DEF k
  <2>. QED BY <1>3, <2>1, <2>2, SeqEqual
<1>6. n \in 0..Len(q) /\ (w # <<>> => n \in 1..Len(q))
  BY <1>1
<1>. QED BY <1>4, <1>5, <1>6 DEF Channel!First, Channel!Rest, q, n

\* A loss of everything behind a, of everything in front, and of nothing.
LEMMA LoseRest ==
  ASSUME NEW a \in Seq(Events), NEW b \in Seq(Events)
  PROVE  \E n, m \in 0..Len(a \o b) :
            n <= m /\ a = Channel!First(a \o b, n) \o Channel!Rest(a \o b, m)
<1>1. PICK q \in Seq(Events) : q = a \o b
  BY ConcatProperties
<1>2. Len(q) \in Nat /\ Len(a) \in 0..Len(q) /\ Channel!First(q, Len(a)) = a
  BY <1>1, SplitConcat, LenProperties
<1>3. Channel!Rest(q, Len(q)) = <<>>
  BY <1>2, SubSeqEmpty DEF Channel!Rest
<1>4. a \o <<>> = a
  BY ConcatEmptySeq
<1>5. Len(a) <= Len(q) /\ Len(q) \in 0..Len(q)
  BY <1>2
<1>. QED BY <1>1, <1>2, <1>3, <1>4, <1>5

\* To lose what the writer holds is to lose a part of what is in flight,
LEMMA LoseFirst ==
  ASSUME NEW a \in Seq(Events), NEW b \in Seq(Events)
  PROVE  \E n, m \in 0..Len(a \o b) :
            n <= m /\ b = Channel!First(a \o b, n) \o Channel!Rest(a \o b, m)
<1>1. PICK q \in Seq(Events) : q = a \o b
  BY ConcatProperties
<1>2. Len(q) \in Nat /\ Len(a) \in 0..Len(q) /\ Channel!Rest(q, Len(a)) = b
  BY <1>1, SplitConcat, LenProperties
<1>3. Channel!First(q, 0) = <<>>
  BY SubSeqEmpty DEF Channel!First
<1>4. <<>> \o b = b
  BY ConcatEmptySeq
<1>5. 0 <= Len(a) /\ 0 \in 0..Len(q)
  BY <1>2
<1>. QED BY <1>1, <1>2, <1>3, <1>4, <1>5

\* and so is to lose nothing.
LEMMA LoseNothing ==
  ASSUME NEW q \in Seq(Events)
  PROVE  \E n, m \in 0..Len(q) : n <= m /\ q = Channel!First(q, n) \o Channel!Rest(q, m)
<1>1. <<>> \o q = q
  BY ConcatEmptySeq
<1>2. \E n, m \in 0..Len(<<>> \o q) :
         n <= m /\ q = Channel!First(<<>> \o q, n) \o Channel!Rest(<<>> \o q, m)
  BY EmptySeq, LoseFirst
<1>. QED BY <1>1, <1>2

\* What is in flight, in the places where it is.
LEMMA InFlightIs ==
  /\ InFlight = Flight(inWriter, sendCh, inFlusher)
  /\ InFlight' = Flight(inWriter', sendCh', inFlusher')
BY DEF InFlight, Flight

\* Every step is a step of the channel or concerns no event.
LEMMA ChannelStep ==
  ConnInv /\ [Next]_vars => [Channel!Next]_(Channel!channelVars)
<1>. SUFFICES ASSUME ConnInv, [Next]_vars
              PROVE  [Channel!Next]_(Channel!channelVars)
  OBVIOUS
<1>. DEFINE Goal == [Channel!Next]_(Channel!channelVars)
            Still == /\ pushed' = pushed /\ ring' = ring /\ received' = received
                     /\ ctxDone' = ctxDone
<1>1. /\ sendCh \in Seq(Batches) /\ inWriter \in Seq(Events) /\ inFlusher \in Seq(Events)
      /\ ring \in Seq(Events) /\ received \in Seq(Events) /\ ctxDone \in BOOLEAN
  BY BatchIsSeq DEF ConnInv, Typed, Positions
<1>2. InFlight \in Seq(Events)
  BY <1>1, InFlightIs, FlightType
<1>3. ASSUME Still, InFlight' = InFlight PROVE Goal
  <2>1. UNCHANGED Channel!channelVars
    BY <1>3 DEF Channel!channelVars
  <2>. QED BY <2>1
<1>4. ASSUME Still, UNCHANGED <<sendCh, inWriter, inFlusher>> PROVE Goal
  <2>1. InFlight' = InFlight
    BY <1>4, InFlightIs
  <2>. QED BY <1>3, <1>4, <2>1
<1>5. ASSUME Still, UNCHANGED <<inWriter, inFlusher>>, Put(NoEvents) PROVE Goal
  <2>1. InFlight' = InFlight
    <3>1. CASE sendCh' = Append(sendCh, NoEvents)
      BY <1>1, <1>5, <3>1, InFlightIs, FlightSkip
    <3>2. CASE sendCh' = sendCh
      BY <1>5, <3>2, InFlightIs
    <3>. QED BY <1>5, <3>1, <3>2 DEF Put
  <2>. QED BY <1>3, <1>5, <2>1
<1>6. ASSUME pushed' = pushed, ring' = ring, received' = received,
             UNCHANGED <<sendCh, inWriter, inFlusher>>, ctxDone' = TRUE
      PROVE  Goal
  <2>1. InFlight' = InFlight
    BY <1>6, InFlightIs
  <2>2. Channel!Lose
    BY <1>2, <1>6, <2>1, LoseNothing DEF Channel!Lose
  <2>. QED BY <2>2 DEF Channel!Next
<1>. USE DEF ringVars, flushVars, writeVars, sessionVars, connVars, readVars
<1>7. CASE SendAlertEvent
  <2>1. InFlight' = InFlight
    BY <1>7, InFlightIs DEF SendAlertEvent
  <2>2. Channel!Raise
    BY <1>7, <2>1 DEF SendAlertEvent, Channel!Raise, AlertQueue!Pushed
  <2>. QED BY <2>2 DEF Channel!Next
<1>8. CASE Connect
  <2>1. inWriter = <<>> /\ inFlusher = <<>> /\ ctxDone
    BY <1>8 DEF ConnInv, Positions, Connect, NoEvents
  <2>2. InFlight' = <<>>
    BY <1>8, <2>1, InFlightIs, FlightEmpty DEF Connect
  <2>3. Channel!Reconnect
    BY <1>8, <2>1, <2>2 DEF Connect, Channel!Reconnect
  <2>. QED BY <2>3 DEF Channel!Next
<1>9. CASE WriterTakes
  <2>1. inWriter = <<>>
    BY <1>9 DEF ConnInv, Positions, WriterTakes, NoEvents
  <2>2. InFlight' = InFlight
    BY <1>1, <1>9, <2>1, InFlightIs, FlightTaken DEF WriterTakes
  <2>. QED BY <1>3, <1>9, <2>2 DEF WriterTakes
<1>10. ASSUME WriteSucceeds \/ WriteFails PROVE Goal
  <2>1. PICK r \in Seq(Events) : r = Flight(<<>>, sendCh, inFlusher)
    BY <1>1, EmptySeq, FlightType
  <2>2. InFlight = inWriter \o r
    BY <1>1, <2>1, InFlightIs, FlightWritten
  <2>3. InFlight' = r
    BY <1>10, <2>1, InFlightIs DEF WriteSucceeds, WriteFails, NoEvents
  <2>4. pushed' = pushed /\ ring' = ring
    BY <1>10 DEF WriteSucceeds, WriteFails
  <2>5. ASSUME received' = received \o inWriter, inWriter # <<>>
        PROVE  \E n \in 1..Len(InFlight) :
                  /\ received' = received \o Channel!First(InFlight, n)
                  /\ InFlight' = Channel!Rest(InFlight, n)
    BY <1>1, <2>2, <2>3, <2>5, SplitConcat
  <2>6. ASSUME received' = received \o inWriter, inWriter = <<>>
        PROVE  received' = received /\ InFlight' = InFlight
    <3>1. received \o <<>> = received /\ <<>> \o r = r
      BY <1>1, ConcatEmptySeq
    <3>. QED BY <2>2, <2>3, <2>6, <3>1
  <2>7. CASE WriteSucceeds
    <3>1. CASE inWriter # <<>>
      <4>1. Channel!Deliver
        BY <2>4, <2>5, <2>7, <3>1 DEF WriteSucceeds, Channel!Deliver
      <4>. QED BY <4>1 DEF Channel!Next
    <3>2. CASE inWriter = <<>>
      BY <1>3, <2>4, <2>6, <2>7, <3>2 DEF WriteSucceeds
    <3>. QED BY <3>1, <3>2
  <2>8. CASE WriteFails /\ received' = received
    <3>1. \E n, m \in 0..Len(InFlight) :
             n <= m /\ InFlight' = Channel!First(InFlight, n) \o Channel!Rest(InFlight, m)
      <4>1. \E n, m \in 0..Len(inWriter \o r) :
               n <= m /\ r = Channel!First(inWriter \o r, n) \o Channel!Rest(inWriter \o r, m)
        BY <1>1, LoseFirst
      <4>. QED BY <2>2, <2>3, <4>1, Zenon
    <3>2. (~ctxDone)' = FALSE
      BY <2>8 DEF WriteFails
    <3>3. Channel!Lose
      BY <2>4, <2>8, <3>1, <3>2, Zenon DEF Channel!Lose
    <3>. QED BY <3>3 DEF Channel!Next
  <2>9. CASE WriteFails /\ received' = received \o inWriter
    <3>1. CASE inWriter # <<>>
      <4>1. Channel!DeliverLast
        BY <2>4, <2>5, <2>9, <3>1 DEF WriteFails, Channel!DeliverLast
      <4>. QED BY <4>1 DEF Channel!Next
    <3>2. CASE inWriter = <<>>
      BY <2>6, <2>8, <2>9, <3>2
    <3>. QED BY <3>1, <3>2
  <2>. QED BY <1>10, <2>7, <2>8, <2>9 DEF WriteFails
<1>11. CASE FlushDrain
  <2>1. inFlusher = <<>>
    BY <1>11 DEF ConnInv, Positions, FlushDrain, NoEvents
  <2>2. PICK n \in 0..Len(ring) :
          /\ n = AlertQueue!DrainCount(ring, FlushBatch)
          /\ ring # <<>> => n \in 1..Len(ring)
          /\ ring = <<>> => AlertQueue!Taken(ring, FlushBatch) = <<>>
                            /\ AlertQueue!Left(ring, FlushBatch) = <<>>
    BY <1>1, DrainedType DEF ConnInv, Typed
  <2>3. CASE ring = <<>>
    <3>1. ring' = ring /\ inFlusher' = inFlusher
      BY <1>11, <2>1, <2>2, <2>3 DEF FlushDrain
    <3>. QED BY <1>4, <1>11, <3>1 DEF FlushDrain
  <2>4. CASE ring # <<>>
    <3>1. inFlusher' = Channel!First(ring, n) /\ ring' = Channel!Rest(ring, n)
      BY <1>11, <2>2 DEF FlushDrain, Channel!First, Channel!Rest,
                         AlertQueue!Taken, AlertQueue!Left
    <3>2. InFlight' = InFlight \o inFlusher'
      BY <1>1, <1>11, <2>1, InFlightIs, FlightDrained DEF FlushDrain
    <3>3. Channel!Carry
      BY <1>11, <2>2, <2>4, <3>1, <3>2 DEF FlushDrain, Channel!Carry
    <3>. QED BY <3>3 DEF Channel!Next
  <2>. QED BY <2>3, <2>4
<1>12. CASE FlushSend
  <2>1. CASE sendCh' = Append(sendCh, inFlusher)
    <3>1. InFlight' = InFlight
      BY <1>1, <1>12, <2>1, InFlightIs, FlightSent DEF FlushSend, NoEvents
    <3>. QED BY <1>3, <1>12, <3>1 DEF FlushSend
  <2>2. CASE done /\ sendCh' = sendCh
    <3>1. PICK a \in Seq(Events) : a = Flight(inWriter, sendCh, <<>>)
      BY <1>1, EmptySeq, FlightType
    <3>2. InFlight = a \o inFlusher /\ InFlight' = a
      BY <1>1, <1>12, <2>2, <3>1, InFlightIs, FlightDrained DEF FlushSend, NoEvents
    <3>3. ctxDone' = TRUE
      BY <1>1, <1>12, <2>2 DEF FlushSend, ConnInv, Positions
    <3>4. pushed' = pushed /\ ring' = ring /\ received' = received
      BY <1>12 DEF FlushSend
    <3>5. \E n, m \in 0..Len(InFlight) :
            n <= m /\ InFlight' = Channel!First(InFlight, n) \o Channel!Rest(InFlight, m)
      <4>1. \E n, m \in 0..Len(a \o inFlusher) :
              n <= m /\ a = Channel!First(a \o inFlusher, n) \o Channel!Rest(a \o inFlusher, m)
        BY <1>1, LoseRest
      <4>. QED BY <3>2, <4>1
    <3>6. Channel!Lose
      BY <3>3, <3>4, <3>5 DEF Channel!Lose
    <3>. QED BY <3>6 DEF Channel!Next
  <2>. QED BY <1>12, <2>1, <2>2 DEF FlushSend, Put
<1>13. CASE Heartbeat
  BY <1>5, <1>13 DEF Heartbeat, Put
<1>14. CASE SendAck
  BY <1>5, <1>14 DEF SendAck
<1>15. ASSUME NEW g \in Routine, SessionOutput(g) \/ SessionFinal(g) PROVE Goal
  BY <1>4, <1>5, <1>15 DEF SessionOutput, SessionFinal, SessionPut
<1>16. CASE HandleDisconnect \/ ReadFails
  BY <1>6, <1>16 DEF HandleDisconnect, ReadFails
<1>17. CASE WriterQuits \/ HeartQuits \/ FlushTick \/ FlusherQuits \/ ReadMessage \/ HandleOther
            \/ CancelAll \/ CloseDone \/ RunReturns
  BY <1>4, <1>17 DEF WriterQuits, HeartQuits, FlushTick, FlusherQuits, ReadMessage, HandleOther,
                     CancelAll, CloseDone, RunReturns
<1>18. ASSUME \/ RejectStart \/ RejectDuplicate \/ \E i \in SessionId : TakeSlot(i)
              \/ \E g \in Routine : AddSession(g)
       PROVE  Goal
  BY <1>4, <1>18 DEF RejectStart, RejectDuplicate, TakeSlot, AddSession
<1>19. ASSUME NEW i \in SessionId, HandleCancel(i) PROVE Goal
  BY <1>4, <1>19 DEF HandleCancel
<1>20. ASSUME NEW g \in Routine, SessionStops(g) \/ SessionRemove(g) \/ SessionRelease(g) PROVE Goal
  BY <1>4, <1>20 DEF SessionStops, SessionRemove, SessionRelease
<1>21. CASE UNCHANGED vars
  BY <1>4, <1>21 DEF vars
<1>. QED
  BY <1>7, <1>8, <1>9, <1>10, <1>11, <1>12, <1>13, <1>14, <1>15, <1>16, <1>17, <1>18, <1>19,
     <1>20, <1>21
     DEF Next, Writer, Flusher, Handle, Finish, Closing

LEMMA ChannelInit == Init => Channel!Init
BY InFlightIs, FlightEmpty DEF Init, Channel!Init, NoEvents

\* Over batches, sendCh, failed writes and new connections, events reach the server
\* in their order and at most once, and only the full ring or the end of a
\* connection loses one (conn.go:366-401).
THEOREM ImplementsChannel == Spec => ChannelSpec
<1>1. Init => Channel!Init
  BY ChannelInit
<1>2. ConnInv /\ [Next]_vars => [Channel!Next]_(Channel!channelVars)
  BY ChannelStep
<1>. QED BY <1>1, <1>2, ConnInvariant, PTL DEF Spec, ChannelSpec, Channel!Spec

(***************************************************************************)
(* The order of the events, from the channel's steps alone.                *)
(***************************************************************************)
Ascending(q) == \A i, j \in 1..Len(q) : i < j => q[i] < q[j]
Before(q, r) == \A i \in 1..Len(q), j \in 1..Len(r) : q[i] < r[j]
UpTo(q, n)   == \A i \in 1..Len(q) : q[i] <= n

\* Orders of two sequences and of their concatenation.
LEMMA ConcatOrder ==
  ASSUME NEW q \in Seq(Events), NEW r \in Seq(Events)
  PROVE  /\ Ascending(q) /\ Ascending(r) /\ Before(q, r) => Ascending(q \o r)
         /\ \A t : Before(q, t) /\ Before(r, t) => Before(q \o r, t)
         /\ \A t : Before(t, q) /\ Before(t, r) => Before(t, q \o r)
         /\ \A n : UpTo(q, n) /\ UpTo(r, n) => UpTo(q \o r, n)
<1>. PICK c \in Seq(Events) : c = q \o r
  BY ConcatProperties
<1>1. Len(q) \in Nat /\ Len(r) \in Nat
  BY LenProperties
<1>2. Len(c) = Len(q) + Len(r)
  BY ConcatProperties
<1>3. \A i \in 1..Len(c) : \/ i \in 1..Len(q) /\ c[i] = q[i]
                           \/ i - Len(q) \in 1..Len(r) /\ i > Len(q) /\ c[i] = r[i - Len(q)]
  BY <1>1, <1>2, ConcatProperties
<1>4. ASSUME Ascending(q), Ascending(r), Before(q, r) PROVE Ascending(c)
  <2>. SUFFICES ASSUME NEW i \in 1..Len(c), NEW j \in 1..Len(c), i < j PROVE c[i] < c[j]
    BY DEF Ascending
  <2>1. CASE j \in 1..Len(q) /\ c[j] = q[j]
    <3>1. i \in 1..Len(q) /\ c[i] = q[i]
      BY <1>1, <1>3, <2>1
    <3>. QED BY <1>4, <2>1, <3>1 DEF Ascending
  <2>2. CASE j - Len(q) \in 1..Len(r) /\ j > Len(q) /\ c[j] = r[j - Len(q)]
    <3>1. CASE i \in 1..Len(q) /\ c[i] = q[i]
      BY <1>4, <2>2, <3>1 DEF Before
    <3>2. CASE i - Len(q) \in 1..Len(r) /\ c[i] = r[i - Len(q)]
      <4>1. i - Len(q) < j - Len(q)
        BY <1>1, <1>2
      <4>. QED BY <1>4, <2>2, <3>2, <4>1 DEF Ascending
    <3>. QED BY <1>3, <3>1, <3>2
  <2>. QED BY <1>3, <2>1, <2>2
<1>5. \A t : Before(q, t) /\ Before(r, t) => Before(c, t)
  BY <1>3 DEF Before
<1>6. \A t : Before(t, q) /\ Before(t, r) => Before(t, c)
  BY <1>3 DEF Before
<1>7. \A n : UpTo(q, n) /\ UpTo(r, n) => UpTo(c, n)
  BY <1>3 DEF UpTo
<1>. QED BY <1>4, <1>5, <1>6, <1>7

\* A part in front and a part behind it, or behind what follows it.
LEMMA PiecesOrder ==
  ASSUME NEW q \in Seq(Events), NEW n \in 0..Len(q)
  PROVE  /\ Channel!First(q, n) \in Seq(Events) /\ Channel!Rest(q, n) \in Seq(Events)
         /\ Ascending(q) => Ascending(Channel!First(q, n)) /\ Ascending(Channel!Rest(q, n))
         /\ \A m \in 0..Len(q) :
              Ascending(q) /\ n <= m => Before(Channel!First(q, n), Channel!Rest(q, m))
         /\ \A t : Before(q, t) => Before(Channel!First(q, n), t) /\ Before(Channel!Rest(q, n), t)
         /\ \A t : Before(t, q) => Before(t, Channel!First(q, n)) /\ Before(t, Channel!Rest(q, n))
         /\ \A k : UpTo(q, k) => UpTo(Channel!First(q, n), k) /\ UpTo(Channel!Rest(q, n), k)
<1>1. Len(q) \in Nat
  BY LenProperties
<1>. DEFINE F == Channel!First(q, n)
            R(m) == Channel!Rest(q, m)
<1>2. F \in Seq(Events) /\ Len(F) = n /\ \A i \in 1..n : F[i] = q[i]
  BY SplitProperties DEF Channel!First
<1>3. \A m \in 0..Len(q) : /\ R(m) \in Seq(Events) /\ Len(R(m)) = Len(q) - m
                           /\ \A i \in 1..(Len(q) - m) : R(m)[i] = q[m + i]
  BY SplitProperties DEF Channel!Rest
<1>4. R(n) \in Seq(Events)
  BY <1>3
<1>. HIDE DEF F, R
<1>5. \A i \in 1..Len(F) : i \in 1..Len(q) /\ F[i] = q[i]
  BY <1>1, <1>2
<1>6. \A m \in 0..Len(q) : \A i \in 1..Len(R(m)) : m + i \in 1..Len(q) /\ R(m)[i] = q[m + i]
  BY <1>1, <1>3
<1>7. \A i \in 1..Len(R(n)) : n + i \in 1..Len(q) /\ R(n)[i] = q[n + i]
  BY <1>6
<1>8. ASSUME Ascending(q) PROVE Ascending(F) /\ Ascending(R(n))
  <2>1. Len(F) \in Nat /\ Len(R(n)) \in Nat
    BY <1>2, <1>4, LenProperties
  <2>. QED BY <1>5, <1>7, <1>8, <2>1 DEF Ascending
<1>9. ASSUME NEW m \in 0..Len(q), Ascending(q), n <= m PROVE Before(F, R(m))
  <2>1. Len(R(m)) \in Nat
    BY <1>3, LenProperties
  <2>2. \A i \in 1..Len(F), j \in 1..Len(R(m)) : i < m + j
    BY <1>2, <1>9, <2>1
  <2>. QED BY <1>5, <1>6, <1>9, <2>2 DEF Ascending, Before
<1>10. \A t : Before(q, t) => Before(F, t) /\ Before(R(n), t)
  BY <1>5, <1>7 DEF Before
<1>11. \A t : Before(t, q) => Before(t, F) /\ Before(t, R(n))
  BY <1>5, <1>7 DEF Before
<1>12. \A k : UpTo(q, k) => UpTo(F, k) /\ UpTo(R(n), k)
  BY <1>5, <1>7 DEF UpTo
<1>. QED BY <1>2, <1>4, <1>8, <1>9, <1>10, <1>11, <1>12 DEF F, R

\* The newest event at the end keeps the order.
LEMMA AppendOrder ==
  ASSUME NEW q \in Seq(Events), NEW n \in Nat, UpTo(q, n), n + 1 \in Events
  PROVE  /\ Ascending(q) => Ascending(Append(q, n + 1))
         /\ UpTo(Append(q, n + 1), n + 1)
         /\ \A t \in Seq(Events) : Before(t, q) /\ UpTo(t, n) => Before(t, Append(q, n + 1))
<1>. PICK e \in Events : e = n + 1
  OBVIOUS
<1>. PICK a \in Seq(Events) : a = Append(q, e)
  BY AppendProperties
<1>1. Len(q) \in Nat /\ \A i \in 1..Len(q) : q[i] \in Events
  BY LenProperties, ElementOfSeq
<1>2. Len(a) = Len(q) + 1 /\ a[Len(q) + 1] = e /\ \A i \in 1..Len(q) : a[i] = q[i]
  BY AppendProperties
<1>3. \A i \in 1..Len(a) : \/ i \in 1..Len(q) /\ a[i] = q[i]
                           \/ i = Len(q) + 1 /\ a[i] = e
  BY <1>1, <1>2
<1>4. Ascending(q) => Ascending(a)
  BY <1>1, <1>3 DEF Ascending, UpTo, Events
<1>5. UpTo(a, e)
  BY <1>1, <1>3 DEF UpTo, Events
<1>6. ASSUME NEW t \in Seq(Events), Before(t, q), UpTo(t, n) PROVE Before(t, a)
  <2>1. \A i \in 1..Len(t) : t[i] \in Events
    BY ElementOfSeq
  <2>. QED BY <1>3, <1>6, <2>1 DEF Before, UpTo, Events
<1>. QED BY <1>4, <1>5, <1>6

\* What has been received, is on its way, and waits.
Sorted ==
    /\ Ascending(received) /\ Ascending(InFlight) /\ Ascending(ring)
    /\ Before(received, InFlight) /\ Before(received, ring) /\ Before(InFlight, ring)
    /\ UpTo(received, pushed) /\ UpTo(InFlight, pushed) /\ UpTo(ring, pushed)

LEMMA EmptyOrder == Ascending(<<>>) /\ \A t : Before(<<>>, t) /\ Before(t, <<>>) /\ UpTo(<<>>, t)
BY EmptySeq DEF Ascending, Before, UpTo

LEMMA FlightTyped == ConnInv => InFlight \in Seq(Events)
BY BatchIsSeq, InFlightIs, FlightType DEF ConnInv, Typed

LEMMA SortedInit == Init => Sorted
BY InFlightIs, FlightEmpty, EmptyOrder DEF Init, Sorted, NoEvents

\* The channel keeps the order.
LEMMA SortedStep ==
  ASSUME ConnInv, ConnInv', Sorted, [Channel!Next]_(Channel!channelVars)
  PROVE  Sorted'
<1>1. /\ received \in Seq(Events) /\ InFlight \in Seq(Events) /\ ring \in Seq(Events)
      /\ pushed \in 0..MaxEvents /\ pushed' \in 0..MaxEvents
  BY FlightTyped DEF ConnInv, Typed
<1>. DEFINE f == InFlight
            fp == InFlight'
<1>. HIDE DEF f, fp
<1>. USE DEF Sorted
<1>2. CASE Channel!Raise
  <2>1. PICK q \in Seq(Events) :
          /\ Ascending(q) /\ UpTo(q, pushed) /\ Before(received, q) /\ Before(InFlight, q)
          /\ ring' = Append(q, pushed + 1)
    <3>1. CASE Len(ring) < RingCapacity
      BY <1>1, <1>2, <3>1 DEF Channel!Raise
    <3>2. CASE ~(Len(ring) < RingCapacity)
      <4>1. ring # <<>> /\ 1 \in 0..Len(ring)
        BY <1>1, <3>2, EmptySeq, ConnAssumption
      <4>2. Tail(ring) = Channel!Rest(ring, 1)
        BY <1>1, <4>1, TailIsSubSeq DEF Channel!Rest
      <4>3. /\ Tail(ring) \in Seq(Events) /\ Ascending(Tail(ring)) /\ UpTo(Tail(ring), pushed)
            /\ Before(received, Tail(ring)) /\ Before(InFlight, Tail(ring))
        BY <1>1, <4>1, <4>2, PiecesOrder
      <4>. QED BY <1>2, <3>2, <4>3 DEF Channel!Raise
    <3>. QED BY <3>1, <3>2
  <2>2. pushed + 1 \in Events /\ pushed \in Nat /\ pushed' = pushed + 1
    BY <1>1, <1>2 DEF Channel!Raise, Events
  <2>3. Ascending(ring') /\ UpTo(ring', pushed') /\ Before(received, ring') /\ Before(InFlight, ring')
    BY <1>1, <2>1, <2>2, AppendOrder
  <2>4. \A t \in Seq(Events) : UpTo(t, pushed) => UpTo(t, pushed')
    <3>1. ASSUME NEW t \in Seq(Events), NEW i \in 1..Len(t), t[i] <= pushed
          PROVE  t[i] <= pushed'
      <4>1. t[i] \in Events
        BY ElementOfSeq
      <4>. QED BY <2>2, <3>1, <4>1 DEF Events
    <3>. QED BY <3>1 DEF UpTo
  <2>. QED BY <1>1, <1>2, <2>3, <2>4 DEF Channel!Raise
<1>3. CASE Channel!Carry
  <2>1. PICK n \in 1..Len(ring) :
          InFlight' = InFlight \o Channel!First(ring, n) /\ ring' = Channel!Rest(ring, n)
    BY <1>3 DEF Channel!Carry
  <2>2. n \in 0..Len(ring) /\ n <= n
    OBVIOUS
  <2>3. PICK a \in Seq(Events), r \in Seq(Events) :
          /\ a = Channel!First(ring, n) /\ r = Channel!Rest(ring, n)
          /\ Ascending(a) /\ Ascending(r) /\ Before(a, r) /\ UpTo(a, pushed) /\ UpTo(r, pushed)
          /\ Before(received, a) /\ Before(received, r) /\ Before(InFlight, a) /\ Before(InFlight, r)
    BY <1>1, <2>2, PiecesOrder
  <2>4. PICK c \in Seq(Events) :
          /\ c = InFlight \o a
          /\ Ascending(c) /\ Before(received, c) /\ Before(c, r) /\ UpTo(c, pushed)
    <3>1. InFlight \o a \in Seq(Events)
      BY <1>1, <2>3, ConcatProperties
    <3>2. /\ Ascending(InFlight \o a) /\ Before(received, InFlight \o a)
          /\ Before(InFlight \o a, r) /\ UpTo(InFlight \o a, pushed)
      BY <1>1, <2>3, ConcatOrder
    <3>. QED BY <3>1, <3>2
  <2>. QED BY <1>3, <2>1, <2>3, <2>4 DEF Channel!Carry
<1>4. CASE Channel!Deliver \/ Channel!DeliverLast
  <2>1. PICK n \in 1..Len(InFlight) :
          /\ received' = received \o Channel!First(InFlight, n)
          /\ InFlight' = Channel!Rest(InFlight, n)
    BY <1>4 DEF Channel!Deliver, Channel!DeliverLast
  <2>2. n \in 0..Len(InFlight) /\ n <= n
    OBVIOUS
  <2>3. PICK a \in Seq(Events), r \in Seq(Events) :
          /\ a = Channel!First(InFlight, n) /\ r = Channel!Rest(InFlight, n)
          /\ Ascending(a) /\ Ascending(r) /\ Before(a, r) /\ UpTo(a, pushed) /\ UpTo(r, pushed)
          /\ Before(received, a) /\ Before(received, r) /\ Before(a, ring) /\ Before(r, ring)
    BY <1>1, <2>2, PiecesOrder
  <2>4. PICK c \in Seq(Events) :
          /\ c = received \o a
          /\ Ascending(c) /\ Before(c, r) /\ Before(c, ring) /\ UpTo(c, pushed)
    BY <1>1, <2>3, ConcatOrder, ConcatProperties
  <2>. QED BY <1>4, <2>1, <2>3, <2>4 DEF Channel!Deliver, Channel!DeliverLast
<1>5. CASE Channel!Lose
  <2>1. PICK n \in 0..Len(InFlight), m \in 0..Len(InFlight) :
          n <= m /\ InFlight' = Channel!First(InFlight, n) \o Channel!Rest(InFlight, m)
    BY <1>5 DEF Channel!Lose
  <2>2. PICK a \in Seq(Events) :
          /\ a = Channel!First(InFlight, n) /\ Before(a, Channel!Rest(InFlight, m))
          /\ Ascending(a) /\ UpTo(a, pushed) /\ Before(received, a) /\ Before(a, ring)
    BY <1>1, <2>1, PiecesOrder
  <2>3. PICK r \in Seq(Events) :
          /\ r = Channel!Rest(InFlight, m)
          /\ Ascending(r) /\ UpTo(r, pushed) /\ Before(received, r) /\ Before(r, ring)
    BY <1>1, PiecesOrder
  <2>4. PICK c \in Seq(Events) :
          /\ c = a \o r
          /\ Ascending(c) /\ Before(received, c) /\ Before(c, ring) /\ UpTo(c, pushed)
    <3>1. a \o r \in Seq(Events)
      BY <2>2, <2>3, ConcatProperties
    <3>2. /\ Ascending(a \o r) /\ Before(received, a \o r)
          /\ Before(a \o r, ring) /\ UpTo(a \o r, pushed)
      BY <2>2, <2>3, ConcatOrder
    <3>. QED BY <3>1, <3>2
  <2>. QED BY <1>5, <2>1, <2>2, <2>3, <2>4 DEF Channel!Lose
<1>6. CASE Channel!Reconnect
  BY <1>6, EmptyOrder DEF Channel!Reconnect
<1>7. CASE UNCHANGED Channel!channelVars
  BY <1>7 DEF Channel!channelVars
<1>. QED BY <1>2, <1>3, <1>4, <1>5, <1>6, <1>7 DEF Channel!Next

LEMMA SortedInOrder == ConnInv /\ Sorted => Channel!InOrder
<1>. SUFFICES ASSUME ConnInv, Sorted PROVE Channel!InOrder
  OBVIOUS
<1>1. received \in Seq(Events) /\ InFlight \in Seq(Events) /\ ring \in Seq(Events)
  BY FlightTyped DEF ConnInv, Typed
<1>2. PICK c \in Seq(Events) :
        c = received \o InFlight /\ Ascending(c) /\ Before(c, ring)
  BY <1>1, ConcatOrder, ConcatProperties DEF Sorted
<1>3. PICK j \in Seq(Events) : j = c \o ring /\ Ascending(j)
  BY <1>1, <1>2, ConcatOrder, ConcatProperties DEF Sorted
<1>4. DOMAIN j = 1..Len(j)
  BY LenProperties
<1>. QED BY <1>2, <1>3, <1>4, Zenon DEF Channel!InOrder, Ascending

\* At every moment the events received are older than those on their way and those
\* older than those that wait, each in its order and none twice.
THEOREM EventsInOrder == Spec => []Channel!InOrder
<1>1. Init => Sorted
  BY SortedInit
<1>2. ConnInv /\ ConnInv' /\ Sorted /\ [Next]_vars => Sorted'
  BY ChannelStep, SortedStep
<1>. QED BY <1>1, <1>2, ConnInvariant, SortedInOrder, PTL DEF Spec

=============================================================================
